--------------------------- MODULE ConnectionPool ---------------------------
(***************************************************************************)
(* The value of a ConnectionPoolManager (src/blitz/pool.py) with both      *)
(* backends available, as a record: the _initialized flag, which pair of   *)
(* sessions the manager refers to, and all the sessions that are open.     *)
(* Sessions are created in pairs, and pairs are numbered as they are made. *)
(***************************************************************************)
EXTENDS Naturals

Backends == {"aiohttp", "httpx"}

PoolType == [initialized : BOOLEAN, pair : Nat, open : SUBSET (Backends \X Nat)]

NewPool == [initialized |-> FALSE, pair |-> 0, open |-> {}]

\* initialize(): a new pair replaces whatever pair there was
Initialized(p) ==
    IF p.initialized THEN p
    ELSE [initialized |-> TRUE, pair |-> p.pair + 1,
          open |-> p.open \cup (Backends \X {p.pair + 1})]

\* The session that get_aiohttp_session() and get_httpx_client() return of an
\* initialised pool can be used.
Usable(p, backend) == <<backend, p.pair>> \in p.open

\* Mutant of Without: the flag is cleared before the sessions are closed.
WithoutEarly(p, backend) ==
    [p EXCEPT !.initialized = FALSE, !.open = @ \ {<<backend, p.pair>>}]

\* close() up to where it waits for this backend: a session counts as closed
\* from the call of its own close() on.
Without(p, backend) == [p EXCEPT !.open = @ \ {<<backend, p.pair>>}]

\* Mutant of Uninitialized: the flag survives close().
UninitializedNever(p) == p

\* The last line of close()
Uninitialized(p) == [p EXCEPT !.initialized = FALSE]
=============================================================================
