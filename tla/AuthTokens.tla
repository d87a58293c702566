------------------------------ MODULE AuthTokens ------------------------------
(***************************************************************************)
(* The tokens of one profile: CredentialResolver of cobalt-auth            *)
(* (provider.rs).  Token requests run at the same time on the session      *)
(* runtime, one for each user of a token; the resolver locks its cache and *)
(* the secret store only for single operations, never across an await.     *)
(* Sign-out and sign-in again are the user's.                              *)
(*                                                                         *)
(* Abstracted: a token is the account it is for and whether it is still    *)
(* valid; the browser and the token endpoint answer anything they may.     *)
(***************************************************************************)
EXTENDS Naturals, FiniteSets

CONSTANTS Requests,    \* token requests
          Resources, Accounts, NoAccount

VARIABLES cache,    \* per resource: the account of the token, and whether it is valid
          secret,   \* the stored refresh token: its account
          step,     \* per request: "new", "look", "read", "refresh", "browser", "store", "keep", "over"
          way,      \* "silent", "any", "again" (interactive_token)
          resource,
          held,     \* the account of the token or refresh token a request holds
          seen,     \* what it saw in the cache
          out,      \* forget: "no"; the cache is cleared, and so far no request was under
                    \* way ("half") or one was ("met"); "done"
          settled   \* signed out with no request under way, and not signed in since

authVars == <<cache, secret, step, way, resource, held, seen, out, settled>>
reqVars == <<way, resource>>

Nothing == [account |-> NoAccount, valid |-> FALSE]
Tokens == [account : Accounts \cup {NoAccount}, valid : BOOLEAN]

TypeOK ==
    /\ cache \in [Resources -> Tokens] /\ secret \in Accounts \cup {NoAccount}
    /\ step \in [Requests -> {"new", "look", "read", "refresh", "browser", "store", "keep", "over"}]
    /\ way \in [Requests -> {"silent", "any", "again"}] /\ resource \in [Requests -> Resources]
    /\ held \in [Requests -> Accounts \cup {NoAccount}] /\ seen \in [Requests -> Accounts \cup {NoAccount}]
    /\ out \in {"no", "half", "met", "done"} /\ settled \in BOOLEAN

Init ==
    /\ cache = [r \in Resources |-> Nothing] /\ secret = NoAccount
    /\ step = [q \in Requests |-> "new"]
    /\ way \in [Requests -> {"silent", "any", "again"}] /\ resource \in [Requests -> Resources]
    /\ held = [q \in Requests |-> NoAccount] /\ seen = [q \in Requests |-> NoAccount]
    /\ out = "no" /\ settled = FALSE

UnderWay(q) == step[q] \notin {"new", "over"}

Goto(q, s) == step' = [step EXCEPT ![q] = s]

-----------------------------------------------------------------------------
(* A request                                                               *)

Begin(q) ==
    /\ step[q] = "new" /\ Goto(q, IF way[q] = "again" THEN "browser" ELSE "look")
    /\ out' = (IF out = "half" THEN "met" ELSE out)
    /\ UNCHANGED <<cache, secret, reqVars, held, seen, settled>>

\* a cached token that is still valid is the answer
Look(q) ==
    /\ step[q] = "look"
    /\ LET c == cache[resource[q]]
       IN /\ seen' = [seen EXCEPT ![q] = c.account]
          /\ Goto(q, IF c.valid THEN "over" ELSE "read")
    /\ UNCHANGED <<cache, secret, reqVars, held, out, settled>>

\* the stored refresh token, or, when there is none or it cannot be read, the one
\* of the cached token
ReadSecret(q) ==
    /\ step[q] = "read"
    /\ \E stored \in {secret, NoAccount} :
          LET rt == IF stored # NoAccount THEN stored ELSE seen[q]
          IN /\ held' = [held EXCEPT ![q] = rt]
             /\ Goto(q, IF rt # NoAccount THEN "refresh" ELSE IF way[q] = "silent" THEN "over" ELSE "browser")
    /\ UNCHANGED <<cache, secret, reqVars, seen, out, settled>>

\* the endpoint answers, or rejects, or cannot be reached
Refreshed(q) ==
    /\ step[q] = "refresh"
    /\ \/ Goto(q, "store") /\ UNCHANGED cache
       \/ way[q] = "silent" /\ Goto(q, "over") /\ UNCHANGED cache
       \/ /\ way[q] = "any" /\ Goto(q, "browser")
          /\ cache' = [cache EXCEPT ![resource[q]] = Nothing]
       \/ way[q] = "any" /\ Goto(q, "over") /\ UNCHANGED cache
    /\ UNCHANGED <<secret, reqVars, held, seen, out, settled>>

\* the user signs in, with any account, or gives up; interactive_token clears
\* what is cached for the profile
SignsIn(q) ==
    /\ step[q] = "browser"
    /\ \/ /\ \E a \in Accounts : held' = [held EXCEPT ![q] = a]
          /\ Goto(q, "store") /\ settled' = FALSE
          /\ cache' = (IF way[q] = "again" THEN [r \in Resources |-> Nothing] ELSE cache)
       \/ Goto(q, "over") /\ UNCHANGED <<held, cache, settled>>
    /\ UNCHANGED <<secret, reqVars, seen, out>>

\* remember_for: the secret store, which may fail, then the cache
Store(q) ==
    /\ step[q] = "store" /\ Goto(q, "keep")
    /\ secret' \in {secret, held[q]}
    /\ UNCHANGED <<cache, reqVars, held, seen, out, settled>>

Keep(q) ==
    /\ step[q] = "keep" /\ Goto(q, "over")
    /\ cache' = [cache EXCEPT ![resource[q]] = [account |-> held[q], valid |-> TRUE]]
    /\ UNCHANGED <<secret, reqVars, held, seen, out, settled>>

Expires(r) ==
    /\ cache[r].valid /\ cache' = [cache EXCEPT ![r].valid = FALSE]
    /\ UNCHANGED <<secret, step, reqVars, held, seen, out, settled>>

\* forget_resource, after a consent that was granted elsewhere
ForgetResource(r) ==
    /\ cache[r] # Nothing /\ cache' = [cache EXCEPT ![r] = Nothing]
    /\ UNCHANGED <<secret, step, reqVars, held, seen, out, settled>>

-----------------------------------------------------------------------------
(* Sign out                                                                *)

SignsOut == out = "no" /\ out' = (IF \E q \in Requests : UnderWay(q) THEN "met" ELSE "half")

\* a sign-out that leaves the expired tokens, and their refresh tokens
ForgetValid ==
    /\ SignsOut
    /\ cache' = [r \in Resources |-> IF cache[r].valid THEN Nothing ELSE cache[r]]
    /\ UNCHANGED <<secret, step, reqVars, held, seen, settled>>

\* forget: the cache first
ForgetCache ==
    /\ SignsOut /\ cache' = [r \in Resources |-> Nothing]
    /\ UNCHANGED <<secret, step, reqVars, held, seen, settled>>

\* then the secret, unless the store refuses
ForgetSecret ==
    /\ out \in {"half", "met"} /\ out' = "done"
    /\ \/ secret' = NoAccount /\ settled' = (out = "half")
       \/ UNCHANGED <<secret, settled>>
    /\ UNCHANGED <<cache, step, reqVars, held, seen>>

Next ==
    \/ \E q \in Requests : \/ Begin(q) \/ Look(q) \/ ReadSecret(q) \/ Refreshed(q) \/ SignsIn(q)
                           \/ Store(q) \/ Keep(q)
    \/ \E r \in Resources : Expires(r) \/ ForgetResource(r)
    \/ ForgetCache \/ ForgetSecret

Spec == Init /\ [][Next]_authVars

-----------------------------------------------------------------------------
(* Properties                                                              *)

\* After a sign-out that met no request under way nothing brings the account
\* back but a new sign-in: no token is cached, none is stored, and no request
\* gets one silently.  A refresh in flight does bring it back (provider.rs:317).
SignOutSticks ==
    settled => /\ secret = NoAccount
               /\ \A r \in Resources : cache[r] = Nothing
               /\ \A q \in Requests : step[q] \notin {"refresh", "store", "keep"}

-----------------------------------------------------------------------------
(* The inductive invariant                                                 *)

\* Between the two halves of a sign-out that met no request, and after it, the
\* cache is empty; a request that looked into it since found nothing.
SignedOut ==
    /\ out = "half" => /\ \A r \in Resources : cache[r] = Nothing
                       /\ \A q \in Requests : ~UnderWay(q)
    /\ settled => /\ out = "done"
                  /\ \A q \in Requests : step[q] = "read" => seen[q] = NoAccount

IInv == TypeOK /\ SignedOut /\ SignOutSticks
=============================================================================
