----------------------------- MODULE MetaSession -----------------------------
(***************************************************************************)
(* The metadata sessions behind the object explorer: the server node of    *)
(* one profile (tree_action, finish_connect, request_meta in ops.rs,       *)
(* apply_metadata in state.rs), the dispatcher's entry for the profile     *)
(* (session/mod.rs) and its actors (meta_actor, session/actor.rs).  Every  *)
(* queue is an unbounded channel; an actor drops its own when it ends.     *)
(*                                                                         *)
(* Abstracted: of the kinds of request, the probe and the list of          *)
(* databases, which stands for every list a node shows; of credentials,    *)
(* whether the node has any; the clock, so a ping may come before any use. *)
(***************************************************************************)
EXTENDS Naturals, Sequences, FiniteSets

CONSTANTS MaxReqs, MaxDeaths, MaxLeaves  \* bounds: requests; failures; disconnects

VARIABLES
    \* the user interface
    creds,     \* node.creds is there
    signing,   \* a sign-in for the tree is under way
    list,      \* node.databases: its state, and the request it was loaded by
    awaited,   \* pending_meta
    asked,     \* requests made so far
    leaves,    \* disconnects so far
    kindOf, bornIn,  \* per request: its kind, and the disconnects before it
    \* the channels, the dispatcher
    cmds,      \* commands the dispatcher has not read
    answers,   \* Event::Metadata the user interface has not read
    entry,     \* the actor the dispatcher knows, 0 for none
    actors,    \* actors spawned so far
    \* per actor
    box,       \* its mailbox: requests, and Close
    life,      \* "waiting", "looking", "serving", "telling", "ending", "ended"
    conn,      \* "none", "live", "gone" (dead, not noticed), "broken" (noticed)
    req, again,    \* the request at hand, and whether it was tried before
    ok,        \* what its answer will say
    dropped,   \* what was still in its mailbox when it ended
    deaths     \* failures so far

uiVars == <<creds, signing, list, awaited, asked, leaves, kindOf, bornIn>>
actorVars == <<box, life, conn, req, again, ok, deaths, dropped>>
metaVars == <<uiVars, cmds, answers, entry, actors, actorVars>>

Reqs == 1..MaxReqs
Actors == 1..MaxReqs
Close == 0

TypeOK ==
    /\ creds \in BOOLEAN /\ signing \in BOOLEAN
    /\ list \in [state : {"NotLoaded", "Loading", "Loaded", "Failed"}, by : 0..MaxReqs]
    /\ awaited \subseteq Reqs /\ asked \in 0..MaxReqs /\ leaves \in 0..MaxLeaves
    /\ kindOf \in [Reqs -> {"probe", "list"}] /\ bornIn \in [Reqs -> 0..MaxLeaves]
    /\ cmds \in Seq(0..MaxReqs) /\ answers \in Seq([req : Reqs, ok : BOOLEAN])
    /\ actors \in 0..MaxReqs /\ entry \in 0..actors
    /\ box \in [Actors -> Seq(0..MaxReqs)]
    /\ life \in [Actors -> {"waiting", "looking", "serving", "telling", "ending", "ended"}]
    /\ conn \in [Actors -> {"none", "live", "gone", "broken"}]
    /\ req \in [Actors -> 0..MaxReqs] /\ again \in [Actors -> BOOLEAN] /\ ok \in [Actors -> BOOLEAN]
    /\ deaths \in 0..MaxDeaths /\ dropped \in [Actors -> SUBSET Reqs]

Init ==
    /\ creds = FALSE /\ signing = FALSE /\ list = [state |-> "NotLoaded", by |-> 0]
    /\ awaited = {} /\ asked = 0 /\ leaves = 0
    /\ kindOf = [r \in Reqs |-> "probe"] /\ bornIn = [r \in Reqs |-> 0]
    /\ cmds = <<>> /\ answers = <<>> /\ entry = 0 /\ actors = 0
    /\ box = [a \in Actors |-> <<>>] /\ life = [a \in Actors |-> "waiting"]
    /\ conn = [a \in Actors |-> "none"] /\ req = [a \in Actors |-> 0]
    /\ again = [a \in Actors |-> FALSE] /\ ok = [a \in Actors |-> FALSE]
    /\ deaths = 0 /\ dropped = [a \in Actors |-> {}]

-----------------------------------------------------------------------------
(* The user interface                                                      *)

\* request_meta, for each kind of ks in turn
Request(ks) ==
    LET new == asked + 1 .. asked + Len(ks)
    IN /\ asked + Len(ks) <= MaxReqs
       /\ asked' = asked + Len(ks) /\ awaited' = awaited \cup new
       /\ kindOf' = [r \in Reqs |-> IF r \in new THEN ks[r - asked] ELSE kindOf[r]]
       /\ bornIn' = [r \in Reqs |-> IF r \in new THEN leaves ELSE bornIn[r]]
       /\ cmds' = cmds \o [i \in DOMAIN ks |-> asked + i]

Loading == list' = [state |-> "Loading", by |-> 0]

\* begin_connect for the tree
ConnectServer ==
    /\ ~creds /\ ~signing /\ signing' = TRUE
    /\ UNCHANGED <<creds, list, awaited, asked, leaves, kindOf, bornIn, cmds, answers, entry,
                   actors, actorVars>>

\* finish_connect
SignedIn ==
    /\ signing /\ signing' = FALSE /\ creds' = TRUE
    /\ Request(<<"probe", "list">>) /\ Loading
    /\ UNCHANGED <<leaves, answers, entry, actors, actorVars>>

\* on_auth_done with an error
SignInFails ==
    /\ signing /\ signing' = FALSE
    /\ list' = [state |-> "Failed", by |-> 0]
    /\ UNCHANGED <<creds, awaited, asked, leaves, kindOf, bornIn, cmds, answers, entry, actors,
                   actorVars>>

\* RefreshServer
Refresh ==
    /\ creds /\ Request(<<"list">>) /\ Loading
    /\ UNCHANGED <<creds, signing, leaves, answers, entry, actors, actorVars>>

\* DisconnectServer; requests under way stay in pending_meta
DisconnectServer ==
    /\ creds /\ leaves < MaxLeaves
    /\ creds' = FALSE /\ list' = [state |-> "NotLoaded", by |-> 0]
    /\ cmds' = Append(cmds, Close) /\ leaves' = leaves + 1
    /\ UNCHANGED <<signing, awaited, asked, kindOf, bornIn, answers, entry, actors, actorVars>>

\* Event::Metadata in apply_event, apply_metadata
Reads ==
    /\ answers # <<>>
    /\ LET ans == Head(answers)
       IN /\ awaited' = awaited \ {ans.req}
          /\ list' = IF ans.req \in awaited /\ kindOf[ans.req] = "list"
                     THEN [state |-> IF ans.ok THEN "Loaded" ELSE "Failed", by |-> ans.req]
                     ELSE list
    /\ answers' = Tail(answers)
    /\ UNCHANGED <<creds, signing, asked, leaves, kindOf, bornIn, cmds, entry, actors, actorVars>>

-----------------------------------------------------------------------------
(* The dispatcher                                                          *)

\* a new actor for every request, as Command::Connect does for a tab
DispatchFresh ==
    /\ cmds # <<>> /\ cmds' = Tail(cmds)
    /\ LET r == Head(cmds)
           told == IF entry = 0 \/ life[entry] = "ended" THEN box ELSE [box EXCEPT ![entry] = Append(@, Close)]
       IN IF r = Close THEN entry' = 0 /\ box' = told /\ UNCHANGED actors
          ELSE /\ entry' = actors + 1 /\ actors' = actors + 1
               /\ box' = [told EXCEPT ![actors + 1] = Append(@, r)]
    /\ UNCHANGED <<uiVars, answers, life, conn, req, again, ok, deaths, dropped>>

\* Command::Metadata: an actor is spawned when there is none or the send fails;
\* Command::CloseMetadata
Dispatch ==
    /\ cmds # <<>> /\ cmds' = Tail(cmds)
    /\ LET r == Head(cmds)
           dead == entry # 0 /\ life[entry] = "ended"
           a == IF entry = 0 \/ dead THEN actors + 1 ELSE entry
       IN IF r = Close
          THEN /\ entry' = 0 /\ UNCHANGED actors
               /\ box' = IF entry = 0 \/ dead THEN box ELSE [box EXCEPT ![entry] = Append(@, Close)]
          ELSE /\ entry' = a /\ actors' = (IF a > actors THEN a ELSE actors)
               /\ box' = [box EXCEPT ![a] = Append(@, r)]
    /\ UNCHANGED <<uiVars, answers, life, conn, req, again, ok, deaths, dropped>>

-----------------------------------------------------------------------------
(* meta_actor                                                              *)

notActor == UNCHANGED <<uiVars, cmds, entry, actors>>

\* rx.recv
Receive(a) ==
    /\ life[a] = "waiting" /\ box[a] # <<>>
    /\ box' = [box EXCEPT ![a] = Tail(@)]
    /\ IF Head(box[a]) = Close
       THEN life' = [life EXCEPT ![a] = "ending"] /\ UNCHANGED <<req, again>>
       ELSE /\ life' = [life EXCEPT ![a] = "looking"]
            /\ req' = [req EXCEPT ![a] = Head(box[a])] /\ again' = [again EXCEPT ![a] = FALSE]
    /\ UNCHANGED <<answers, conn, ok, deaths, dropped>> /\ notActor

\* the connection is known to be dead, or the ping says so; the ping of a live
\* one may time out
Forget(a) ==
    /\ life[a] = "looking" /\ conn[a] # "none"
    /\ conn[a] = "live" => deaths < MaxDeaths
    /\ deaths' = deaths + (IF conn[a] = "live" THEN 1 ELSE 0)
    /\ conn' = [conn EXCEPT ![a] = "none"]
    /\ UNCHANGED <<answers, box, life, req, again, ok, dropped>> /\ notActor

Answer(a, o) == life' = [life EXCEPT ![a] = "telling"] /\ ok' = [ok EXCEPT ![a] = o]

\* refresh and open; either may fail
Open(a) ==
    /\ life[a] = "looking" /\ conn[a] = "none"
    /\ \/ /\ conn' = [conn EXCEPT ![a] = "live"] /\ life' = [life EXCEPT ![a] = "serving"]
          /\ UNCHANGED <<ok, deaths>>
       \/ /\ deaths < MaxDeaths /\ deaths' = deaths + 1
          /\ Answer(a, FALSE) /\ UNCHANGED conn
    /\ UNCHANGED <<answers, box, req, again, dropped>> /\ notActor

Reuse(a) ==
    /\ life[a] = "looking" /\ conn[a] \in {"live", "gone"}
    /\ life' = [life EXCEPT ![a] = "serving"]
    /\ UNCHANGED <<answers, box, conn, req, again, ok, deaths, dropped>> /\ notActor

\* serve answers; an error of the server may end the session
Served(a) ==
    /\ life[a] = "serving" /\ conn[a] = "live"
    /\ \E o \in BOOLEAN : Answer(a, o) /\ (~o => deaths < MaxDeaths)
    /\ IF ok'[a] THEN UNCHANGED <<conn, deaths>>
       ELSE conn' \in {conn, [conn EXCEPT ![a] = "broken"]} /\ deaths' = deaths + 1
    /\ UNCHANGED <<answers, box, req, again, dropped>> /\ notActor

\* the second loss is not told to anybody
DisconnectedSilently(a) ==
    /\ life[a] = "serving" /\ conn[a] = "gone"
    /\ IF again[a]
       THEN life' = [life EXCEPT ![a] = "ending"] /\ conn' = [conn EXCEPT ![a] = "broken"] /\ UNCHANGED again
       ELSE /\ life' = [life EXCEPT ![a] = "looking"] /\ again' = [again EXCEPT ![a] = TRUE]
            /\ conn' = [conn EXCEPT ![a] = "none"]
    /\ UNCHANGED <<answers, box, req, ok, deaths, dropped>> /\ notActor

\* DriverError::Disconnected: once more on a new connection
Disconnected(a) ==
    /\ life[a] = "serving" /\ conn[a] = "gone"
    /\ IF again[a]
       THEN Answer(a, FALSE) /\ conn' = [conn EXCEPT ![a] = "broken"] /\ UNCHANGED again
       ELSE /\ life' = [life EXCEPT ![a] = "looking"] /\ again' = [again EXCEPT ![a] = TRUE]
            /\ conn' = [conn EXCEPT ![a] = "none"] /\ UNCHANGED ok
    /\ UNCHANGED <<answers, box, req, deaths, dropped>> /\ notActor

\* emit, and break when the connection is lost
Tell(a) ==
    /\ life[a] = "telling"
    /\ answers' = Append(answers, [req |-> req[a], ok |-> ok[a]])
    /\ life' = [life EXCEPT ![a] = IF conn[a] \in {"none", "broken"} THEN "ending" ELSE "waiting"]
    /\ UNCHANGED <<box, conn, req, again, ok, deaths, dropped>> /\ notActor

\* the connection is closed, and the mailbox goes with what is still in it
End(a) ==
    /\ life[a] = "ending" /\ life' = [life EXCEPT ![a] = "ended"]
    /\ dropped' = [dropped EXCEPT ![a] = {box[a][i] : i \in DOMAIN box[a]} \ {Close}]
    /\ box' = [box EXCEPT ![a] = <<>>]
    /\ UNCHANGED <<answers, conn, req, again, ok, deaths>> /\ notActor

\* the server or the network ends the connection, unnoticed
Dies(a) ==
    /\ conn[a] = "live" /\ deaths < MaxDeaths
    /\ conn' = [conn EXCEPT ![a] = "gone"] /\ deaths' = deaths + 1
    /\ UNCHANGED <<answers, box, life, req, again, ok, dropped>> /\ notActor

Works(a) == \/ Receive(a) \/ Forget(a) \/ Open(a) \/ Reuse(a) \/ Served(a) \/ Disconnected(a)
            \/ Tell(a) \/ End(a)

Next ==
    \/ ConnectServer \/ SignedIn \/ SignInFails \/ Refresh \/ DisconnectServer \/ Reads
    \/ Dispatch
    \/ \E a \in Actors : Works(a) \/ Dies(a)

\* every task is polled, and every call of the driver returns: a metadata query
\* has no timeout of its own, so this is asked of the server and the network
Fairness == /\ WF_metaVars(Reads) /\ WF_metaVars(Dispatch)
            /\ \A a \in Actors : WF_metaVars(Works(a))

Spec == Init /\ [][Next]_metaVars /\ Fairness

-----------------------------------------------------------------------------
(* Properties                                                              *)

\* A metadata request is answered, whatever dies meanwhile, unless it waited in
\* the mailbox of an actor that ended with a failed request: those are dropped
\* without a word, and the node goes on loading (actor.rs:553, mod.rs:210).
MetaAnswered ==
    \A r \in Reqs :
        r \in awaited ~> \/ r \notin awaited
                         \/ \E a \in Actors : life[a] = "ended" /\ ~ok[a] /\ r \in dropped[a]

\* Between two disconnects the answers come in the order of the requests, across
\* the deaths of actors too: a node never shows an older list than one it has
\* been given (mod.rs:210, state.rs:2187).
LatestListShown ==
    [][list'.by # 0 => \A q \in list'.by + 1 .. asked' :
           kindOf'[q] = "list" /\ bornIn'[q] = bornIn'[list'.by] => q \in awaited']_metaVars

-----------------------------------------------------------------------------
(* The invariant behind LatestListShown: requests are on their way in order *)

Busy(a) == life[a] \in {"looking", "serving", "telling"}

\* Where a request is
Sent(r) == \E i \in DOMAIN cmds : cmds[i] = r
Behind(i, r) == \E j \in DOMAIN cmds : i < j /\ cmds[j] = r
InBox(a, r) == \E i \in DOMAIN box[a] : box[a][i] = r
At(a, r) == InBox(a, r) \/ (Busy(a) /\ req[a] = r)
Told(r) == \E i \in DOMAIN answers : answers[i].req = r
OnItsWay(r) == Sent(r) \/ Told(r) \/ \E a \in Actors : At(a, r)

Rising(s) == \A i, j \in DOMAIN s : i < j /\ s[i] # Close /\ s[j] # Close => s[i] < s[j]

\* The dispatcher has not read the newest requests; it has fewer actors than it
\* has read requests.
NewestSent ==
    /\ Rising(cmds) /\ actors <= asked
    /\ \A r \in Reqs : Sent(r) =>
         actors < r /\ r <= asked /\ \A q \in Reqs : r < q /\ q <= asked => Sent(q)
    /\ \A r \in Reqs : Told(r) \/ (\E a \in Actors : At(a, r)) =>
         r <= asked /\ \A q \in Reqs : Sent(q) => r < q

\* A Close parts the requests before it from those behind it.
ClosesPart ==
    /\ \A r \in Reqs : r <= asked => bornIn[r] <= leaves
    /\ \A i \in DOMAIN cmds : cmds[i] = Close =>
         \A r \in Reqs : r <= asked /\ ~Behind(i, r) =>
           bornIn[r] < leaves /\ \A q \in Reqs : Behind(i, q) => bornIn[r] < bornIn[q]

\* A request is with one actor, in the order of the requests, or answered.
Mailboxes ==
    /\ \A a \in Actors :
         /\ Rising(box[a])
         /\ Busy(a) => req[a] \in Reqs /\ \A r \in Reqs : InBox(a, r) => req[a] < r
         /\ life[a] = "ended" => box[a] = <<>>
         /\ a > actors => life[a] = "waiting" /\ box[a] = <<>>
    /\ \A a, b \in Actors, r \in Reqs : At(a, r) /\ At(b, r) => a = b
    /\ \A a \in Actors, r \in Reqs : At(a, r) => ~Told(r)

\* The requests of this connect are with the actor the dispatcher knows; what is
\* with an actor has the later requests of its connect behind it, or they are
\* going to the same actor.
Queues ==
    \A a \in Actors, r \in Reqs : At(a, r) =>
        /\ bornIn[r] = leaves => entry = a
        /\ \A q \in Reqs : r < q /\ q <= asked /\ bornIn[q] = bornIn[r] =>
              InBox(a, q) \/ (Sent(q) /\ entry = a)

AnswersInOrder ==
    \A i, j \in DOMAIN answers :
        i < j /\ bornIn[answers[i].req] = bornIn[answers[j].req] => answers[i].req <= answers[j].req

\* While a request is on its way, the later ones of its connect are awaited.
LaterAwaited ==
    \A r, q \in Reqs : OnItsWay(r) /\ r < q /\ q <= asked /\ bornIn[q] = bornIn[r] => q \in awaited

LatestShown ==
    list.by # 0 => \A q \in list.by + 1 .. asked :
        kindOf[q] = "list" /\ bornIn[q] = bornIn[list.by] => q \in awaited

InOrder == /\ NewestSent /\ ClosesPart /\ Mailboxes /\ Queues /\ AnswersInOrder
           /\ LaterAwaited /\ LatestShown

IInv == TypeOK /\ InOrder
=============================================================================
