------------------------ MODULE PyrightRequestsProofs ------------------------
(***************************************************************************)
(* Proofs about PyrightRequests, for any calls, files, features asked for, *)
(* capabilities provided, and any number of edits, crashes and restarts.   *)
(***************************************************************************)
EXTENDS PyrightRequests, TLAPS

-----------------------------------------------------------------------------
(* The inductive invariant.                                                 *)

States == {"idle", "opening", "asking", "sent", "resent", "restarting", "initializing",
           "rerestarting", "reinitializing", "stopping", "starting"} \cup Over

\* A restart, in either way, is going on.
Busy(c) == Restarting(c) \/ Manually(c)

\* The call keeps the number of a client: of the one it asked or shuts down.
Holding(c) == pc[c] \in {"sent", "resent", "restarting", "rerestarting", "stopping"}

CallInv ==
    /\ pc \in [Calls -> States]
    /\ feature \in [Calls -> DOMAIN Feature \cup {None}]
    /\ file \in [Calls -> Files \cup {None}]
    /\ on \in [Calls -> 1..MaxClients \cup {None}]
    /\ got \in [Calls -> 0..MaxEdits \cup {None}]
    /\ asked \in [Calls -> 0..MaxEdits \cup {None}]
    /\ has \in [1..MaxClients -> [Files -> 0..MaxEdits \cup {None}]]
    /\ edits \in 0..MaxEdits
    /\ overlapped \in BOOLEAN /\ restarting \in BOOLEAN
    /\ \A c \in Calls : pc[c] # "idle" => /\ feature[c] \in DOMAIN Feature
                                          /\ file[c] \in Files
                                          /\ asked[c] \in 0..MaxEdits
    /\ \A c \in Calls : Holding(c) => on[c] \in 1..client

TypeInv == TypeOK /\ CallInv

\* What a step must keep of it besides the parts about the calls.
TablesOK ==
    /\ disk \in [Files -> 0..MaxEdits]
    /\ client \in 1..MaxClients
    /\ alive \subseteq 1..client /\ ready \subseteq 1..client
    /\ capable \in {None, Provided}
    /\ hash \in [Files -> 0..MaxEdits \cup {None}]
    /\ has \in [1..MaxClients -> [Files -> 0..MaxEdits \cup {None}]]
    /\ got \in [Calls -> 0..MaxEdits \cup {None}]
    /\ edits \in 0..MaxEdits /\ overlapped \in BOOLEAN

\* Who restarts the server alone shuts down the client that is the session's.
ServerInv ==
    ~overlapped =>
        /\ alive \subseteq {client}
        /\ \A c \in Calls : pc[c] \in {"restarting", "rerestarting", "stopping"} =>
                               on[c] = client
        /\ \A c, d \in Calls : Busy(c) /\ Busy(d) => c = d

\* Client k was given nothing of c's file that is older than c.
Fresh(c, k) == has[k][file[c]] = None \/ has[k][file[c]] >= asked[c]

\* The call is past the opening of its file, and has not ended.
Opened(c) == pc[c] \notin {"idle", "opening"} \cup Over

\* A client that lives was given what the hashes say, or nothing: what a call
\* finds up to date is so.
FreshFiles ==
    /\ \A f \in Files : disk[f] <= edits
    /\ \A k \in 1..MaxClients, f \in Files : k > client => has[k][f] = None
    /\ IsAlive => \A f \in Files : hash[f] # None => has[client][f] \in {None, hash[f]}

\* A call that resolves a position and has its file opened asks a client that
\* was given nothing older, or nothing at all.
FreshCall(c) ==
    /\ pc[c] # "idle" => asked[c] <= disk[file[c]]
    /\ Opened(c) /\ Of(c).opens = "refreshed" =>
           /\ IsAlive => Fresh(c, client)
           /\ Waiting(c) => Fresh(c, on[c])
    /\ got[c] # None => /\ pc[c] = "answered"
                        /\ Of(c).opens = "refreshed" => got[c] >= asked[c]

FreshInv == FreshFiles /\ \A c \in Calls : FreshCall(c)

\* Only the restart_server tool restarts the server by hand.
OutcomeInv ==
    /\ \A c \in Calls : Manually(c) => feature[c] = "restart_server"
    /\ UnsupportedIsExplicit

IInv == TypeInv /\ ServerInv /\ FreshInv /\ OutcomeInv

-----------------------------------------------------------------------------
(* The table of the features.                                               *)

\* What every feature does with the responses it cannot convert: one that needs
\* a capability says so when the server does not know the method, and only two
\* features make something else of that.
LEMMA FeatureTable ==
    ASSUME NEW m \in DOMAIN Feature
    PROVE  /\ Feature[m].needs # None => Feature[m].unhandled = "unsupported"
           /\ Feature[m].empty \in {"[]", "null"}
           /\ Feature[m].unhandled \in {"failed", "unsupported", "null", "definition", "manual"}
           /\ Feature[m].unhandled = "manual" => m = "restart_server"
           /\ Feature[m].unhandled = "definition" => m = "declaration"
BY DEF Feature, Hover, DocumentSymbols, Completions, References, Definition,
       SignatureHelp, WorkspaceSymbol, PrepareCallHierarchy, IncomingCalls, OutgoingCalls,
       CodeActions, DocumentHighlights, Implementation, PrepareTypeHierarchy, Supertypes,
       Subtypes, TypeDefinition, SelectionRange, InlayHints, SemanticTokens, FoldingRanges,
       Declaration, PrepareRename, RestartServer, Plain, Optional

LEMMA SomeFeatures ==
    /\ "definition" \in DOMAIN Feature /\ Feature["definition"].opens = "refreshed"
    /\ Feature["declaration"].opens = "refreshed"
    /\ Feature["restart_server"].needs = None
BY DEF Feature, Definition, Declaration, RestartServer, Plain

-----------------------------------------------------------------------------
(* Type correctness.                                                        *)

LEMMA InitType == Init => TypeInv
<1> SUFFICES ASSUME Init PROVE TypeInv
    OBVIOUS
<1>1. \A c \in Calls : pc[c] = "idle"
    BY DEF Init
<1>2. TypeOK
  <2>1. 0 \in 0..MaxEdits /\ 1 \in 1..MaxClients
      BY ConstantsAssumption
  <2>2. \A c \in Calls : ~Restarting(c) /\ ~Waiting(c)
      BY <1>1 DEF Restarting, Waiting
  <2>3. QED  BY <2>1, <2>2 DEF Init, TypeOK
<1>3. CallInv
  <2>1. \A c \in Calls : ~Holding(c)
      BY <1>1 DEF Holding
  <2>2. 0 \in 0..MaxEdits
      BY ConstantsAssumption
  <2>3. QED  BY <1>1, <2>1, <2>2 DEF Init, CallInv, States
<1>4. QED  BY <1>2, <1>3 DEF TypeInv

\* A call goes from one state to another.
LEMMA EndsType ==
    ASSUME TypeInv, NEW c \in Calls, NEW x \in States, Ends(c, x)
    PROVE  /\ pc' \in [Calls -> States]
           /\ pc'[c] = x /\ \A d \in Calls \ {c} : pc'[d] = pc[d]
BY DEF TypeInv, CallInv, Ends

\* What a response can become.
LEMMA Outcomes ==
    ASSUME NEW c \in Calls, feature[c] \in DOMAIN Feature, NEW r
    PROVE  /\ Outcome(c, r) \in Over \cup {"definition", "manual"}
           /\ Outcome(c, r) = "manual" => feature[c] = "restart_server"
           /\ Outcome(c, r) = "definition" => feature[c] = "declaration"
<1> DEFINE m == feature[c]
<1>1. m \in DOMAIN Feature
    OBVIOUS
<1> HIDE DEF m
<1>2. /\ Feature[m].empty \in {"[]", "null"}
      /\ Feature[m].unhandled \in {"failed", "unsupported", "null", "definition", "manual"}
      /\ Feature[m].unhandled = "manual" => m = "restart_server"
      /\ Feature[m].unhandled = "definition" => m = "declaration"
    BY <1>1, FeatureTable
<1>3. QED  BY <1>2 DEF Outcome, Of, Over, m

\* The states in which a call restarts the server.
InRestart == {"restarting", "initializing", "rerestarting", "reinitializing"}

\* What a step of c must do for the parts of the invariant that are about calls:
\* it begins a restart when there is none, and takes back _restarting at the end
\* of its own only.
LEMMA StepType ==
    ASSUME TypeInv, NEW c \in Calls, NEW x \in States \ {"idle"}, Ends(c, x),
           file' \in [Calls -> Files \cup {None}], file'[c] \in Files,
           asked' \in [Calls -> 0..MaxEdits \cup {None}], asked'[c] \in 0..MaxEdits,
           feature' \in [Calls -> DOMAIN Feature \cup {None}], feature'[c] \in DOMAIN Feature,
           on' \in [Calls -> 1..MaxClients \cup {None}],
           \A d \in Calls \ {c} : /\ on'[d] = on[d] /\ feature'[d] = feature[d]
                                  /\ file'[d] = file[d] /\ asked'[d] = asked[d],
           TablesOK', client <= client',
           x \in {"sent", "resent", "stopping", "restarting", "rerestarting"} =>
               on'[c] \in 1..client',
           IF x \in InRestart
           THEN restarting' = TRUE /\ (restarting => Restarting(c))
           ELSE restarting' = (restarting /\ ~Restarting(c))
    PROVE  TypeInv'
<1> USE DEF TypeInv, TypeOK, CallInv, TablesOK
<1>1. /\ pc' \in [Calls -> States]
      /\ pc'[c] = x /\ \A d \in Calls \ {c} : pc'[d] = pc[d]
    BY EndsType
<1>2. /\ \A d \in Calls \ {c} : Restarting(d)' <=> Restarting(d)
      /\ Restarting(c)' <=> x \in InRestart
    BY <1>1 DEF Restarting, InRestart
<1>3. \A d, e \in Calls : Restarting(d)' /\ Restarting(e)' => d = e
    BY <1>2
<1>4. restarting' <=> \E d \in Calls : Restarting(d)'
    BY <1>2
<1>5. ASSUME NEW d \in Calls, Holding(d)' PROVE on'[d] \in 1..client'
  <2>1. CASE d = c
      BY <1>1, <1>5, <2>1 DEF Holding
  <2>2. CASE d # c
    <3>1. on[d] \in 1..client /\ on'[d] = on[d]
        BY <1>1, <1>5, <2>2 DEF Holding
    <3>2. QED  BY <3>1
  <2>3. QED  BY <2>1, <2>2
<1>6. \A d \in Calls : Waiting(d)' => on'[d] \in 1..client'
    BY <1>5 DEF Waiting, Holding
<1>7. restarting' \in BOOLEAN
    OBVIOUS
<1>8. \A d \in Calls : pc'[d] # "idle" => /\ feature'[d] \in DOMAIN Feature
                                          /\ file'[d] \in Files
                                          /\ asked'[d] \in 0..MaxEdits
    BY <1>1
<1>9. TypeOK'
    BY <1>3, <1>4, <1>6
<1>10. CallInv'
    BY <1>1, <1>5, <1>7, <1>8
<1>11. QED  BY <1>9, <1>10

\* A call that got its response has ended, or goes on to restart the server.
LEMMA ReplyEnds ==
    ASSUME TypeInv, NEW c \in Calls, Reply(c) \/ ReplyRestart(c)
    PROVE  /\ pc[c] # "idle" /\ ~Restarting(c) /\ ~Manually(c) /\ Holding(c)
           /\ Reply(c) => \E x \in Over : Ends(c, x)
           /\ ReplyRestart(c) => \/ \E x \in Over : Ends(c, x)
                                 \/ /\ Ends(c, "stopping")
                                    /\ overlapped' = (overlapped \/ OtherRestart(c))
<1>1. pc[c] # "idle" /\ ~Restarting(c) /\ ~Manually(c) /\ Holding(c)
    BY DEF Reply, ReplyRestart, Waiting, Restarting, Manually, Holding
<1>2. feature[c] \in DOMAIN Feature
    BY <1>1 DEF TypeInv, CallInv
<1>3. ASSUME Reply(c) PROVE \E x \in Over : Ends(c, x)
    BY <1>2, <1>3, Outcomes DEF Reply
<1>4. ASSUME ReplyRestart(c)
      PROVE  \/ \E x \in Over : Ends(c, x)
             \/ Ends(c, "stopping") /\ overlapped' = (overlapped \/ OtherRestart(c))
  <2>1. PICK r \in Responses(c) :
            /\ Ends(c, IF Outcome(c, r) = "manual" THEN "stopping" ELSE Outcome(c, r))
            /\ overlapped' = (overlapped \/ (Outcome(c, r) = "manual" /\ OtherRestart(c)))
            /\ Outcome(c, r) # "definition"
      BY <1>2, <1>4, Outcomes DEF ReplyRestart
  <2>2. Outcome(c, r) \in Over \cup {"manual"}
      BY <1>2, <2>1, Outcomes
  <2>3. CASE Outcome(c, r) = "manual"
      BY <2>1, <2>3
  <2>4. CASE Outcome(c, r) # "manual"
      BY <2>1, <2>2, <2>4
  <2>5. QED  BY <2>3, <2>4
<1>5. QED  BY <1>1, <1>3, <1>4

LEMMA CallType ==
    ASSUME TypeInv, NEW c \in Calls,
           Step(c) \/ \E m \in Asked, f \in Files : Begin(c, m, f)
    PROVE  TypeInv'
<1> USE DEF TypeInv, TypeOK, CallInv, tables, servers, bounds, callVars
<1>1. /\ pc[c] # "idle" => /\ feature[c] \in DOMAIN Feature /\ file[c] \in Files
                           /\ asked[c] \in 0..MaxEdits /\ disk[file[c]] \in 0..MaxEdits
      /\ restarting => \E d \in Calls : Restarting(d)
      /\ Restarting(c) => restarting
      /\ Holding(c) => on[c] \in 1..client
    OBVIOUS
<1>2. /\ MaxClients \in Nat /\ client \in 1..client
      /\ client < MaxClients => /\ client + 1 \in 1..MaxClients
                                /\ client + 1 \in 1..(client + 1)
                                /\ 1..client \subseteq 1..(client + 1)
                                /\ client <= client + 1
      /\ client <= client
      /\ 1..client \subseteq 1..MaxClients
    BY ConstantsAssumption
<1>3. /\ InRestart \subseteq States \ {"idle"}
      /\ Over \subseteq States \ ({"idle"} \cup InRestart)
      /\ {"opening", "asking", "sent", "resent", "stopping", "starting"}
            \subseteq States \ ({"idle"} \cup InRestart)
      /\ Over \cap {"sent", "resent", "stopping", "restarting", "rerestarting"} = {}
    BY DEF InRestart, States, Over
<1>4. TablesOK
    BY DEF TablesOK
<1>5. ASSUME NEW m \in Asked, NEW f \in Files, Begin(c, m, f) PROVE TypeInv'
  <2>1. m \in DOMAIN Feature /\ pc[c] = "idle" /\ ~Restarting(c) /\ disk[f] \in 0..MaxEdits
      BY <1>5, AskedAssumption DEF Begin, Restarting
  <2>2. PICK x \in {"unsupported", "asking", "opening"} : Ends(c, x)
      BY <1>5 DEF Begin
  <2>3. TablesOK'
      BY <1>4, <1>5 DEF Begin, TablesOK
  <2>4. x \in States \ ({"idle"} \cup InRestart)
      BY DEF InRestart, States, Over
  <2>5. /\ file' = [file EXCEPT ![c] = f] /\ file'[c] \in Files
        /\ asked' = [asked EXCEPT ![c] = disk[f]] /\ asked'[c] \in 0..MaxEdits
        /\ feature' = [feature EXCEPT ![c] = m] /\ feature'[c] \in DOMAIN Feature
        /\ UNCHANGED <<on, client, restarting>>
      BY <1>5, <2>1 DEF Begin
  <2>6. /\ file' \in [Calls -> Files \cup {None}]
        /\ asked' \in [Calls -> 0..MaxEdits \cup {None}]
        /\ feature' \in [Calls -> DOMAIN Feature \cup {None}]
      BY <2>1, <2>5
  <2>7. \A d \in Calls \ {c} : /\ on'[d] = on[d] /\ feature'[d] = feature[d]
                               /\ file'[d] = file[d] /\ asked'[d] = asked[d]
      BY <2>5
  <2>8. QED  BY <1>2, <2>1, <2>2, <2>3, <2>4, <2>5, <2>6, <2>7, StepType
<1>6. CASE Open(c)
  <2>1. ~Restarting(c) /\ pc[c] # "idle" /\ Ends(c, "asking")
      BY <1>6 DEF Open, Restarting
  <2>2. hash' \in [Files -> 0..MaxEdits \cup {None}]
      BY <1>1, <1>6, <2>1 DEF Open
  <2>3. has' \in [1..MaxClients -> [Files -> 0..MaxEdits \cup {None}]]
    <3>1. has[client] \in [Files -> 0..MaxEdits \cup {None}]
        OBVIOUS
    <3>2. [has[client] EXCEPT ![file[c]] = disk[file[c]]] \in [Files -> 0..MaxEdits \cup {None}]
        BY <1>1, <2>1, <3>1
    <3>3. has' = has \/ has' = [has EXCEPT ![client] =
                                   [has[client] EXCEPT ![file[c]] = disk[file[c]]]]
        BY <1>6 DEF Open
    <3>4. QED  BY <3>2, <3>3
  <2>4. TablesOK'
      BY <1>4, <1>6, <2>2, <2>3 DEF Open, TablesOK
  <2>5. QED  BY <1>1, <1>2, <1>3, <1>6, <2>1, <2>4, StepType DEF Open
<1>7. CASE OpenFails(c)
  <2>1. ~Restarting(c) /\ pc[c] # "idle" /\ Ends(c, "failed")
      BY <1>7 DEF OpenFails, Restarting
  <2>2. hash' \in [Files -> 0..MaxEdits \cup {None}]
      BY <1>1, <1>7, <2>1 DEF OpenFails
  <2>3. TablesOK'
      BY <1>4, <1>7, <2>2 DEF OpenFails, TablesOK
  <2>4. QED  BY <1>1, <1>2, <1>3, <1>7, <2>1, <2>3, StepType DEF OpenFails, Over
<1>8. CASE Send(c) \/ SendFails(c) \/ Heal(c) \/ TimeOut(c) \/ Lost(c)
  <2>1. ~Restarting(c) /\ pc[c] # "idle"
      BY <1>8 DEF Send, SendFails, Heal, TimeOut, Lost, Waiting, Restarting
  <2>2. /\ overlapped' \in BOOLEAN
        /\ UNCHANGED <<disk, servers, tables, feature, file, got, asked, bounds>>
        /\ UNCHANGED on \/ on' = [on EXCEPT ![c] = client]
      BY <1>8 DEF Send, SendFails, Heal, TimeOut, Lost
  <2>3. TablesOK'
      BY <1>4, <2>2 DEF TablesOK
  <2>4. on' \in [Calls -> 1..MaxClients \cup {None}] /\ \A d \in Calls \ {c} : on'[d] = on[d]
    <3>1. client \in 1..MaxClients /\ on \in [Calls -> 1..MaxClients \cup {None}]
        OBVIOUS
    <3>2. CASE on' = on
        BY <3>1, <3>2
    <3>3. CASE on' = [on EXCEPT ![c] = client]
        BY <3>1, <3>3
    <3>4. QED  BY <2>2, <3>2, <3>3
  <2>5. PICK x \in {"sent", "failed", "restarting", "rerestarting"} :
            /\ Ends(c, x)
            /\ x # "failed" => on'[c] = client
            /\ IF x \in InRestart THEN restarting' = TRUE /\ ~restarting
                                  ELSE restarting' = restarting
      BY <1>8 DEF Send, SendFails, Heal, TimeOut, Lost, InRestart
  <2>6. x \in States \ {"idle"}
      BY DEF States, Over
  <2>7. QED  BY <1>1, <1>2, <2>1, <2>2, <2>3, <2>4, <2>5, <2>6, StepType
<1>9. CASE Reply(c)
  <2>1. ~Restarting(c) /\ pc[c] # "idle" /\ Holding(c)
      BY <1>9, ReplyEnds
  <2>2. PICK x \in Over : Ends(c, x)
      BY <1>9, ReplyEnds
  <2>3. AnsweredFrom(c) \in 0..MaxEdits
    <3>1. on[c] \in 1..MaxClients /\ has[on[c]] \in [Files -> 0..MaxEdits \cup {None}]
        BY <1>1, <1>2, <2>1
    <3>2. QED  BY <1>1, <2>1, <3>1 DEF AnsweredFrom
  <2>4. got' \in [Calls -> 0..MaxEdits \cup {None}]
      BY <1>9, <2>3 DEF Reply
  <2>5. TablesOK'
      BY <1>4, <1>9, <2>4 DEF Reply, TablesOK
  <2>6. QED  BY <1>1, <1>2, <1>3, <1>9, <2>1, <2>2, <2>5, StepType DEF Reply
<1>10. CASE FallBack(c)
  <2>1. ~Restarting(c) /\ pc[c] # "idle" /\ Ends(c, "opening")
      BY <1>10 DEF FallBack, Waiting, Restarting
  <2>2. TablesOK'
      BY <1>4, <1>10 DEF FallBack, TablesOK
  <2>3. QED  BY <1>1, <1>2, <1>3, <1>10, <2>1, <2>2, StepType, SomeFeatures DEF FallBack
<1>11. CASE ReplyRestart(c)
  <2>1. ~Restarting(c) /\ pc[c] # "idle"
      BY <1>11, ReplyEnds
  <2>2. PICK x \in Over \cup {"stopping"} : Ends(c, x)
      BY <1>11, ReplyEnds
  <2>3. /\ UNCHANGED <<disk, servers, restarting, capable, feature, file, got, asked, bounds>>
        /\ on' = [on EXCEPT ![c] = client]
        /\ hash' = [f \in Files |-> None]
        /\ overlapped' \in BOOLEAN
      BY <1>11 DEF ReplyRestart, Cleared
  <2>4. TablesOK'
      BY <1>4, <2>3 DEF TablesOK
  <2>5. x \in States \ ({"idle"} \cup InRestart)
      BY <1>3
  <2>6. QED  BY <1>1, <1>2, <2>1, <2>2, <2>3, <2>4, <2>5, StepType
<1>12. CASE Renew(c)
  <2>1. Restarting(c) /\ pc[c] # "idle"
      BY <1>12 DEF Renew, Restarting
  <2>2. client' = client + 1 /\ client < MaxClients /\ client <= client'
      BY <1>2, <1>12 DEF Renew, NewClient
  <2>3. alive' \subseteq 1..client' /\ ready' \subseteq 1..client'
      BY <1>2, <1>12, <2>2 DEF Renew
  <2>4. TablesOK'
      BY <1>2, <1>4, <1>12, <2>2, <2>3 DEF Renew, Cleared, TablesOK
  <2>5. PICK x \in {"initializing", "reinitializing"} : Ends(c, x)
      BY <1>12 DEF Renew
  <2>6. x \in InRestart /\ x \in States \ {"idle"}
      BY <1>3 DEF InRestart
  <2>7. QED  BY <1>1, <1>12, <2>1, <2>2, <2>4, <2>5, <2>6, StepType DEF Renew
<1>13. CASE Initialized(c)
  <2>1. Restarting(c) /\ pc[c] # "idle"
      BY <1>13 DEF Initialized, Restarting
  <2>2. TablesOK'
      BY <1>2, <1>4, <1>13 DEF Initialized, TablesOK
  <2>3. PICK x \in {"asking", "resent"} : Ends(c, x) /\ (x = "resent" => on'[c] = client)
      BY <1>13 DEF Initialized
  <2>4. x \in States \ ({"idle"} \cup InRestart)
      BY <1>3
  <2>5. /\ on' \in [Calls -> 1..MaxClients \cup {None}]
        /\ \A d \in Calls \ {c} : on'[d] = on[d]
      BY <1>13 DEF Initialized
  <2>6. UNCHANGED <<client, feature, file, asked>> /\ restarting' = FALSE
      BY <1>13 DEF Initialized
  <2>7. QED  BY <1>1, <1>2, <2>1, <2>2, <2>3, <2>4, <2>5, <2>6, StepType
<1>14. CASE RestartFails(c)
  <2>1. Restarting(c) /\ pc[c] # "idle" /\ Ends(c, "failed")
      BY <1>14 DEF RestartFails, Restarting
  <2>2. /\ client' \in 1..MaxClients /\ client <= client'
        /\ alive' \subseteq 1..client' /\ ready' \subseteq 1..client'
      BY <1>2, <1>14 DEF RestartFails, NewClient
  <2>3. hash' \in [Files -> 0..MaxEdits \cup {None}]
      BY <1>14 DEF RestartFails, Cleared
  <2>4. TablesOK'
      BY <1>4, <1>14, <2>2, <2>3 DEF RestartFails, TablesOK
  <2>5. QED  BY <1>1, <1>3, <1>14, <2>1, <2>2, <2>4, StepType DEF RestartFails, Over
<1>15. CASE ManualStart(c) \/ ManualStarted(c) \/ ManualFails(c)
  <2>1. ~Restarting(c) /\ pc[c] # "idle"
      BY <1>15 DEF ManualStart, ManualStarted, ManualFails, Restarting
  <2>2. /\ client' \in 1..MaxClients /\ client <= client'
        /\ alive' \subseteq 1..client' /\ ready' \subseteq 1..client'
      BY <1>2, <1>15 DEF ManualStart, ManualStarted, ManualFails, NewClient
  <2>3. PICK x \in {"starting", "answered", "failed"} : Ends(c, x)
      BY <1>15 DEF ManualStart, ManualStarted, ManualFails
  <2>4. UNCHANGED <<disk, has, hash, file, asked, feature, on, got, restarting, overlapped, edits>>
        /\ capable' \in {capable, None, Provided}
      BY <1>15 DEF ManualStart, ManualStarted, ManualFails
  <2>5. TablesOK'
      BY <1>4, <2>2, <2>4 DEF TablesOK
  <2>6. x \in States \ ({"idle"} \cup InRestart)
      BY <1>3 DEF Over
  <2>7. QED  BY <1>1, <2>1, <2>2, <2>3, <2>4, <2>5, <2>6, StepType
<1>16. QED
    BY <1>5, <1>6, <1>7, <1>8, <1>9, <1>10, <1>11, <1>12, <1>13, <1>14, <1>15 DEF Step

LEMMA TypeStep == TypeInv /\ [Next]_vars => TypeInv'
<1> SUFFICES ASSUME TypeInv, [Next]_vars PROVE TypeInv'
    OBVIOUS
<1> USE DEF TypeInv, TypeOK, CallInv, tables, servers, bounds, callVars
<1>1. CASE \E c \in Calls : Step(c) \/ \E m \in Asked, f \in Files : Begin(c, m, f)
    BY <1>1, CallType
<1>2. CASE Finished \/ UNCHANGED vars
  <2>1. UNCHANGED vars
      BY <1>2 DEF Finished
  <2>2. TypeOK'
      BY <2>1 DEF vars, Restarting, Waiting
  <2>3. CallInv'
      BY <2>1 DEF vars, Holding
  <2>4. QED  BY <2>2, <2>3
<1>3. ASSUME NEW k \in 1..MaxClients, Crash(k) PROVE TypeInv'
  <2>1. UNCHANGED <<disk, client, ready, has, restarting, tables, pc, callVars, overlapped, edits>>
      BY <1>3 DEF Crash
  <2>2. alive' \subseteq 1..client
      BY <1>3 DEF Crash
  <2>3. TypeOK'
      BY <2>1, <2>2 DEF Restarting, Waiting
  <2>4. CallInv'
      BY <2>1 DEF Holding
  <2>5. QED  BY <2>3, <2>4
<1>4. ASSUME NEW f \in Files, Edit(f) PROVE TypeInv'
  <2>1. edits + 1 \in 0..MaxEdits
      BY <1>4, ConstantsAssumption DEF Edit
  <2>2. disk' \in [Files -> 0..MaxEdits] /\ edits' \in 0..MaxEdits
      BY <1>4, <2>1 DEF Edit
  <2>3. QED  BY <1>4, <2>2 DEF Edit, Restarting, Waiting, Holding
<1>5. QED  BY <1>1, <1>2, <1>3, <1>4 DEF Next

-----------------------------------------------------------------------------
(* The servers.                                                             *)

LEMMA ServerStep == TypeInv /\ ServerInv /\ [Next]_vars => ServerInv'
<1> SUFFICES ASSUME TypeInv, ServerInv, [Next]_vars, ~overlapped' PROVE ServerInv'
    BY DEF ServerInv
<1> USE DEF TypeInv, TypeOK, CallInv, tables, servers, bounds, callVars
<1>1. ASSUME NEW c \in Calls, Step(c) PROVE ServerInv'
  <2>1. ~overlapped /\ \A d \in Calls \ {c} : pc'[d] = pc[d] /\ on'[d] = on[d]
      BY <1>1 DEF Step, Open, OpenFails, Send, SendFails, Heal, Reply, FallBack, ReplyRestart,
                  TimeOut, Lost, Renew, Initialized, RestartFails, ManualStart, ManualStarted,
                  ManualFails, Ends
  <2>2. /\ alive \subseteq {client}
        /\ \A d \in Calls : pc[d] \in {"restarting", "rerestarting", "stopping"} => on[d] = client
        /\ \A d, e \in Calls : Busy(d) /\ Busy(e) => d = e
      BY <2>1 DEF ServerInv
  <2>3. \A d \in Calls \ {c} : Busy(d)' <=> Busy(d)
      BY <2>1 DEF Busy, Restarting, Manually
\* A call that begins a restart is the only one, or the history says so.
  <2>4. ASSUME Busy(c)', ~Busy(c)
        PROVE  /\ \A d \in Calls \ {c} : ~Busy(d)
               /\ on'[c] = client
    <3>1. ~Reply(c)
        BY <2>4, ReplyEnds DEF Busy, Restarting, Manually, Over, Ends
    <3>2. Heal(c) \/ Lost(c) \/ ReplyRestart(c)
        BY <1>1, <2>4, <3>1 DEF Step, Open, OpenFails, Send, SendFails, FallBack, TimeOut,
             Renew, Initialized, RestartFails, ManualStart, ManualStarted, ManualFails,
             Busy, Restarting, Manually, Ends
    <3>3. OtherRestart(c) => overlapped'
      <4>1. CASE Heal(c)
          BY <4>1 DEF Heal
      <4>2. CASE Lost(c)
          BY <2>4, <4>2 DEF Lost, Busy, Restarting, Manually, Ends
      <4>3. CASE ReplyRestart(c)
          BY <2>4, <4>3, ReplyEnds DEF Busy, Restarting, Manually, Ends, Over
      <4>4. QED  BY <3>2, <4>1, <4>2, <4>3
    <3>4. on'[c] = client
        BY <2>4, <3>2 DEF Heal, Lost, ReplyRestart, Busy, Restarting, Manually, Ends
    <3>5. QED  BY <3>3, <3>4 DEF OtherRestart, Busy
  <2>5. \A d, e \in Calls : Busy(d)' /\ Busy(e)' => d = e
      BY <2>2, <2>3, <2>4
\* The one call that restarts knows the client, until it has replaced it.
  <2>6. CASE UNCHANGED client
    <3>1. alive' \subseteq {client'}
        BY <1>1, <2>2, <2>6 DEF Step, Open, OpenFails, Send, SendFails, Heal, Reply, FallBack,
           ReplyRestart, TimeOut, Lost, Renew, Initialized, RestartFails, ManualStart,
           ManualStarted, ManualFails, NewClient
    <3>2. ASSUME pc'[c] \in {"restarting", "rerestarting", "stopping"} PROVE on'[c] = client
      <4>1. CASE ~Busy(c)
        <5>1. Busy(c)'
            BY <3>2 DEF Busy, Restarting, Manually
        <5>2. QED  BY <2>4, <4>1, <5>1
      <4>2. CASE Busy(c)
        <5>1. FALSE
            BY <1>1, <2>6, <3>2, <4>2, ReplyEnds DEF Step, Open, OpenFails, Send, SendFails, Heal,
               FallBack, TimeOut, Lost, Renew, Initialized, RestartFails, ManualStart,
               ManualStarted, ManualFails, NewClient, Busy, Restarting, Manually, Waiting, Ends
        <5>2. QED  BY <5>1
      <4>3. QED  BY <4>1, <4>2
    <3>3. \A d \in Calls : pc'[d] \in {"restarting", "rerestarting", "stopping"} =>
                              on'[d] = client'
        BY <2>1, <2>2, <2>6, <3>2
    <3>4. QED  BY <2>5, <3>1, <3>3 DEF ServerInv
  <2>7. CASE client' # client
    <3>1. /\ pc[c] \in {"restarting", "rerestarting", "stopping"}
          /\ alive' \subseteq (alive \ {on[c]}) \cup {client'}
          /\ pc'[c] \in {"initializing", "reinitializing", "starting", "failed"}
        BY <1>1, <2>7 DEF Step, Open, OpenFails, Send, SendFails, Heal, Reply, FallBack,
           ReplyRestart, TimeOut, Lost, Renew, Initialized, RestartFails, ManualStart,
           ManualStarted, ManualFails, NewClient, Ends, Restarting
    <3>2. alive' \subseteq {client'}
        BY <2>2, <3>1
    <3>3. \A d \in Calls : pc'[d] \notin {"restarting", "rerestarting", "stopping"}
        BY <2>1, <2>2, <3>1 DEF Busy, Restarting, Manually
    <3>4. QED  BY <2>5, <3>2, <3>3 DEF ServerInv
  <2>8. QED  BY <2>6, <2>7
<1>2. ASSUME NEW c \in Calls, NEW m \in Asked, NEW f \in Files, Begin(c, m, f)
      PROVE  ServerInv'
    BY <1>2 DEF Begin, Ends, ServerInv, Busy, Restarting, Manually
<1>3. CASE (\E k \in 1..MaxClients : Crash(k)) \/ (\E f \in Files : Edit(f))
           \/ Finished \/ UNCHANGED vars
    BY <1>3 DEF Crash, Edit, Finished, vars, ServerInv, Busy, Restarting, Manually
<1>4. QED  BY <1>1, <1>2, <1>3 DEF Next

-----------------------------------------------------------------------------
(* The outcomes.                                                            *)

Results == {"answered", "[]", "null"}

LEMMA OutcomeStep == TypeInv /\ OutcomeInv /\ [Next]_vars => OutcomeInv'
<1> SUFFICES ASSUME TypeInv, OutcomeInv, [Next]_vars PROVE OutcomeInv'
    OBVIOUS
<1> USE DEF TypeInv, CallInv, tables, servers, bounds, callVars
<1>1. ASSUME NEW c \in Calls, Step(c) PROVE OutcomeInv'
  <2>1. \A d \in Calls \ {c} : pc'[d] = pc[d] /\ feature'[d] = feature[d]
      BY <1>1 DEF Step, Open, OpenFails, Send, SendFails, Heal, Reply, FallBack, ReplyRestart,
                  TimeOut, Lost, Renew, Initialized, RestartFails, ManualStart, ManualStarted,
                  ManualFails, Ends
  <2>2. ASSUME Manually(c)' PROVE feature'[c] = "restart_server"
    <3>1. ~Reply(c)
        BY <2>2, ReplyEnds DEF Manually, Over, Ends
    <3>2. UNCHANGED feature /\ (ReplyRestart(c) \/ Manually(c))
        BY <1>1, <2>2, <3>1 DEF Step, Open, OpenFails, Send, SendFails, Heal, FallBack,
           ReplyRestart, TimeOut, Lost, Renew, Initialized, RestartFails, ManualStart,
           ManualStarted, ManualFails, Ends, Manually
    <3>3. QED  BY <3>2 DEF ReplyRestart, OutcomeInv
  <2>3. ASSUME pc'[c] \in Results PROVE Of(c)'.needs \in Provided \cup {None}
    <3>1. Reply(c) \/ ReplyRestart(c) \/ ManualStarted(c)
        BY <1>1, <2>3 DEF Step, Open, OpenFails, Send, SendFails, Heal, FallBack, TimeOut, Lost,
           Renew, Initialized, RestartFails, ManualStart, ManualFails, Ends, Results
    <3>2. UNCHANGED feature /\ pc[c] # "idle" /\ feature[c] \in DOMAIN Feature
        BY <3>1, ReplyEnds DEF Reply, ReplyRestart, ManualStarted
    <3>3. CASE ReplyRestart(c) \/ ManualStarted(c)
      <4>1. feature[c] = "restart_server"
          BY <3>3 DEF ReplyRestart, ManualStarted, OutcomeInv, Manually
      <4>2. QED  BY <3>2, <4>1, SomeFeatures DEF Of
\* A method that the server does not know is reported, unless the feature asks
\* for no capability.
    <3>4. CASE Reply(c)
      <4>1. PICK r \in Responses(c) : pc'[c] = Outcome(c, r)
          BY <3>4 DEF Reply, Ends
      <4>2. Outcome(c, r) # "failed" /\ Outcome(c, r) # "unsupported"
          BY <2>3, <4>1 DEF Results
      <4>3. Of(c).needs # None => Of(c).unhandled = "unsupported"
          BY <3>2, FeatureTable DEF Of
      <4>4. Of(c).needs \in Provided \cup {None}
          BY <4>1, <4>2, <4>3 DEF Responses, Outcome
      <4>5. QED  BY <3>2, <4>4 DEF Of
    <3>5. QED  BY <3>1, <3>3, <3>4
  <2>4. \A d \in Calls \ {c} : /\ Manually(d)' => feature'[d] = "restart_server"
                               /\ pc'[d] \in Results => Of(d)'.needs \in Provided \cup {None}
      BY <2>1 DEF OutcomeInv, UnsupportedIsExplicit, Manually, Of, Results
  <2>5. QED  BY <2>2, <2>3, <2>4 DEF OutcomeInv, UnsupportedIsExplicit, Results
<1>2. ASSUME NEW c \in Calls, NEW m \in Asked, NEW f \in Files, Begin(c, m, f)
      PROVE  OutcomeInv'
    BY <1>2 DEF Begin, Ends, OutcomeInv, UnsupportedIsExplicit, Manually, Of
<1>3. CASE (\E k \in 1..MaxClients : Crash(k)) \/ (\E f \in Files : Edit(f))
           \/ Finished \/ UNCHANGED vars
    BY <1>3 DEF Crash, Edit, Finished, vars, OutcomeInv, UnsupportedIsExplicit, Manually, Of
<1>4. QED  BY <1>1, <1>2, <1>3 DEF Next

-----------------------------------------------------------------------------
(* The texts.                                                               *)

\* What a call that opens its file makes of the tables.
LEMMA OpenGives ==
    ASSUME TypeInv, NEW c \in Calls, Open(c)
    PROVE  /\ pc[c] = "opening" /\ file[c] \in Files
           /\ UNCHANGED <<disk, client, alive, callVars, edits>>
           /\ MustSend(c) => IsAlive
           /\ \A f \in Files : hash'[f] = IF MustSend(c) /\ f = file[c] THEN disk[f] ELSE hash[f]
           /\ \A k \in 1..MaxClients, f \in Files :
                  has'[k][f] = IF MustSend(c) /\ k = client /\ f = file[c] THEN disk[f] ELSE has[k][f]
<1> USE DEF TypeInv, TypeOK, CallInv, tables, servers, bounds, callVars
<1>1. /\ pc[c] = "opening" /\ file[c] \in Files
      /\ UNCHANGED <<disk, client, alive, callVars, edits>>
      /\ MustSend(c) => IsAlive
    BY DEF Open
<1>2. CASE ~MustSend(c)
    BY <1>1, <1>2 DEF Open
<1>3. CASE MustSend(c)
  <2>1. \A f \in Files : hash'[f] = IF f = file[c] THEN disk[f] ELSE hash[f]
      BY <1>1, <1>3 DEF Open
  <2>2. has' = [has EXCEPT ![client] = [has[client] EXCEPT ![file[c]] = disk[file[c]]]]
      BY <1>3 DEF Open
  <2>3. has[client] \in [Files -> 0..MaxEdits \cup {None}]
      OBVIOUS
  <2>4. \A f \in Files : has'[client][f] = IF f = file[c] THEN disk[f] ELSE has[client][f]
      BY <1>1, <2>2, <2>3
  <2>5. \A k \in 1..MaxClients : k # client => has'[k] = has[k]
      BY <2>2
  <2>6. QED  BY <1>1, <1>3, <2>1, <2>4, <2>5
<1>4. QED  BY <1>2, <1>3

\* How a step may change what the servers have: a text that one is given is the
\* file's, and a client is replaced by one that has nothing.
ServersMove ==
    /\ \A f \in Files : disk'[f] >= disk[f]
    /\ \/ client' = client /\ (IsAlive' => IsAlive)
       \/ client' = client + 1 /\ UNCHANGED has
    /\ \A k \in 1..MaxClients, f \in Files : has'[k][f] \in {has[k][f], disk[f]}

LEMMA ServersMoveAlways == TypeInv /\ FreshInv /\ [Next]_vars => ServersMove
<1> SUFFICES ASSUME TypeInv, FreshInv, [Next]_vars PROVE ServersMove
    OBVIOUS
<1> USE DEF TypeInv, TypeOK, CallInv, tables, servers, bounds, callVars
<1>1. \A f \in Files : disk'[f] >= disk[f]
  <2>1. CASE \E f \in Files : Edit(f)
    <3>1. edits \in Nat /\ \A f \in Files : disk[f] <= edits /\ disk[f] \in Nat
        BY DEF FreshInv, FreshFiles
    <3>2. QED  BY <2>1, <3>1 DEF Edit
  <2>2. CASE ~\E f \in Files : Edit(f)
    <3>1. UNCHANGED disk
        BY <2>2 DEF Next, vars, Finished, Crash, Begin, Step, Open, OpenFails, Send, SendFails, Heal,
           Reply, FallBack, ReplyRestart, TimeOut, Lost, Renew, Initialized, RestartFails,
           ManualStart, ManualStarted, ManualFails
    <3>2. QED  BY <3>1
  <2>3. QED  BY <2>1, <2>2
<1>2. \/ client' = client /\ (IsAlive' => IsAlive)
      \/ client' = client + 1 /\ UNCHANGED has
    BY DEF Next, vars, Finished, Crash, Edit, Begin, Step, Open, OpenFails, Send, SendFails, Heal,
       Reply, FallBack, ReplyRestart, TimeOut, Lost, Renew, Initialized, RestartFails, NewClient,
       ManualStart, ManualStarted, ManualFails, IsAlive
<1>3. \A k \in 1..MaxClients, f \in Files : has'[k][f] \in {has[k][f], disk[f]}
  <2>1. CASE \E c \in Calls : Open(c)
      BY <2>1, OpenGives
  <2>2. CASE ~\E c \in Calls : Open(c)
    <3>1. UNCHANGED has
        BY <2>2 DEF Next, vars, Finished, Crash, Edit, Begin, Step, OpenFails, Send, SendFails, Heal,
           Reply, FallBack, ReplyRestart, TimeOut, Lost, Renew, Initialized, RestartFails,
           ManualStart, ManualStarted, ManualFails
    <3>2. QED  BY <3>1
  <2>3. QED  BY <2>1, <2>2
<1>4. QED  BY <1>1, <1>2, <1>3 DEF ServersMove

LEMMA FilesStep == TypeInv /\ FreshInv /\ [Next]_vars => FreshFiles'
<1> SUFFICES ASSUME TypeInv, FreshInv, [Next]_vars PROVE FreshFiles'
    OBVIOUS
<1> USE DEF TypeInv, TypeOK, CallInv, tables, servers, bounds, callVars
<1>1. \A f \in Files : disk'[f] <= edits'
  <2>1. CASE \E f \in Files : Edit(f)
      BY <2>1 DEF Edit, FreshInv, FreshFiles
  <2>2. CASE ~\E f \in Files : Edit(f)
    <3>1. UNCHANGED <<disk, edits>>
        BY <2>2 DEF Next, vars, Finished, Crash, Begin, Step, Open, OpenFails, Send, SendFails, Heal,
           Reply, FallBack, ReplyRestart, TimeOut, Lost, Renew, Initialized, RestartFails,
           ManualStart, ManualStarted, ManualFails
    <3>2. QED  BY <3>1 DEF FreshInv, FreshFiles
  <2>3. QED  BY <2>1, <2>2
<1>2. \A k \in 1..MaxClients, f \in Files : k > client' => has'[k][f] = None
  <2>1. CASE \E c \in Calls : Open(c)
    <3>1. UNCHANGED client
        BY <2>1, OpenGives
    <3>2. \A k \in 1..MaxClients, f \in Files : k # client => has'[k][f] = has[k][f]
        BY <2>1, OpenGives
    <3>3. \A k \in 1..MaxClients : k > client => k # client
        BY ConstantsAssumption
    <3>4. QED  BY <3>1, <3>2, <3>3 DEF FreshInv, FreshFiles
  <2>2. CASE ~\E c \in Calls : Open(c)
    <3>1. UNCHANGED has /\ client' \in {client, client + 1}
        BY <2>2 DEF Next, vars, Finished, Crash, Edit, Begin, Step, OpenFails, Send, SendFails, Heal,
           Reply, FallBack, ReplyRestart, TimeOut, Lost, Renew, Initialized, RestartFails,
           ManualStart, ManualStarted, ManualFails, NewClient
    <3>2. QED  BY <3>1 DEF FreshInv, FreshFiles
  <2>3. QED  BY <2>1, <2>2
<1>3. ASSUME IsAlive' PROVE \A f \in Files : hash'[f] # None => has'[client'][f] \in {None, hash'[f]}
  <2>1. CASE client' = client + 1 /\ UNCHANGED has
    <3>1. client' \in 1..MaxClients
        BY TypeStep
    <3>2. QED  BY <2>1, <3>1 DEF FreshInv, FreshFiles
  <2>2. CASE client' = client /\ IsAlive
    <3>1. CASE \E c \in Calls : Open(c)
      <4>1. PICK c \in Calls : Open(c)
          BY <3>1
      <4>2. \A f \in Files : \/ has'[client][f] = has[client][f] /\ hash'[f] = hash[f]
                             \/ has'[client][f] = disk[f] /\ hash'[f] = disk[f]
          BY <4>1, OpenGives
      <4>3. QED  BY <2>2, <4>2 DEF FreshInv, FreshFiles
    <3>2. CASE ~\E c \in Calls : Open(c)
      <4>1. UNCHANGED has /\ (UNCHANGED hash \/ hash' = [f \in Files |-> None])
          BY <2>2, <3>2 DEF Next, vars, Finished, Crash, Edit, Begin, Step, OpenFails, Send,
             SendFails, Heal, Reply, FallBack, ReplyRestart, TimeOut, Lost, Renew, Initialized,
             RestartFails, ManualStart, ManualStarted, ManualFails, NewClient, Cleared
      <4>2. QED  BY <2>2, <4>1 DEF FreshInv, FreshFiles
    <3>3. QED  BY <3>1, <3>2
  <2>3. QED  BY <1>3, <2>1, <2>2, ServersMoveAlways DEF ServersMove
<1>4. QED  BY <1>1, <1>2, <1>3 DEF FreshFiles

\* What was fresh for a call stays so, at a client of any number and at the one
\* of the session.
LEMMA FreshKept ==
    ASSUME TypeInv, FreshInv, ServersMove, TypeInv', NEW c \in Calls, pc[c] # "idle",
           file'[c] = file[c], asked'[c] = asked[c]
    PROVE  /\ asked'[c] <= disk'[file'[c]]
           /\ \A k \in 1..MaxClients : Fresh(c, k) => Fresh(c, k)'
           /\ (IsAlive => Fresh(c, client)) => (IsAlive' => Fresh(c, client)')
<1> USE DEF TypeInv, TypeOK, CallInv
<1>1. /\ file[c] \in Files /\ asked[c] \in Nat /\ disk[file[c]] \in Nat /\ asked[c] <= disk[file[c]]
      /\ disk'[file[c]] \in Nat
    BY DEF FreshInv, FreshCall
<1>2. asked'[c] <= disk'[file'[c]]
    BY <1>1 DEF ServersMove
<1>3. \A k \in 1..MaxClients : Fresh(c, k) => Fresh(c, k)'
    BY <1>1 DEF Fresh, ServersMove
<1>4. ASSUME IsAlive => Fresh(c, client), IsAlive' PROVE Fresh(c, client)'
  <2>1. CASE client' = client /\ IsAlive
    <3>1. Fresh(c, client) /\ client \in 1..MaxClients
        BY <1>4, <2>1
    <3>2. QED  BY <1>1, <2>1, <3>1 DEF Fresh, ServersMove
  <2>2. CASE client' = client + 1 /\ UNCHANGED has
    <3>1. client' \in 1..MaxClients /\ client' > client
        BY <2>2, ConstantsAssumption
    <3>2. has[client'][file[c]] = None
        BY <1>1, <3>1 DEF FreshInv, FreshFiles
    <3>3. QED  BY <2>2, <3>2 DEF Fresh
  <2>3. QED  BY <1>4, <2>1, <2>2 DEF ServersMove
<1>5. QED  BY <1>2, <1>3, <1>4

\* A step of another call, or of the world around.
LEMMA FreshOther ==
    ASSUME TypeInv, FreshInv, ServersMove, TypeInv', NEW c \in Calls,
           pc'[c] = pc[c], file'[c] = file[c], asked'[c] = asked[c], got'[c] = got[c],
           feature'[c] = feature[c], on'[c] = on[c]
    PROVE  FreshCall(c)'
<1>1. FreshCall(c)
    BY DEF FreshInv
<1>2. CASE pc[c] = "idle"
    BY <1>1, <1>2 DEF FreshCall, Opened, Of
<1>3. CASE pc[c] # "idle"
  <2>1. Waiting(c) => on[c] \in 1..MaxClients
      BY ConstantsAssumption DEF TypeInv, TypeOK
  <2>2. Waiting(c) /\ Fresh(c, on[c]) => Fresh(c, on[c])'
    <3>1. ASSUME Waiting(c), Fresh(c, on[c]) PROVE Fresh(c, on[c])'
      <4>1. PICK k \in 1..MaxClients : k = on[c]
          BY <2>1, <3>1
      <4>2. Fresh(c, k)'
          BY <1>3, <3>1, <4>1, FreshKept DEF Fresh
      <4>3. QED  BY <4>1, <4>2 DEF Fresh
    <3>2. QED  BY <3>1
  <2>3. QED  BY <1>1, <1>3, <2>2, FreshKept DEF FreshCall, Opened, Of, Waiting
<1>4. QED  BY <1>2, <1>3

\* The step of the call itself.
LEMMA FreshOwn ==
    ASSUME TypeInv, FreshInv, ServersMove, TypeInv', NEW c \in Calls, Step(c)
    PROVE  FreshCall(c)'
<1> USE DEF TypeInv, TypeOK, CallInv, tables, servers, bounds, callVars
<1>1. pc[c] \notin {"idle"} \cup Over /\ FreshCall(c)
    BY DEF Step, Open, OpenFails, Send, SendFails, Heal, Reply, FallBack, ReplyRestart, TimeOut,
       Lost, Renew, Initialized, RestartFails, ManualStart, ManualStarted, ManualFails, Waiting,
       Restarting, Over, FreshInv
<1>2. got[c] = None /\ file[c] \in Files /\ feature[c] \in DOMAIN Feature
    BY <1>1 DEF FreshCall, Over
<1>3. UNCHANGED <<file, asked>> /\ asked'[c] <= disk'[file'[c]]
  <2>1. UNCHANGED <<file, asked>>
      BY DEF Step, Open, OpenFails, Send, SendFails, Heal, Reply, FallBack, ReplyRestart, TimeOut,
         Lost, Renew, Initialized, RestartFails, ManualStart, ManualStarted, ManualFails
  <2>2. QED  BY <1>1, <2>1, FreshKept
\* Most steps answer nothing, and do not open the file or begin to wait.
<1>4. ASSUME UNCHANGED <<feature, got>>, pc'[c] \notin {"sent", "resent"},
             Opened(c)' => Opened(c)
      PROVE  FreshCall(c)'
  <2>1. IsAlive' /\ Opened(c) /\ Of(c).opens = "refreshed" => Fresh(c, client)'
      BY <1>1, <1>3, FreshKept DEF FreshCall
  <2>2. QED  BY <1>2, <1>3, <1>4, <2>1 DEF FreshCall, Of, Waiting
<1>5. CASE Open(c)
  <2>1. UNCHANGED <<feature, got, client, alive, disk>> /\ pc'[c] = "asking"
      BY <1>5 DEF Open, Ends
  <2>2. ASSUME IsAlive', Of(c).opens = "refreshed" PROVE Fresh(c, client)'
    <3>1. has'[client][file[c]] \in {None, disk[file[c]]}
      <4>1. CASE MustSend(c)
          BY <1>2, <1>5, <4>1, OpenGives
      <4>2. CASE ~MustSend(c)
        <5>1. IsAlive /\ hash[file[c]] = disk[file[c]] /\ hash[file[c]] # None
            BY <2>1, <2>2, <4>2 DEF MustSend, IsAlive
        <5>2. has[client][file[c]] \in {None, disk[file[c]]}
            BY <1>2, <5>1 DEF FreshInv, FreshFiles
        <5>3. has'[client][file[c]] = has[client][file[c]]
            BY <1>5, <4>2 DEF Open
        <5>4. QED  BY <5>2, <5>3
      <4>3. QED  BY <4>1, <4>2
    <3>2. asked[c] <= disk[file[c]] /\ asked[c] \in Nat /\ disk[file[c]] \in Nat
        BY <1>1, <1>2 DEF FreshCall
    <3>3. QED  BY <1>3, <2>1, <3>1, <3>2 DEF Fresh
  <2>3. QED  BY <1>2, <1>3, <2>1, <2>2 DEF FreshCall, Of, Waiting
<1>6. CASE Send(c)
  <2>1. UNCHANGED <<feature, got, client, alive, has>> /\ on'[c] = client /\ Opened(c)
      BY <1>6 DEF Send, Opened, Over
  <2>2. IsAlive /\ pc'[c] = "sent"
      BY <1>6 DEF Send, Ends
  <2>3. Of(c).opens = "refreshed" => Fresh(c, client)
      BY <1>1, <2>1, <2>2 DEF FreshCall
  <2>4. QED  BY <1>2, <1>3, <2>1, <2>2, <2>3 DEF FreshCall, Of, Fresh
<1>7. CASE Initialized(c)
  <2>1. UNCHANGED <<feature, got, client, alive, has>> /\ Opened(c) /\ IsAlive
      BY <1>7 DEF Initialized, Opened, Over
  <2>2. pc'[c] = "asking" \/ (pc'[c] = "resent" /\ on'[c] = client)
      BY <1>7 DEF Initialized, Ends
  <2>3. Of(c).opens = "refreshed" => Fresh(c, client)
      BY <1>1, <2>1 DEF FreshCall
  <2>4. QED  BY <1>2, <1>3, <2>1, <2>2, <2>3 DEF FreshCall, Of, Fresh, Waiting
<1>8. CASE Reply(c)
  <2>1. UNCHANGED <<feature, disk, has, client, on>> /\ Opened(c) /\ Waiting(c)
      BY <1>8 DEF Reply, Opened, Over, Waiting
  <2>2. PICK x \in Over : pc'[c] = x
      BY <1>8, ReplyEnds DEF Ends
  <2>3. got'[c] # None => pc'[c] = "answered" /\ got'[c] = AnsweredFrom(c)
      BY <1>2, <1>8 DEF Reply, Ends
  <2>4. ASSUME Of(c).opens = "refreshed" PROVE AnsweredFrom(c) >= asked[c]
    <3>1. Fresh(c, on[c]) /\ asked[c] <= disk[file[c]] /\ asked[c] \in Nat /\ disk[file[c]] \in Nat
        BY <1>1, <1>2, <2>1, <2>4 DEF FreshCall
    <3>2. on[c] \in 1..MaxClients
        BY <2>1, ConstantsAssumption
    <3>3. has[on[c]][file[c]] # None => has[on[c]][file[c]] \in Nat
        BY <1>2, <3>2
    <3>4. QED  BY <3>1, <3>3 DEF Fresh, AnsweredFrom
  <2>5. QED  BY <1>3, <2>1, <2>2, <2>3, <2>4 DEF FreshCall, Of, Opened, Waiting, Over
\* get_declaration goes on with a feature that opens its file again.
<1>9. CASE FallBack(c)
  <2>1. pc'[c] = "opening" /\ UNCHANGED got
      BY <1>9 DEF FallBack, Ends
  <2>2. QED  BY <1>2, <1>3, <2>1 DEF FreshCall, Opened, Waiting
<1>10. CASE ReplyRestart(c)
  <2>1. UNCHANGED <<feature, got>> /\ Opened(c)
      BY <1>10 DEF ReplyRestart, Opened, Waiting, Over
  <2>2. pc'[c] \in Over \cup {"stopping"}
      BY <1>10, ReplyEnds DEF Ends
  <2>3. QED  BY <1>4, <2>1, <2>2 DEF Over
<1>11. CASE \/ OpenFails(c) \/ SendFails(c) \/ Heal(c) \/ TimeOut(c) \/ Lost(c)
            \/ Renew(c) \/ RestartFails(c) \/ ManualStart(c) \/ ManualStarted(c) \/ ManualFails(c)
  <2>1. UNCHANGED <<feature, got>>
      BY <1>11 DEF OpenFails, SendFails, Heal, TimeOut, Lost, Renew, RestartFails, ManualStart,
         ManualStarted, ManualFails
  <2>2. /\ pc'[c] \in {"failed", "answered", "restarting", "rerestarting", "initializing",
                       "reinitializing", "starting"}
        /\ pc'[c] = "failed" \/ pc[c] # "opening"
      BY <1>11 DEF OpenFails, SendFails, Heal, TimeOut, Lost, Renew, RestartFails, ManualStart,
         ManualStarted, ManualFails, Ends, Waiting
  <2>3. Opened(c)' => Opened(c)
      BY <1>1, <2>2 DEF Opened, Over
  <2>4. QED  BY <1>4, <2>1, <2>2, <2>3
<1>12. QED
    BY <1>5, <1>6, <1>7, <1>8, <1>9, <1>10, <1>11 DEF Step

LEMMA FreshStep == TypeInv /\ FreshInv /\ [Next]_vars => FreshInv'
<1> SUFFICES ASSUME TypeInv, FreshInv, [Next]_vars PROVE FreshInv'
    OBVIOUS
<1> USE DEF TypeInv, TypeOK, CallInv, tables, servers, bounds, callVars
<1>1. TypeInv' /\ ServersMove /\ FreshFiles'
    BY TypeStep, ServersMoveAlways, FilesStep
<1>2. ASSUME NEW c \in Calls, Step(c), NEW d \in Calls PROVE FreshCall(d)'
  <2>1. d # c => /\ pc'[d] = pc[d] /\ feature'[d] = feature[d] /\ on'[d] = on[d] /\ got'[d] = got[d]
                 /\ file'[d] = file[d] /\ asked'[d] = asked[d]
      BY <1>2 DEF Step, Open, OpenFails, Send, SendFails, Heal, Reply, FallBack, ReplyRestart,
         TimeOut, Lost, Renew, Initialized, RestartFails, ManualStart, ManualStarted,
         ManualFails, Ends
  <2>2. QED  BY <1>1, <1>2, <2>1, FreshOwn, FreshOther
<1>3. ASSUME NEW c \in Calls, NEW m \in Asked, NEW f \in Files, Begin(c, m, f), NEW d \in Calls
      PROVE  FreshCall(d)'
  <2>1. CASE d # c
      BY <1>1, <1>3, <2>1, FreshOther DEF Begin, Ends
  <2>2. CASE d = c
    <3>1. /\ pc[c] = "idle" /\ got'[c] = got[c] /\ file'[c] = f /\ asked'[c] = disk[f]
          /\ feature'[c] = m /\ disk'[f] = disk[f] /\ disk[f] \in Nat
          /\ pc'[c] \in {"unsupported", "opening"} \/ (pc'[c] = "asking" /\ Feature[m].opens = "none")
        BY <1>3 DEF Begin, Ends
    <3>2. got[c] = None
        BY <3>1 DEF FreshInv, FreshCall
    <3>3. QED  BY <2>2, <3>1, <3>2 DEF FreshCall, Opened, Over, Of, Waiting
  <2>3. QED  BY <2>1, <2>2
<1>4. CASE (\E k \in 1..MaxClients : Crash(k)) \/ (\E f \in Files : Edit(f))
           \/ Finished \/ UNCHANGED vars
    BY <1>1, <1>4, FreshOther DEF Crash, Edit, Finished, vars, FreshInv
<1>5. QED  BY <1>1, <1>2, <1>3, <1>4 DEF Next, FreshInv

-----------------------------------------------------------------------------
(* The theorems.                                                            *)

LEMMA InitIInv == Init => IInv
<1> SUFFICES ASSUME Init PROVE IInv
    OBVIOUS
<1>1. ServerInv
    BY DEF Init, ServerInv, Busy, Restarting, Manually
<1>2. FreshInv
    BY DEF Init, FreshInv, FreshFiles, FreshCall, Opened, Waiting
<1>3. OutcomeInv
    BY DEF Init, OutcomeInv, UnsupportedIsExplicit, Manually
<1>4. QED  BY <1>1, <1>2, <1>3, InitType DEF IInv

LEMMA StepIInv == IInv /\ [Next]_vars => IInv'
BY TypeStep, ServerStep, FreshStep, OutcomeStep DEF IInv

LEMMA Invariance == Spec => []IInv
BY InitIInv, StepIInv, PTL DEF Spec

\* Every variable keeps a value of its type, and _restarting is set exactly
\* while one call, and one only, restarts the server.
THEOREM TypeCorrect == Spec => []TypeOK
<1>1. IInv => TypeOK
    BY DEF IInv, TypeInv
<1>2. QED  BY Invariance, <1>1, PTL

\* A position is never resolved in a text older than the one its file had when
\* the call began, through edits, crashes, restarts and retries.
THEOREM FreshAnswersAlways == Spec => []FreshAnswers
<1>1. IInv => FreshAnswers
    BY DEF IInv, FreshInv, FreshCall, FreshAnswers
<1>2. QED  BY Invariance, <1>1, PTL

\* A feature that the server does not implement never ends with a result.
THEOREM UnsupportedIsExplicitAlways == Spec => []UnsupportedIsExplicit
<1>1. IInv => UnsupportedIsExplicit
    BY DEF IInv, OutcomeInv
<1>2. QED  BY Invariance, <1>1, PTL

\* The session has one server process at most, whoever restarts it, unless a
\* manual restart ran beside another restart.
THEOREM OneServerAlways == Spec => []OneServer
<1>1. IInv => OneServer
    BY DEF IInv, ServerInv, OneServer
<1>2. QED  BY Invariance, <1>1, PTL
=============================================================================
