------------------------- MODULE SubmissionProofs -------------------------
(***************************************************************************)
(* Proofs about Submission, for any number of requests, keys, faults and   *)
(* registry changes.                                                       *)
(***************************************************************************)
EXTENDS Submission, TLAPS

\* What a request has done, from where it is: nothing is written before its append,
\* nothing is started before its row is there, and a row bears its request's key.
RowsFollow ==
  \A r \in Requests :
    /\ claims[r].exists => claims[r].key = request[r].key
    /\ workflows[r] # NotFound => claims[r].exists
    /\ request[r].pc \in {"idle", "lookup", "append"} => ~claims[r].exists
    /\ request[r].pc = "start" => claims[r].exists /\ workflows[r] = NotFound
    /\ request[r].pc \in {"lookup", "append", "start"} => request[r].stages \in StageLists

\* What a reply rests on.
RepliesHold ==
  \A r \in Requests :
    /\ request[r].pc # "done" =>
         request[r].reply = 0 /\ request[r].claim = r /\ ~request[r].idempotent
    /\ Acked(r) => /\ claims[request[r].claim].exists
                   /\ claims[request[r].claim].key = request[r].key
    /\ Acked(r) /\ ~request[r].idempotent =>
         workflows[r] # NotFound /\ workflows[r] = request[r].stages

\* The UNIQUE index on idempotency_key.
KeysUnique ==
  \A r, s \in Requests :
    claims[r].exists /\ claims[s].exists /\ claims[r].key = claims[s].key /\ claims[r].key # NoKey
      => r = s

IInv == TypeOK /\ RowsFollow /\ RepliesHold /\ KeysUnique

LEMMA InitInvariant == Init => IInv
<1> SUFFICES ASSUME Init PROVE IInv
    OBVIOUS
<1> USE SubmissionAssumption
<1>1. PICK key \in [Requests -> Keys \cup {NoKey}], type \in [Requests -> Types] :
        request = [r \in Requests |->
                    [pc |-> "idle", key |-> key[r], type |-> type[r], stages |-> NotFound,
                     reply |-> 0, claim |-> r, idempotent |-> FALSE]]
    BY DEF Init
<1>2. TypeOK
  <2>1. request \in [Requests -> Handler]
      BY <1>1 DEF Handler
  <2> QED BY <2>1 DEF Init, TypeOK, Row
<1>3. RowsFollow /\ RepliesHold /\ KeysUnique
    BY <1>1 DEF Init, RowsFollow, RepliesHold, KeysUnique, Acked
<1> QED BY <1>2, <1>3 DEF IInv

PCs == {"idle", "lookup", "append", "start", "done"}
Codes == {0, 202, 422, 500}

\* One field of a handler changes, the others stay.
LEMMA SetPc ==
  ASSUME NEW h \in Handler, NEW pc \in PCs
  PROVE  LET g == [h EXCEPT !.pc = pc] IN
         /\ g \in Handler /\ g.pc = pc /\ g.key = h.key /\ g.stages = h.stages
         /\ g.reply = h.reply /\ g.claim = h.claim /\ (g.idempotent <=> h.idempotent)
BY DEF Handler, PCs

LEMMA SetReply ==
  ASSUME NEW h \in Handler, NEW code \in Codes
  PROVE  LET g == [h EXCEPT !.reply = code] IN
         /\ g \in Handler /\ g.reply = code /\ g.pc = h.pc /\ g.key = h.key
         /\ g.stages = h.stages /\ g.claim = h.claim /\ (g.idempotent <=> h.idempotent)
BY DEF Handler, Codes

LEMMA SetStages ==
  ASSUME NEW h \in Handler, NEW stages \in StageLists
  PROVE  LET g == [h EXCEPT !.stages = stages] IN
         /\ g \in Handler /\ g.stages = stages /\ g.pc = h.pc /\ g.key = h.key
         /\ g.reply = h.reply /\ g.claim = h.claim /\ (g.idempotent <=> h.idempotent)
BY DEF Handler

LEMMA SetClaim ==
  ASSUME NEW h \in Handler, NEW c \in Requests
  PROVE  LET g == [h EXCEPT !.claim = c] IN
         /\ g \in Handler /\ g.claim = c /\ g.pc = h.pc /\ g.key = h.key
         /\ g.reply = h.reply /\ g.stages = h.stages /\ (g.idempotent <=> h.idempotent)
BY DEF Handler

LEMMA SetIdempotent ==
  ASSUME NEW h \in Handler, NEW b \in BOOLEAN
  PROVE  LET g == [h EXCEPT !.idempotent = b] IN
         /\ g \in Handler /\ g.claim = h.claim /\ g.pc = h.pc /\ g.key = h.key
         /\ g.reply = h.reply /\ g.stages = h.stages /\ g.idempotent = b
BY DEF Handler

\* One handler changes, the others stay.
LEMMA HandlerChanges ==
  ASSUME TypeOK, NEW r \in Requests, NEW h \in Handler, request' = [request EXCEPT ![r] = h]
  PROVE  /\ request' \in [Requests -> Handler]
         /\ request'[r] = h
         /\ \A s \in Requests : s # r => request'[s] = request[s]
BY DEF TypeOK

LEMMA GoesChanges ==
  ASSUME TypeOK, NEW r \in Requests, NEW pc \in PCs, Goes(r, pc)
  PROVE  /\ request' \in [Requests -> Handler]
         /\ \A s \in Requests : s # r => request'[s] = request[s]
         /\ request'[r].pc = pc /\ request'[r].key = request[r].key
         /\ request'[r].stages = request[r].stages /\ request'[r].reply = request[r].reply
         /\ request'[r].claim = request[r].claim
         /\ (request'[r].idempotent <=> request[r].idempotent)
<1> DEFINE h == request[r]
           g == [h EXCEPT !.pc = pc]
<1>1. h \in Handler
    BY DEF TypeOK
<1>2. request' = [request EXCEPT ![r] = g]
    BY DEF Goes
<1> HIDE DEF h
<1>3. /\ g \in Handler /\ g.pc = pc /\ g.key = h.key /\ g.stages = h.stages
      /\ g.reply = h.reply /\ g.claim = h.claim /\ (g.idempotent <=> h.idempotent)
    BY <1>1, SetPc
<1> HIDE DEF g
<1>4. request' \in [Requests -> Handler] /\ request'[r] = g
      /\ \A s \in Requests : s # r => request'[s] = request[s]
    BY <1>2, <1>3, HandlerChanges
<1> QED BY <1>3, <1>4 DEF h

LEMMA RepliesChanges ==
  ASSUME TypeOK, NEW r \in Requests, NEW code \in Codes, Replies(r, code)
  PROVE  /\ request' \in [Requests -> Handler]
         /\ \A s \in Requests : s # r => request'[s] = request[s]
         /\ request'[r].pc = "done" /\ request'[r].key = request[r].key
         /\ request'[r].stages = request[r].stages /\ request'[r].reply = code
         /\ request'[r].claim = request[r].claim
         /\ (request'[r].idempotent <=> request[r].idempotent)
<1> DEFINE h == request[r]
           f == [h EXCEPT !.pc = "done"]
           g == [f EXCEPT !.reply = code]
<1>1. h \in Handler /\ "done" \in PCs
    BY DEF TypeOK, PCs
<1>2. request' = [request EXCEPT ![r] = g]
    BY DEF Replies
<1> HIDE DEF h
<1>3. /\ f \in Handler /\ f.pc = "done" /\ f.key = h.key /\ f.stages = h.stages
      /\ f.reply = h.reply /\ f.claim = h.claim /\ (f.idempotent <=> h.idempotent)
    BY <1>1, SetPc
<1> HIDE DEF f
<1>4. /\ g \in Handler /\ g.reply = code /\ g.pc = f.pc /\ g.key = f.key
      /\ g.stages = f.stages /\ g.claim = f.claim /\ (g.idempotent <=> f.idempotent)
    BY <1>3, SetReply
<1> HIDE DEF g
<1>5. request' \in [Requests -> Handler] /\ request'[r] = g
      /\ \A s \in Requests : s # r => request'[s] = request[s]
    BY <1>2, <1>4, HandlerChanges
<1> QED BY <1>3, <1>4, <1>5 DEF h

LEMMA ResolveChanges ==
  ASSUME TypeOK, NEW r \in Requests, Resolve(r)
  PROVE  /\ request' \in [Requests -> Handler]
         /\ \A s \in Requests : s # r => request'[s] = request[s]
         /\ request'[r].key = request[r].key /\ request'[r].claim = request[r].claim
         /\ (request'[r].idempotent <=> request[r].idempotent)
         /\ \/ /\ request'[r].pc \in {"lookup", "append"} /\ request'[r].stages \in StageLists
               /\ request'[r].reply = request[r].reply
            \/ request'[r].pc = "done" /\ request'[r].reply = 422
<1> DEFINE pc == IF request[r].key \in {NoKey, EmptyKey} THEN "append" ELSE "lookup"
           stages == registry[request[r].type]
           h == request[r]
           f == [h EXCEPT !.pc = pc]
           g == [f EXCEPT !.stages = stages]
<1>1. CASE Replies(r, 422)
    BY <1>1, RepliesChanges DEF Codes
<1>2. CASE stages # NotFound /\ request' = [request EXCEPT ![r] = g]
  <2>1. h \in Handler /\ pc \in PCs /\ pc \in {"lookup", "append"}
      BY DEF TypeOK, PCs
  <2>2. stages \in StageLists
    <3>1. request[r].type \in Types
        BY <2>1 DEF Handler
    <3> QED BY <1>2, <3>1 DEF TypeOK
  <2> HIDE DEF h, pc, stages
  <2>3. /\ f \in Handler /\ f.pc = pc /\ f.key = h.key /\ f.stages = h.stages
        /\ f.reply = h.reply /\ f.claim = h.claim /\ (f.idempotent <=> h.idempotent)
      BY <2>1, SetPc
  <2> HIDE DEF f
  <2>4. /\ g \in Handler /\ g.stages = stages /\ g.pc = f.pc /\ g.key = f.key
        /\ g.reply = f.reply /\ g.claim = f.claim /\ (g.idempotent <=> f.idempotent)
      BY <2>2, <2>3, SetStages
  <2> HIDE DEF g
  <2>5. request' \in [Requests -> Handler] /\ request'[r] = g
        /\ \A s \in Requests : s # r => request'[s] = request[s]
      BY <1>2, <2>4, HandlerChanges
  <2> QED BY <2>1, <2>2, <2>3, <2>4, <2>5 DEF h
<1> QED BY <1>1, <1>2 DEF Resolve

LEMMA LookupChanges ==
  ASSUME TypeOK, NEW r \in Requests, Lookup(r)
  PROVE  /\ request' \in [Requests -> Handler]
         /\ \A s \in Requests : s # r => request'[s] = request[s]
         /\ request'[r].key = request[r].key /\ request'[r].stages = request[r].stages
         /\ \/ /\ request'[r].pc = "append" /\ request'[r].reply = request[r].reply
               /\ request'[r].claim = request[r].claim
               /\ (request'[r].idempotent <=> request[r].idempotent)
            \/ /\ request'[r].pc = "done" /\ request'[r].reply = 202 /\ request'[r].idempotent
               /\ request'[r].claim \in Holder(request[r].key)
<1>1. CASE Goes(r, "append")
    BY <1>1, GoesChanges DEF PCs
<1>2. ASSUME NEW c \in Holder(request[r].key),
             request' = [request EXCEPT ![r] = [@ EXCEPT !.pc = "done", !.reply = 202,
                                                         !.claim = Answered(c), !.idempotent = TRUE]]
      PROVE  /\ request' \in [Requests -> Handler]
             /\ \A s \in Requests : s # r => request'[s] = request[s]
             /\ request'[r].key = request[r].key /\ request'[r].stages = request[r].stages
             /\ request'[r].pc = "done" /\ request'[r].reply = 202 /\ request'[r].idempotent
             /\ request'[r].claim \in Holder(request[r].key)
  <2> DEFINE h == request[r]
             e == [h EXCEPT !.pc = "done"]
             f == [e EXCEPT !.reply = 202]
             g == [f EXCEPT !.claim = c]
             i == [g EXCEPT !.idempotent = TRUE]
  <2>1. h \in Handler /\ c \in Requests /\ "done" \in PCs /\ 202 \in Codes
      BY DEF TypeOK, Holder, PCs, Codes
  <2>2. request' = [request EXCEPT ![r] = i]
      BY <1>2 DEF Answered
  <2> HIDE DEF h
  <2>3. e \in Handler /\ e.pc = "done" /\ e.key = h.key /\ e.stages = h.stages
      BY <2>1, SetPc
  <2> HIDE DEF e
  <2>4. f \in Handler /\ f.reply = 202 /\ f.pc = e.pc /\ f.key = e.key /\ f.stages = e.stages
      BY <2>1, <2>3, SetReply
  <2> HIDE DEF f
  <2>5. g \in Handler /\ g.claim = c /\ g.pc = f.pc /\ g.key = f.key /\ g.reply = f.reply
        /\ g.stages = f.stages
      BY <2>1, <2>4, SetClaim
  <2> HIDE DEF g
  <2>6. i \in Handler /\ i.claim = g.claim /\ i.pc = g.pc /\ i.key = g.key /\ i.reply = g.reply
        /\ i.stages = g.stages /\ i.idempotent
    <3>1. \A b \in BOOLEAN : [g EXCEPT !.idempotent = b] \in Handler
        BY <2>5, SetIdempotent
    <3>2. i.claim = g.claim /\ i.pc = g.pc /\ i.key = g.key /\ i.reply = g.reply
          /\ i.stages = g.stages /\ i.idempotent = TRUE
        BY <2>5, SetIdempotent
    <3> QED BY <3>1, <3>2
  <2> HIDE DEF i
  <2>7. request' \in [Requests -> Handler] /\ request'[r] = i
        /\ \A s \in Requests : s # r => request'[s] = request[s]
      BY <2>2, <2>6, HandlerChanges
  <2> QED BY <2>3, <2>4, <2>5, <2>6, <2>7 DEF h
<1> QED BY <1>1, <1>2 DEF Lookup

\* Every step keeps the types.
LEMMA StepTypes == TypeOK /\ [Next]_vars => TypeOK'
<1> SUFFICES ASSUME TypeOK, [Next]_vars PROVE TypeOK'
    OBVIOUS
<1> USE SubmissionAssumption
<1>0. \A r \in Requests : /\ request[r].key \in Keys \cup {NoKey}
                          /\ request[r].stages \in StageLists \cup {NotFound}
    BY DEF TypeOK, Handler
<1>1. ASSUME NEW r \in Requests, Resolve(r) PROVE TypeOK'
    BY <1>1, ResolveChanges DEF TypeOK, Resolve
<1>2. ASSUME NEW r \in Requests, Lookup(r) PROVE TypeOK'
    BY <1>2, LookupChanges DEF TypeOK, Lookup
<1>3. ASSUME NEW r \in Requests, AppendReceived(r) PROVE TypeOK'
  <2>1. request' \in [Requests -> Handler]
      BY <1>3, GoesChanges, RepliesChanges DEF AppendReceived, PCs, Codes
  <2>2. claims' \in [Requests -> Row]
    <3>1. [exists |-> TRUE, key |-> request[r].key] \in Row
        BY <1>0 DEF Row
    <3> QED BY <1>3, <3>1 DEF AppendReceived, TypeOK
  <2> QED BY <1>3, <2>1, <2>2 DEF TypeOK, AppendReceived
<1>4. ASSUME NEW r \in Requests, StartWorkflow(r) PROVE TypeOK'
  <2>1. request' \in [Requests -> Handler]
      BY <1>4, RepliesChanges DEF StartWorkflow, Codes
  <2> QED BY <1>0, <1>4, <2>1 DEF TypeOK, StartWorkflow, PinnedStages
<1>5. ASSUME NEW r \in Requests, Fault(r) PROVE TypeOK'
  <2>1. request' \in [Requests -> Handler]
    <3>1. PICK code \in {0, 500} : Replies(r, code)
        BY <1>5 DEF Fault
    <3> QED BY <3>1, RepliesChanges DEF Codes
  <2>2. claims' \in [Requests -> Row]
    <3>1. [exists |-> TRUE, key |-> request[r].key] \in Row
        BY <1>0 DEF Row
    <3>2. UNCHANGED claims
          \/ claims' = [claims EXCEPT ![r] = [exists |-> TRUE, key |-> request[r].key]]
        BY <1>5 DEF Fault
    <3> QED BY <3>1, <3>2 DEF TypeOK
  <2>3. workflows' \in [Requests -> StageLists \cup {NotFound}]
      BY <1>0, <1>5 DEF Fault, TypeOK, PinnedStages
  <2> QED BY <1>5, <2>1, <2>2, <2>3 DEF Fault, TypeOK
<1>6. ASSUME NEW c \in Requests, MarkUploaded(c) PROVE TypeOK'
    BY <1>6 DEF MarkUploaded, TypeOK
<1>7. ASSUME NEW t \in Types, RegistryChanges(t) PROVE TypeOK'
    BY <1>7 DEF RegistryChanges, TypeOK
<1>8. CASE UNCHANGED vars
    BY <1>8 DEF vars, TypeOK
<1> QED BY <1>1, <1>2, <1>3, <1>4, <1>5, <1>6, <1>7, <1>8 DEF Next

\* A request's own row appears under a key nobody holds.
LEMMA FreshRow ==
  ASSUME TypeOK, RowsFollow, KeysUnique, NEW r \in Requests, ~claims[r].exists, KeyFree(request[r].key),
         claims' = [claims EXCEPT ![r] = [exists |-> TRUE, key |-> request[r].key]]
  PROVE  KeysUnique'
<1>1. \A s \in Requests : s # r => claims'[s] = claims[s]
    BY DEF TypeOK
<1>2. claims'[r] = [exists |-> TRUE, key |-> request[r].key]
    BY DEF TypeOK
<1>3. \A s \in Requests : claims[s].exists /\ claims[s].key = request[r].key => request[r].key = NoKey
    BY DEF KeyFree, Holder
<1> QED BY <1>1, <1>2, <1>3 DEF KeysUnique

\* Every step keeps the rest.
LEMMA StepInvariant == IInv /\ [Next]_vars => IInv'
<1> SUFFICES ASSUME IInv, [Next]_vars PROVE IInv'
    OBVIOUS
<1>0. TypeOK' /\ TypeOK
    BY StepTypes DEF IInv
<1> DEFINE Rest == RowsFollow /\ RepliesHold /\ KeysUnique
<1> USE SubmissionAssumption
<1>1. ASSUME NEW r \in Requests, Resolve(r) PROVE Rest'
  <2>1. UNCHANGED <<claims, workflows>> /\ request[r].pc = "idle"
      BY <1>1 DEF Resolve
  <2>2. /\ \A s \in Requests : s # r => request'[s] = request[s]
        /\ request'[r].key = request[r].key /\ request'[r].claim = request[r].claim
        /\ (request'[r].idempotent <=> request[r].idempotent)
        /\ \/ /\ request'[r].pc \in {"lookup", "append"} /\ request'[r].stages \in StageLists
              /\ request'[r].reply = request[r].reply
           \/ request'[r].pc = "done" /\ request'[r].reply = 422
      BY <1>0, <1>1, ResolveChanges
  <2>5. RowsFollow'
      BY <2>1, <2>2 DEF IInv, RowsFollow
  <2>6. RepliesHold'
      BY <2>1, <2>2 DEF IInv, RepliesHold, Acked
  <2> QED BY <2>1, <2>5, <2>6 DEF IInv, KeysUnique
<1>2. ASSUME NEW r \in Requests, Lookup(r) PROVE Rest'
  <2>1. UNCHANGED <<claims, workflows>> /\ request[r].pc = "lookup"
      BY <1>2 DEF Lookup
  <2>2. /\ \A s \in Requests : s # r => request'[s] = request[s]
        /\ request'[r].key = request[r].key /\ request'[r].stages = request[r].stages
        /\ \/ /\ request'[r].pc = "append" /\ request'[r].reply = request[r].reply
              /\ request'[r].claim = request[r].claim
              /\ (request'[r].idempotent <=> request[r].idempotent)
           \/ /\ request'[r].pc = "done" /\ request'[r].reply = 202 /\ request'[r].idempotent
              /\ request'[r].claim \in Holder(request[r].key)
      BY <1>0, <1>2, LookupChanges
  <2>5. RowsFollow'
      BY <2>1, <2>2 DEF IInv, RowsFollow
  <2>6. RepliesHold'
      BY <2>1, <2>2 DEF IInv, RepliesHold, Acked, Holder
  <2> QED BY <2>1, <2>5, <2>6 DEF IInv, KeysUnique
<1>3. ASSUME NEW r \in Requests, AppendReceived(r) PROVE Rest'
  <2>1. request[r].pc = "append" /\ UNCHANGED workflows /\ ~claims[r].exists
      BY <1>3 DEF AppendReceived, IInv, RowsFollow
  <2>2. \A s \in Requests : s # r => claims'[s] = claims[s]
      BY <1>0, <1>3 DEF AppendReceived, TypeOK
  <2>3. /\ \A s \in Requests : s # r => request'[s] = request[s]
        /\ request'[r].key = request[r].key /\ request'[r].stages = request[r].stages
        /\ request'[r].claim = request[r].claim
        /\ (request'[r].idempotent <=> request[r].idempotent)
      BY <1>0, <1>3, GoesChanges, RepliesChanges DEF AppendReceived, PCs, Codes
  <2>4. CASE KeyFree(request[r].key)
    <3>1. /\ request'[r].pc = "start" /\ request'[r].reply = request[r].reply
          /\ claims' = [claims EXCEPT ![r] = [exists |-> TRUE, key |-> request[r].key]]
        BY <1>0, <1>3, <2>4, GoesChanges DEF AppendReceived, PCs
    <3>2. claims'[r].exists /\ claims'[r].key = request[r].key
        BY <1>0, <3>1 DEF TypeOK
    <3>3. RowsFollow'
        BY <2>1, <2>2, <2>3, <3>1, <3>2 DEF IInv, RowsFollow
    <3>4. RepliesHold'
      <4>1. \A s \in Requests : Acked(s) => s # r /\ request[s].claim # r
          BY <2>1 DEF IInv, RepliesHold, Acked
      <4>2. \A s \in Requests : request[s].claim \in Requests
          BY <1>0 DEF TypeOK, Handler
      <4> QED BY <2>1, <2>2, <2>3, <3>1, <4>1, <4>2 DEF IInv, RepliesHold, Acked
    <3>5. KeysUnique'
        BY <1>0, <2>1, <2>4, <3>1, FreshRow DEF IInv
    <3> QED BY <3>3, <3>4, <3>5
  <2>5. CASE ~KeyFree(request[r].key)
    <3>1. request'[r].pc = "done" /\ request'[r].reply = 500 /\ UNCHANGED claims
        BY <1>0, <1>3, <2>5, RepliesChanges DEF AppendReceived, Codes
    <3>2. RowsFollow'
        BY <2>1, <2>2, <2>3, <3>1 DEF IInv, RowsFollow
    <3>3. RepliesHold'
        BY <2>1, <2>2, <2>3, <3>1 DEF IInv, RepliesHold, Acked
    <3> QED BY <3>1, <3>2, <3>3 DEF IInv, KeysUnique
  <2> QED BY <2>4, <2>5
<1>4. ASSUME NEW r \in Requests, StartWorkflow(r) PROVE Rest'
  <2>1. UNCHANGED claims /\ request[r].pc = "start"
      BY <1>4 DEF StartWorkflow
  <2>2. /\ \A s \in Requests : s # r => workflows'[s] = workflows[s]
        /\ workflows'[r] = request[r].stages
      BY <1>0, <1>4 DEF StartWorkflow, PinnedStages, TypeOK
  <2>3. /\ \A s \in Requests : s # r => request'[s] = request[s]
        /\ request'[r].pc = "done" /\ request'[r].reply = 202
        /\ request'[r].key = request[r].key /\ request'[r].stages = request[r].stages
        /\ request'[r].claim = request[r].claim
        /\ (request'[r].idempotent <=> request[r].idempotent)
      BY <1>0, <1>4, RepliesChanges DEF StartWorkflow, Codes
  <2>4. request[r].claim = r /\ ~request[r].idempotent
      BY <2>1 DEF IInv, RepliesHold
  <2>5. claims[r].exists /\ claims[r].key = request[r].key /\ request[r].stages # NotFound
      BY <2>1 DEF IInv, RowsFollow
  <2>6. RowsFollow'
      BY <2>1, <2>2, <2>3, <2>5 DEF IInv, RowsFollow
  <2>7. RepliesHold'
      BY <2>1, <2>2, <2>3, <2>4, <2>5 DEF IInv, RepliesHold, Acked
  <2> QED BY <2>1, <2>6, <2>7 DEF IInv, KeysUnique
<1>5. ASSUME NEW r \in Requests, Fault(r) PROVE Rest'
  <2>1. request[r].pc \in {"lookup", "append", "start"}
      BY <1>5 DEF Fault
  <2>2. \A s \in Requests : s # r => claims'[s] = claims[s] /\ workflows'[s] = workflows[s]
      BY <1>0, <1>5 DEF Fault, TypeOK
  <2>3. /\ \A s \in Requests : s # r => request'[s] = request[s]
        /\ request'[r].pc = "done" /\ request'[r].reply \in {0, 500}
        /\ request'[r].key = request[r].key
    <3>1. PICK code \in {0, 500} : Replies(r, code)
        BY <1>5 DEF Fault
    <3> QED BY <1>0, <3>1, RepliesChanges DEF Codes
  <2>4. \A s \in Requests : Acked(s) => s # r /\ request[s].claim \in Requests
      BY <1>0, <2>1 DEF IInv, RepliesHold, Acked, TypeOK, Handler
  <2>5. CASE UNCHANGED <<claims, workflows>>
    <3>1. RowsFollow'
        BY <2>2, <2>3, <2>5 DEF IInv, RowsFollow
    <3>2. RepliesHold'
        BY <2>2, <2>3, <2>4, <2>5 DEF IInv, RepliesHold, Acked
    <3> QED BY <2>5, <3>1, <3>2 DEF IInv, KeysUnique
  <2>6. CASE /\ request[r].pc = "append" /\ KeyFree(request[r].key)
             /\ claims' = [claims EXCEPT ![r] = [exists |-> TRUE, key |-> request[r].key]]
             /\ UNCHANGED workflows
    <3>1. claims'[r].exists /\ claims'[r].key = request[r].key
        BY <1>0, <2>6 DEF TypeOK
    <3>2. ~claims[r].exists
        BY <2>6 DEF IInv, RowsFollow
    <3>3. RowsFollow'
        BY <2>2, <2>3, <2>6, <3>1 DEF IInv, RowsFollow
    <3>4. RepliesHold'
      <4>1. \A s \in Requests : Acked(s) => request[s].claim # r
          BY <3>2 DEF IInv, RepliesHold
      <4> QED BY <2>2, <2>3, <2>4, <2>6, <4>1 DEF IInv, RepliesHold, Acked
    <3> QED BY <1>0, <2>6, <3>2, <3>3, <3>4, FreshRow DEF IInv
  <2>7. CASE /\ request[r].pc = "start" /\ UNCHANGED claims
             /\ workflows' = [workflows EXCEPT ![r] = PinnedStages(r)]
    <3>1. claims[r].exists
        BY <2>7 DEF IInv, RowsFollow
    <3>2. RowsFollow'
        BY <2>2, <2>3, <2>7, <3>1 DEF IInv, RowsFollow
    <3>3. RepliesHold'
        BY <2>2, <2>3, <2>4, <2>7 DEF IInv, RepliesHold, Acked
    <3> QED BY <2>7, <3>2, <3>3 DEF IInv, KeysUnique
  <2> QED BY <1>5, <2>5, <2>6, <2>7 DEF Fault
<1>6. ASSUME NEW c \in Requests, MarkUploaded(c) PROVE Rest'
    BY <1>6 DEF MarkUploaded, IInv, RowsFollow, RepliesHold, KeysUnique, Acked
<1>7. ASSUME NEW t \in Types, RegistryChanges(t) PROVE Rest'
    BY <1>7 DEF RegistryChanges, IInv, RowsFollow, RepliesHold, KeysUnique, Acked
<1>8. ASSUME UNCHANGED vars PROVE Rest'
    BY <1>8 DEF vars, IInv, RowsFollow, RepliesHold, KeysUnique, Acked
<1>9. Rest'
  <2> HIDE DEF Rest
  <2> QED BY <1>1, <1>2, <1>3, <1>4, <1>5, <1>6, <1>7, <1>8 DEF Next
<1> QED BY <1>0, <1>9 DEF IInv

THEOREM Invariance == Spec => []IInv
BY InitInvariant, StepInvariant, PTL DEF Spec

\* Every reachable state is well typed.
THEOREM TypeCorrect == Spec => []TypeOK
<1>1. IInv => TypeOK
    BY DEF IInv
<1> QED BY <1>1, Invariance, PTL

\* Every 202 for one Idempotency-Key names one claim (api/app.py:169-189).
THEOREM OneClaim == Spec => []SameKeySameClaim
<1>1. IInv => SameKeySameClaim
  <2> SUFFICES ASSUME IInv, NEW r \in Requests, NEW s \in Requests, Acked(r), Acked(s),
                      request[r].key = request[s].key, request[r].key # NoKey
               PROVE  request[r].claim = request[s].claim
      BY DEF SameKeySameClaim
  <2>1. request[r].claim \in Requests /\ request[s].claim \in Requests
      BY DEF IInv, TypeOK, Handler
  <2> QED BY <2>1 DEF IInv, RepliesHold, KeysUnique
<1> QED BY <1>1, Invariance, PTL

\* A fresh 202 shows the stages its workflow runs, whatever the registry did meanwhile
\* (api/app.py:190-204).
THEOREM Pinned == Spec => []FreshAckShowsPinned
<1>1. IInv => FreshAckShowsPinned
    BY DEF IInv, RepliesHold, FreshAckShowsPinned
<1> QED BY <1>1, Invariance, PTL

\* A workflow only runs for a claim the store has (api/app.py:183-197).
THEOREM ClaimFirst == Spec => []WorkflowHasClaim
<1>1. IInv => WorkflowHasClaim
    BY DEF IInv, RowsFollow, WorkflowHasClaim
<1> QED BY <1>1, Invariance, PTL
=============================================================================
