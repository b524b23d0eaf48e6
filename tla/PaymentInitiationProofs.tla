---------------------- MODULE PaymentInitiationProofs ----------------------
(***************************************************************************)
(* Machine-checked proofs about PaymentInitiation, for any number of       *)
(* requests, keys and amounts: whatever requests race or fail, those that  *)
(* are answered agree, and a key's payment is decided in one step and for  *)
(* good.                                                                   *)
(***************************************************************************)
EXTENDS PaymentInitiation, FiniteSetTheorems, TLAPS

(* The index at work. *)
KeysUnique ==
  \A i, j \in DOMAIN rows : rows[i].key = rows[j].key => i = j

(* A request that names a payment names the one with its key. *)
Names(r) ==
  /\ requests[r].payment \in DOMAIN rows
  /\ rows[requests[r].payment].key = requests[r].key

(* A request that has inserted a row, and not failed since. *)
Creator(r) ==
  \/ requests[r].pc \in {"read", "enqueue", "reply"}
  \/ requests[r].pc = "answered" /\ requests[r].created

RequestInv(r) ==
  /\ requests[r].pc # "idle" => requests[r].key \in Keys
  /\ requests[r].pc = "insert" => requests[r].amount \in Amounts
  /\ requests[r].pc \in {"read", "enqueue", "reply", "answered"} => Names(r)
  /\ requests[r].pc \in {"enqueue", "reply", "answered"} =>
       requests[r].amount = rows[requests[r].payment].amount
  /\ requests[r].created => requests[r].pc = "answered"

CreatorsDiffer ==
  \A q, r \in Requests :
    Creator(q) /\ Creator(r) /\ requests[q].payment = requests[r].payment => q = r

InitiationInv ==
  /\ TypeOK /\ KeysUnique /\ CreatorsDiffer
  /\ \A r \in Requests : RequestInv(r)

(* A request moves without an insert: it stays what it was, or becomes     *)
(* what its new step asks for.                                             *)
LEMMA RequestMoves ==
  ASSUME InitiationInv, NEW r \in Requests, NEW request \in Request,
         requests' = [requests EXCEPT ![r] = request],
         UNCHANGED rows, lastId' \in Nat, lastId' >= lastId,
         jobs \subseteq jobs', jobs' \subseteq DOMAIN rows,
         RequestInv(r)',
         Creator(r)' => Creator(r) /\ request.payment = requests[r].payment
  PROVE  InitiationInv'
<1>1. /\ requests'[r] = request
      /\ \A q \in Requests \ {r} : requests'[q] = requests[q]
  BY DEF InitiationInv, TypeOK
<1>2. TypeOK'
  <2>1. 1..lastId \subseteq 1..lastId'
    BY DEF InitiationInv, TypeOK
  <2>2. QED
    BY <2>1 DEF InitiationInv, TypeOK
<1>3. KeysUnique'
  BY DEF InitiationInv, KeysUnique
<1>4. \A q \in Requests : RequestInv(q)'
  BY <1>1 DEF InitiationInv, RequestInv, Names
<1>5. CreatorsDiffer'
  BY <1>1 DEF InitiationInv, CreatorsDiffer, Creator
<1>6. QED
  BY <1>2, <1>3, <1>4, <1>5 DEF InitiationInv

(* The insert: a new id, under a key that no row has.                      *)
LEMMA InsertStep ==
  ASSUME InitiationInv, NEW r \in Requests, Insert(r)
  PROVE  InitiationInv'
<1>1. PICK id \in Nat : id = lastId + 1 /\ id \notin DOMAIN rows
  BY DEF InitiationInv, TypeOK
<1>2. PICK key \in Keys, amount \in Amounts :
        key = requests[r].key /\ amount = requests[r].amount
  BY DEF Insert, InitiationInv, RequestInv, TypeOK, Request
<1>3. /\ DOMAIN rows' = DOMAIN rows \cup {id}
      /\ rows'[id] = [key |-> key, amount |-> amount]
      /\ \A i \in DOMAIN rows : rows'[i] = rows[i]
  BY <1>1, <1>2 DEF Insert
<1>4. /\ requests'[r] = [requests[r] EXCEPT !.pc = "read", !.payment = id]
      /\ \A q \in Requests \ {r} : requests'[q] = requests[q]
  BY <1>1 DEF Insert, InitiationInv, TypeOK
<1>5. /\ requests'[r].pc = "read" /\ requests'[r].payment = id
      /\ requests'[r].key = key /\ ~requests'[r].created
      /\ requests'[r] \in Request
  <2>1. requests[r] \in Request /\ ~requests[r].created
    BY DEF Insert, InitiationInv, TypeOK, RequestInv
  <2>2. QED
    BY <1>1, <1>2, <1>4, <2>1 DEF Request
<1>6. TypeOK'
  <2>1. lastId' = id /\ UNCHANGED jobs
    BY <1>1 DEF Insert
  <2>2. DOMAIN rows' \subseteq 1..id
    BY <1>1, <1>3 DEF InitiationInv, TypeOK
  <2>3. requests' \in [Requests -> Request]
    BY <1>4, <1>5 DEF Insert, InitiationInv, TypeOK
  <2>4. QED
    BY <1>2, <1>3, <2>1, <2>2, <2>3 DEF InitiationInv, TypeOK, Row
<1>7. KeysUnique'
  <2>1. \A i \in DOMAIN rows : rows[i].key # key
    BY <1>2 DEF Insert, KeyTaken
  <2>2. QED
    BY <1>3, <2>1 DEF InitiationInv, KeysUnique
<1>8. \A q \in Requests \ {r} : RequestInv(q)'
  <2>1. SUFFICES ASSUME NEW q \in Requests \ {r}
                 PROVE  RequestInv(q)'
    OBVIOUS
  <2>2. requests'[q] = requests[q] /\ UNCHANGED jobs /\ RequestInv(q)
    BY <1>4 DEF Insert, InitiationInv
  <2>3. Names(q) => Names(q)' /\ rows'[requests[q].payment] = rows[requests[q].payment]
    BY <1>3, <2>2 DEF Names
  <2>4. QED
    BY <2>2, <2>3 DEF RequestInv
<1>9. RequestInv(r)'
  BY <1>2, <1>3, <1>5 DEF RequestInv, Names
<1>10. CreatorsDiffer'
  <2>1. \A q \in Requests \ {r} : Creator(q)' => Creator(q) /\ requests'[q].payment # id
    BY <1>1, <1>4 DEF Creator, InitiationInv, RequestInv, Names
  <2>2. QED
    BY <1>4, <1>5, <2>1 DEF InitiationInv, CreatorsDiffer
<1>11. QED
  BY <1>6, <1>7, <1>8, <1>9, <1>10 DEF InitiationInv

(* The lookup names the one payment with the key.                          *)
LEMMA LookupStep ==
  ASSUME InitiationInv, NEW r \in Requests, Lookup(r)
  PROVE  InitiationInv'
<1>1. PICK id \in DOMAIN rows :
        /\ rows[id].key = requests[r].key
        /\ requests' = [requests EXCEPT ![r].pc = "answered", ![r].payment = id,
                                        ![r].amount = rows[id].amount]
  BY DEF Lookup
<1>2. PICK request : request = [requests[r] EXCEPT !.pc = "answered", !.payment = id,
                                                   !.amount = rows[id].amount]
  OBVIOUS
<1>3. requests' = [requests EXCEPT ![r] = request]
  BY <1>1, <1>2 DEF InitiationInv, TypeOK
<1>4. id \in Nat /\ rows[id].amount \in Amounts
  BY DEF InitiationInv, TypeOK, Row
<1>5. /\ request \in Request /\ request.pc = "answered" /\ request.payment = id
      /\ request.amount = rows[id].amount /\ request.key = requests[r].key
      /\ ~request.created
  BY <1>2, <1>4 DEF InitiationInv, TypeOK, Request, Lookup, RequestInv
<1>6. requests'[r] = request /\ UNCHANGED <<rows, lastId, jobs>>
  BY <1>3 DEF Lookup, InitiationInv, TypeOK
<1>7. RequestInv(r)' /\ ~Creator(r)'
  BY <1>1, <1>5, <1>6 DEF RequestInv, Names, Creator, InitiationInv, Lookup
<1>8. jobs \subseteq jobs' /\ jobs' \subseteq DOMAIN rows
  BY <1>6 DEF InitiationInv, TypeOK
<1>9. lastId' \in Nat /\ lastId' >= lastId /\ UNCHANGED rows
  BY <1>6 DEF InitiationInv, TypeOK
<1>10. QED
  BY <1>3, <1>5, <1>7, <1>8, <1>9, RequestMoves

(* The steps that move a request and write no row.                         *)
LEMMA SendStep ==
  ASSUME InitiationInv, NEW r \in Requests,
         NEW key \in Keys, NEW amount \in Amounts, Send(r, key, amount)
  PROVE  InitiationInv'
<1>1. PICK request \in Request :
        request = [NotSent EXCEPT !.pc = "insert", !.key = key, !.amount = amount]
  BY DEF NotSent, Request
<1>2. /\ request.pc = "insert" /\ request.key = key /\ request.amount = amount
      /\ request.payment = 0 /\ ~request.created
  BY <1>1 DEF NotSent
<1>3. requests' = [requests EXCEPT ![r] = request] /\ UNCHANGED <<rows, lastId, jobs>>
  BY <1>1 DEF Send
<1>4. requests'[r] = request
  BY <1>3 DEF InitiationInv, TypeOK
<1>5. RequestInv(r)' /\ ~Creator(r)'
  BY <1>2, <1>4 DEF RequestInv, Creator
<1>6. jobs \subseteq jobs' /\ jobs' \subseteq DOMAIN rows
  BY <1>3 DEF InitiationInv, TypeOK
<1>7. lastId' \in Nat /\ lastId' >= lastId /\ UNCHANGED rows
  BY <1>3 DEF InitiationInv, TypeOK
<1>8. QED
  BY <1>3, <1>5, <1>6, <1>7, RequestMoves

(* A refused insert uses up an id and nothing else.                        *)
LEMMA InsertRefusedStep ==
  ASSUME InitiationInv, NEW r \in Requests, InsertRefused(r)
  PROVE  InitiationInv'
<1>1. PICK request : request = [requests[r] EXCEPT !.pc = "lookup"]
  OBVIOUS
<1>2. requests' = [requests EXCEPT ![r] = request]
  BY <1>1 DEF InsertRefused, InitiationInv, TypeOK
<1>3. requests[r] \in Request /\ RequestInv(r) /\ requests[r].pc = "insert"
  BY DEF InsertRefused, InitiationInv, TypeOK
<1>4. /\ request \in Request /\ request.pc = "lookup"
      /\ request.key = requests[r].key /\ request.created = requests[r].created
  BY <1>1, <1>3 DEF Request
<1>5. requests'[r] = request
  BY <1>2 DEF InitiationInv, TypeOK
<1>6. RequestInv(r)' /\ ~Creator(r)'
  BY <1>3, <1>4, <1>5 DEF RequestInv, Creator
<1>7. jobs \subseteq jobs' /\ jobs' \subseteq DOMAIN rows
  BY DEF InsertRefused, InitiationInv, TypeOK
<1>8. lastId' \in Nat /\ lastId' >= lastId /\ UNCHANGED rows
  BY DEF InsertRefused, InitiationInv, TypeOK
<1>9. QED
  BY <1>2, <1>4, <1>6, <1>7, <1>8, RequestMoves

(* Reading back tells the amount of the row.                               *)
LEMMA ReadBackStep ==
  ASSUME InitiationInv, NEW r \in Requests, ReadBack(r)
  PROVE  InitiationInv'
<1>1. PICK id \in DOMAIN rows : id = requests[r].payment /\ id \in Nat
  BY DEF ReadBack, InitiationInv, RequestInv, Names, TypeOK
<1>2. PICK request : request = [requests[r] EXCEPT !.pc = "enqueue",
                                                   !.amount = rows[id].amount]
  OBVIOUS
<1>3. requests' = [requests EXCEPT ![r] = request]
  BY <1>1, <1>2 DEF ReadBack, InitiationInv, TypeOK
<1>4. requests[r] \in Request /\ RequestInv(r) /\ requests[r].pc = "read"
  BY DEF ReadBack, InitiationInv, TypeOK
<1>5. rows[id].amount \in Amounts
  BY DEF InitiationInv, TypeOK, Row
<1>6. /\ request \in Request /\ request.pc = "enqueue"
      /\ request.amount = rows[id].amount /\ request.payment = id
      /\ request.key = requests[r].key /\ request.created = requests[r].created
  BY <1>1, <1>2, <1>4, <1>5 DEF Request
<1>7. requests'[r] = request /\ UNCHANGED <<rows, lastId, jobs>>
  BY <1>3 DEF ReadBack, InitiationInv, TypeOK
<1>8. RequestInv(r)' /\ Creator(r)
  BY <1>1, <1>4, <1>6, <1>7 DEF RequestInv, Names, Creator
<1>9. jobs \subseteq jobs' /\ jobs' \subseteq DOMAIN rows
  BY <1>7 DEF InitiationInv, TypeOK
<1>10. lastId' \in Nat /\ lastId' >= lastId /\ UNCHANGED rows
  BY <1>7 DEF InitiationInv, TypeOK
<1>11. QED
  BY <1>1, <1>3, <1>6, <1>8, <1>9, <1>10, RequestMoves

(* The enqueue adds a job for a payment that exists.                       *)
LEMMA EnqueueStep ==
  ASSUME InitiationInv, NEW r \in Requests, Enqueue(r)
  PROVE  InitiationInv'
<1>1. PICK request : request = [requests[r] EXCEPT !.pc = "reply"]
  OBVIOUS
<1>2. requests' = [requests EXCEPT ![r] = request]
  BY <1>1 DEF Enqueue, InitiationInv, TypeOK
<1>3. requests[r] \in Request /\ RequestInv(r) /\ requests[r].pc = "enqueue"
  BY DEF Enqueue, InitiationInv, TypeOK
<1>4. /\ request \in Request /\ request.pc = "reply"
      /\ request.created = requests[r].created
      /\ request.amount = requests[r].amount
      /\ request.payment = requests[r].payment
      /\ request.key = requests[r].key
  BY <1>1, <1>3 DEF Request
<1>5. /\ requests'[r] = request /\ UNCHANGED <<rows, lastId>>
      /\ jobs' = jobs \cup {requests[r].payment}
  BY <1>2 DEF Enqueue, InitiationInv, TypeOK
<1>6. RequestInv(r)' /\ Creator(r)
  BY <1>3, <1>4, <1>5 DEF RequestInv, Names, Creator
<1>7. jobs \subseteq jobs' /\ jobs' \subseteq DOMAIN rows
  BY <1>3, <1>5 DEF RequestInv, Names, InitiationInv, TypeOK
<1>8. lastId' \in Nat /\ lastId' >= lastId /\ UNCHANGED rows
  BY <1>5 DEF InitiationInv, TypeOK
<1>9. QED
  BY <1>2, <1>4, <1>6, <1>7, <1>8, RequestMoves

(* The 201 names what was read back.                                       *)
LEMMA ReplyStep ==
  ASSUME InitiationInv, NEW r \in Requests, ReplyCreated(r)
  PROVE  InitiationInv'
<1>1. PICK request : request = [requests[r] EXCEPT !.pc = "answered",
                                                   !.created = TRUE]
  OBVIOUS
<1>2. requests' = [requests EXCEPT ![r] = request]
  BY <1>1 DEF ReplyCreated, InitiationInv, TypeOK
<1>3. requests[r] \in Request /\ RequestInv(r) /\ requests[r].pc = "reply"
  BY DEF ReplyCreated, InitiationInv, TypeOK
<1>4. /\ request \in Request /\ request.pc = "answered" /\ request.created
      /\ request.amount = requests[r].amount
      /\ request.payment = requests[r].payment
      /\ request.key = requests[r].key
  BY <1>1, <1>3 DEF Request
<1>5. requests'[r] = request /\ UNCHANGED <<rows, lastId, jobs>>
  BY <1>2 DEF ReplyCreated, InitiationInv, TypeOK
<1>6. RequestInv(r)' /\ Creator(r)
  BY <1>3, <1>4, <1>5 DEF RequestInv, Names, Creator
<1>7. jobs \subseteq jobs' /\ jobs' \subseteq DOMAIN rows
  BY <1>5 DEF InitiationInv, TypeOK
<1>8. lastId' \in Nat /\ lastId' >= lastId /\ UNCHANGED rows
  BY <1>5 DEF InitiationInv, TypeOK
<1>9. QED
  BY <1>2, <1>4, <1>6, <1>7, <1>8, RequestMoves

(* A failure leaves what was written, and answers nothing.                 *)
LEMMA FailStep ==
  ASSUME InitiationInv, NEW r \in Requests, Fail(r)
  PROVE  InitiationInv'
<1>1. PICK request : request = [requests[r] EXCEPT !.pc = "failed"]
  OBVIOUS
<1>2. requests' = [requests EXCEPT ![r] = request] /\ UNCHANGED <<rows, lastId>>
  BY <1>1 DEF Fail, InitiationInv, TypeOK
<1>3. /\ requests[r] \in Request /\ RequestInv(r)
      /\ requests[r].pc # "idle" /\ requests[r].pc # "answered"
  BY DEF Fail, InitiationInv, TypeOK
<1>4. /\ request \in Request /\ request.pc = "failed"
      /\ request.key = requests[r].key /\ request.created = requests[r].created
  BY <1>1, <1>3 DEF Request
<1>5. requests'[r] = request
  BY <1>2 DEF InitiationInv, TypeOK
<1>6. RequestInv(r)' /\ ~Creator(r)'
  BY <1>3, <1>4, <1>5 DEF RequestInv, Creator
<1>7. jobs \subseteq jobs' /\ jobs' \subseteq DOMAIN rows
  <2>1. jobs' = jobs \/ (requests[r].pc = "enqueue" /\ jobs' = jobs \cup {requests[r].payment})
    BY DEF Fail
  <2>2. QED
    BY <1>3, <2>1 DEF RequestInv, Names, InitiationInv, TypeOK
<1>8. lastId' \in Nat /\ lastId' >= lastId /\ UNCHANGED rows
  BY <1>2 DEF InitiationInv, TypeOK
<1>9. QED
  BY <1>2, <1>4, <1>6, <1>7, <1>8, RequestMoves

(* The invariant is inductive.                                             *)
LEMMA InitiationStep == InitiationInv /\ [Next]_vars => InitiationInv'
<1>1. SUFFICES ASSUME InitiationInv, [Next]_vars
               PROVE  InitiationInv'
  OBVIOUS
<1>2. CASE UNCHANGED vars
  BY <1>1, <1>2 DEF vars, InitiationInv, TypeOK, KeysUnique, CreatorsDiffer,
                    Creator, RequestInv, Names
<1>3. ASSUME NEW r \in Requests, NEW key \in Keys, NEW amount \in Amounts,
             Send(r, key, amount)
      PROVE  InitiationInv'
  BY <1>1, <1>3, SendStep
<1>4. ASSUME NEW r \in Requests, Handle(r)
      PROVE  InitiationInv'
  BY <1>1, <1>4, InsertStep, InsertRefusedStep, ReadBackStep, EnqueueStep,
     ReplyStep, LookupStep DEF Handle
<1>5. ASSUME NEW r \in Requests, Fail(r)
      PROVE  InitiationInv'
  BY <1>1, <1>5, FailStep
<1>6. QED
  BY <1>1, <1>2, <1>3, <1>4, <1>5 DEF Next

(* It holds before anything is sent.                                       *)
LEMMA InitiationStart == Init => InitiationInv
<1>1. SUFFICES ASSUME Init PROVE InitiationInv
  OBVIOUS
<1>2. DOMAIN rows = {} /\ lastId = 0 /\ jobs = {}
  BY <1>1 DEF Init
<1>3. \A r \in Requests : requests[r] = NotSent
  BY <1>1 DEF Init
<1>4. NotSent \in Request
  BY DEF NotSent, Request
<1>5. requests \in [Requests -> Request]
  BY <1>1, <1>4 DEF Init
<1>6. TypeOK
  BY <1>2, <1>5 DEF TypeOK
<1>7. CreatorsDiffer /\ \A r \in Requests : RequestInv(r)
  BY <1>3 DEF CreatorsDiffer, Creator, RequestInv, NotSent
<1>8. QED
  BY <1>2, <1>6, <1>7 DEF InitiationInv, KeysUnique

(* Every reachable state satisfies the invariant.                          *)
LEMMA AlwaysInitiationInv == Spec => []InitiationInv
  BY InitiationStart, InitiationStep, PTL DEF Spec

(* Ids, keys and answers stay in their types, and only payments that exist *)
(* are enqueued.                                                           *)
THEOREM InitiationTypeCorrect == Spec => []TypeOK
<1>1. InitiationInv => TypeOK
  BY DEF InitiationInv
<1>2. QED
  BY <1>1, AlwaysInitiationInv, PTL

(* Requests with one key get one payment and one amount, and one 201 at    *)
(* most, however many race.                                                *)
THEOREM OneKeyOneAnswer == Spec => []AnswersAgree
<1>1. InitiationInv => AnswersAgree
  <2>1. SUFFICES ASSUME InitiationInv, NEW q \in Requests, NEW r \in Requests,
                        Answered(q), Answered(r), requests[q].key = requests[r].key
                 PROVE  /\ requests[q].payment = requests[r].payment
                        /\ requests[q].amount = requests[r].amount
                        /\ requests[q].created /\ requests[r].created => q = r
    BY DEF AnswersAgree
  <2>2. requests[q].payment = requests[r].payment
    BY <2>1 DEF InitiationInv, RequestInv, Names, KeysUnique, Answered
  <2>3. requests[q].amount = requests[r].amount
    BY <2>1, <2>2 DEF InitiationInv, RequestInv, Answered
  <2>4. requests[q].created /\ requests[r].created => q = r
    BY <2>1, <2>2 DEF InitiationInv, CreatorsDiffer, Creator, Answered
  <2>5. QED
    BY <2>2, <2>3, <2>4
<1>2. QED
  BY <1>1, AlwaysInitiationInv, PTL

----------------------------------------------------------------------------
(* The refinement.  A request uses up at most one id of the counter, when  *)
(* its insert is done or refused.                                          *)
Tried == {r \in Requests : requests[r].pc \notin {"idle", "insert"}}

IdsInv == lastId <= Cardinality(Tried)

(* The requests are finitely many, and so are those that tried.            *)
LEMMA TriedIsFinite ==
  /\ IsFiniteSet(Requests) /\ Cardinality(Requests) \in Nat
  /\ IsFiniteSet(Tried) /\ Cardinality(Tried) \in Nat
  /\ Cardinality(Tried) <= Cardinality(Requests)
<1>1. IsFiniteSet(Requests) /\ Tried \subseteq Requests
  BY PaymentInitiationAssumption DEF Tried
<1>2. QED
  BY <1>1, FS_Subset, FS_CardinalityType

(* An insert adds its request to those that tried.                         *)
LEMMA IdsStep ==
  InitiationInv /\ IdsInv /\ [Next]_vars => IdsInv'
<1>1. SUFFICES ASSUME InitiationInv, IdsInv, [Next]_vars
               PROVE  IdsInv'
  OBVIOUS
<1>2. /\ IsFiniteSet(Tried) /\ Cardinality(Tried) \in Nat
      /\ IsFiniteSet(Tried') /\ Cardinality(Tried') \in Nat
  <2>1. Tried' \subseteq Requests
    BY DEF Tried
  <2>2. QED
    BY <2>1, TriedIsFinite, FS_Subset, FS_CardinalityType
<1>3. lastId \in Nat /\ requests \in [Requests -> Request]
  BY <1>1 DEF InitiationInv, TypeOK
<1>4. ASSUME NEW r \in Requests, Insert(r) \/ InsertRefused(r)
      PROVE  IdsInv'
  <2>1. lastId' = lastId + 1 /\ r \notin Tried
    BY <1>4 DEF Insert, InsertRefused, Tried
  <2>2. /\ requests'[r].pc \in {"read", "lookup"}
        /\ \A q \in Requests \ {r} : requests'[q] = requests[q]
    BY <1>3, <1>4 DEF Insert, InsertRefused, Request
  <2>3. Tried' = Tried \cup {r}
    BY <2>2 DEF Tried
  <2>4. Cardinality(Tried') = Cardinality(Tried) + 1
    BY <1>2, <2>1, <2>3, FS_AddElement
  <2>5. QED
    BY <1>1, <1>2, <1>3, <2>1, <2>4 DEF IdsInv
<1>5. ASSUME UNCHANGED lastId, Tried \subseteq Tried'
      PROVE  IdsInv'
  <2>1. Cardinality(Tried) <= Cardinality(Tried')
    BY <1>2, <1>5, FS_Subset
  <2>2. QED
    BY <1>1, <1>2, <1>3, <1>5, <2>1 DEF IdsInv
<1>6. ASSUME NEW r \in Requests,
             \/ \E key \in Keys, amount \in Amounts : Send(r, key, amount)
             \/ ReadBack(r) \/ Enqueue(r) \/ ReplyCreated(r) \/ Lookup(r) \/ Fail(r)
      PROVE  UNCHANGED lastId /\ Tried \subseteq Tried'
  <2>1. UNCHANGED lastId /\ \A q \in Requests \ {r} : requests'[q] = requests[q]
    BY <1>3, <1>6 DEF Send, ReadBack, Enqueue, ReplyCreated, Lookup, Fail
  <2>2. requests[r].pc = "idle" \/ requests'[r].pc \notin {"idle", "insert"}
    <3>1. requests[r] \in Request
      BY <1>3
    <3>2. CASE \E key \in Keys, amount \in Amounts : Send(r, key, amount)
      BY <3>2 DEF Send
    <3>3. CASE ReadBack(r) \/ Enqueue(r) \/ ReplyCreated(r) \/ Fail(r)
      BY <1>3, <3>1, <3>3 DEF ReadBack, Enqueue, ReplyCreated, Fail, Request
    <3>4. CASE Lookup(r)
      BY <1>3, <3>1, <3>4 DEF Lookup, Request
    <3>5. QED
      BY <1>6, <3>2, <3>3, <3>4
  <2>3. QED
    BY <2>1, <2>2 DEF Tried
<1>7. CASE UNCHANGED vars
  BY <1>5, <1>7 DEF vars, Tried
<1>8. CASE Next
  BY <1>4, <1>5, <1>6, <1>8 DEF Next, Handle
<1>9. QED
  BY <1>1, <1>7, <1>8

(* The payments of a key, and those its answers name, as the refinement    *)
(* mapping has them.                                                       *)
PaymentOf(k) == {id \in DOMAIN rows : rows[id].key = k}
Answering(k) == {r \in Requests : Answered(r) /\ requests[r].key = k}
Told(k) == {requests[r].payment : r \in Answering(k)}

(* A successful insert is the creation of its key's payment.               *)
LEMMA InsertCreates ==
  ASSUME InitiationInv, IdsInv, IdsInv', NEW r \in Requests, Insert(r)
  PROVE  Idempotent!Next
<1>1. PICK id \in Nat : id = lastId + 1 /\ id \notin DOMAIN rows
  BY DEF InitiationInv, TypeOK
<1>2. PICK key \in Keys : key = requests[r].key
  BY DEF Insert, InitiationInv, RequestInv
<1>3. /\ DOMAIN rows' = DOMAIN rows \cup {id} /\ rows'[id].key = key
      /\ \A i \in DOMAIN rows : rows'[i] = rows[i]
  BY <1>1, <1>2 DEF Insert
<1>4. /\ requests'[r].pc = "read"
      /\ \A q \in Requests \ {r} : requests'[q] = requests[q]
      /\ requests[r].pc = "insert"
  BY DEF Insert, InitiationInv, TypeOK, Request
<1>5. id \in 1..Cardinality(Requests)
  <2>1. lastId' = id
    BY <1>1 DEF Insert
  <2>2. Cardinality(Tried') \in Nat /\ Cardinality(Tried') <= Cardinality(Requests)
    <3>1. Tried' \subseteq Requests
      BY DEF Tried
    <3>2. QED
      BY <3>1, TriedIsFinite, FS_Subset, FS_CardinalityType
  <2>3. QED
    BY <1>1, <2>1, <2>2, TriedIsFinite DEF IdsInv, InitiationInv, TypeOK
<1>6. /\ PaymentOf(key) = {} /\ PaymentOf(key)' = {id}
      /\ \A k \in Keys \ {key} : PaymentOf(k)' = PaymentOf(k)
      /\ \A k \in Keys : id \notin PaymentOf(k)
  <2>1. \A i \in DOMAIN rows : rows[i].key # key
    BY <1>2 DEF Insert, KeyTaken
  <2>2. QED
    BY <1>1, <1>3, <2>1 DEF PaymentOf
<1>7. \A k \in Keys : Told(k)' = Told(k)
  <2>1. SUFFICES ASSUME NEW k \in Keys PROVE Told(k)' = Told(k)
    OBVIOUS
  <2>2. Answering(k)' = Answering(k) /\ r \notin Answering(k)
    BY <1>4 DEF Answering, Answered
  <2>3. QED
    BY <1>4, <2>2 DEF Told, Answering
<1>8. Idempotent!Create(key)
  <2>1. [k \in Keys |-> PaymentOf(k)]'
          = [[k \in Keys |-> PaymentOf(k)] EXCEPT ![key] = {id}]
    BY <1>6
  <2>2. UNCHANGED [k \in Keys |-> Told(k)]
    BY <1>7
  <2>3. QED
    BY <1>5, <1>6, <2>1, <2>2 DEF Idempotent!Create, PaymentOf, Told, Answering
<1>9. QED
  BY <1>8 DEF Idempotent!Next

(* An answer tells the payment of its key, and an answered request keeps   *)
(* what it told.                                                           *)
LEMMA AnswerTells ==
  ASSUME InitiationInv, InitiationInv', NEW r \in Requests, UNCHANGED rows,
         requests'[r].pc = "answered", requests'[r].key = requests[r].key,
         requests[r].pc \in {"reply", "lookup"},
         \A q \in Requests \ {r} : requests'[q] = requests[q]
  PROVE  Idempotent!Next
<1>1. PICK key \in Keys : key = requests[r].key
  BY DEF InitiationInv, RequestInv
<1>2. PICK id \in DOMAIN rows : id = requests'[r].payment /\ rows[id].key = key
  BY <1>1 DEF InitiationInv, RequestInv, Names
<1>3. PaymentOf(key) = {id}
  BY <1>2 DEF PaymentOf, InitiationInv, KeysUnique
<1>4. \A k \in Keys : PaymentOf(k)' = PaymentOf(k)
  BY DEF PaymentOf
<1>5. \A q \in Answering(key)' : requests'[q].payment = id
  BY <1>2 DEF Answering, Answered, InitiationInv, RequestInv, Names, KeysUnique
<1>6. r \in Answering(key)'
  BY <1>1 DEF Answering, Answered
<1>7. Told(key)' = {id}
  BY <1>2, <1>5, <1>6 DEF Told
<1>8. \A k \in Keys \ {key} : Told(k)' = Told(k)
  <2>1. SUFFICES ASSUME NEW k \in Keys \ {key} PROVE Told(k)' = Told(k)
    OBVIOUS
  <2>2. Answering(k)' = Answering(k) /\ r \notin Answering(k)
    BY <1>1 DEF Answering, Answered
  <2>3. QED
    BY <2>2 DEF Told, Answering
<1>9. Idempotent!Answer(key)
  <2>1. [k \in Keys |-> Told(k)]'
          = [[k \in Keys |-> Told(k)] EXCEPT ![key] = PaymentOf(key)]
    BY <1>3, <1>7, <1>8
  <2>2. UNCHANGED [k \in Keys |-> PaymentOf(k)]
    BY <1>4
  <2>3. QED
    BY <1>3, <2>1, <2>2 DEF Idempotent!Answer, PaymentOf, Told, Answering
<1>10. QED
  BY <1>9 DEF Idempotent!Next

(* Every other step is invisible.                                          *)
LEMMA OtherStepsUnseen ==
  ASSUME InitiationInv, NEW r \in Requests, UNCHANGED rows,
         requests[r].pc # "answered", requests'[r].pc # "answered",
         \A q \in Requests \ {r} : requests'[q] = requests[q]
  PROVE  UNCHANGED <<[k \in Keys |-> PaymentOf(k)], [k \in Keys |-> Told(k)]>>
<1>1. \A k \in Keys : PaymentOf(k)' = PaymentOf(k)
  BY DEF PaymentOf
<1>2. \A k \in Keys : Told(k)' = Told(k)
  <2>1. SUFFICES ASSUME NEW k \in Keys PROVE Told(k)' = Told(k)
    OBVIOUS
  <2>2. Answering(k)' = Answering(k) /\ r \notin Answering(k)
    BY DEF Answering, Answered
  <2>3. QED
    BY <2>2 DEF Told, Answering
<1>3. QED
  BY <1>1, <1>2

(* Every step of a request is a step of its key, or not seen.              *)
LEMMA StepIsIdempotent ==
  InitiationInv /\ InitiationInv' /\ IdsInv /\ IdsInv' /\ [Next]_vars
    => [Idempotent!Next]_<<[k \in Keys |-> PaymentOf(k)], [k \in Keys |-> Told(k)]>>
<1>1. SUFFICES ASSUME InitiationInv, InitiationInv', IdsInv, IdsInv', [Next]_vars
               PROVE  \/ Idempotent!Next
                      \/ UNCHANGED <<[k \in Keys |-> PaymentOf(k)],
                                    [k \in Keys |-> Told(k)]>>
  OBVIOUS
<1>2. requests \in [Requests -> Request]
  BY <1>1 DEF InitiationInv, TypeOK
<1>3. CASE UNCHANGED vars
  BY <1>3 DEF vars, PaymentOf, Told, Answering, Answered
<1>4. ASSUME NEW r \in Requests, Insert(r)
      PROVE  Idempotent!Next
  BY <1>1, <1>4, InsertCreates
<1>5. ASSUME NEW r \in Requests, ReplyCreated(r) \/ Lookup(r)
      PROVE  Idempotent!Next
  <2>1. /\ UNCHANGED rows /\ requests[r].pc \in {"reply", "lookup"}
        /\ \A q \in Requests \ {r} : requests'[q] = requests[q]
    BY <1>2, <1>5 DEF ReplyCreated, Lookup
  <2>2. requests'[r].pc = "answered" /\ requests'[r].key = requests[r].key
    <3>1. requests[r] \in Request
      BY <1>2
    <3>2. CASE ReplyCreated(r)
      BY <1>2, <3>1, <3>2 DEF ReplyCreated, Request
    <3>3. CASE Lookup(r)
      <4>1. PICK id : requests' = [requests EXCEPT ![r].pc = "answered",
                                     ![r].payment = id, ![r].amount = rows[id].amount]
        BY <3>3 DEF Lookup
      <4>2. requests'[r] = [requests[r] EXCEPT !.pc = "answered",
                              !.payment = id, !.amount = rows[id].amount]
        BY <1>2, <4>1
      <4>3. QED
        BY <3>1, <4>2 DEF Request
    <3>4. QED
      BY <1>5, <3>2, <3>3
  <2>3. QED
    BY <1>1, <2>1, <2>2, AnswerTells
<1>6. ASSUME NEW r \in Requests,
             \/ \E key \in Keys, amount \in Amounts : Send(r, key, amount)
             \/ InsertRefused(r) \/ ReadBack(r) \/ Enqueue(r) \/ Fail(r)
      PROVE  UNCHANGED <<[k \in Keys |-> PaymentOf(k)], [k \in Keys |-> Told(k)]>>
  <2>1. /\ UNCHANGED rows /\ requests[r].pc # "answered"
        /\ \A q \in Requests \ {r} : requests'[q] = requests[q]
    BY <1>2, <1>6 DEF Send, InsertRefused, ReadBack, Enqueue, Fail
  <2>2. requests'[r].pc # "answered"
    BY <1>2, <1>6 DEF Send, NotSent, InsertRefused, ReadBack, Enqueue, Fail, Request
  <2>3. QED
    BY <1>1, <2>1, <2>2, OtherStepsUnseen
<1>7. CASE Next
  BY <1>4, <1>5, <1>6, <1>7 DEF Next, Handle
<1>8. QED
  BY <1>1, <1>3, <1>7

(* The requests implement the idempotent creation: a key's payment is      *)
(* decided in one step, for good, and only it is told.                     *)
THEOREM RequestsAreIdempotent == Spec => ImplementsIdempotent
<1>1. Init => Idempotent!Init /\ IdsInv
  <2>1. SUFFICES ASSUME Init PROVE Idempotent!Init /\ IdsInv
    OBVIOUS
  <2>2. \A r \in Requests : ~Answered(r) /\ r \notin Tried
    BY <2>1 DEF Init, NotSent, Answered, Tried
  <2>3. lastId = 0 /\ DOMAIN rows = {}
    BY <2>1 DEF Init
  <2>4. IdsInv
    BY <2>3, TriedIsFinite DEF IdsInv
  <2>5. QED
    BY <2>2, <2>3, <2>4 DEF Idempotent!Init
<1>2. Spec => []IdsInv
  BY <1>1, AlwaysInitiationInv, IdsStep, PTL DEF Spec
<1>3. InitiationInv /\ InitiationInv' /\ IdsInv /\ IdsInv' /\ [Next]_vars
        => [Idempotent!Next]_<<
             [k \in Keys |-> {id \in DOMAIN rows : rows[id].key = k}],
             [k \in Keys |-> {requests[r].payment : r \in {q \in Requests :
                                Answered(q) /\ requests[q].key = k}}]>>
  BY StepIsIdempotent DEF PaymentOf, Told, Answering
<1>4. QED
  BY <1>1, <1>2, <1>3, AlwaysInitiationInv, PTL
     DEF ImplementsIdempotent, Idempotent!Spec, Spec

=============================================================================
