----------------------- MODULE AIServiceClientProofs ------------------------
(***************************************************************************)
(* AIService answers every request it accepts at most once, and says       *)
(* Cancelled exactly of those that were cancelled, for any number of       *)
(* providers and requests and any moments of generate() and cancel().      *)
(***************************************************************************)
EXTENDS AIServiceClient, TLAPS

ClientTypeOK ==
    /\ AITypeOK
    /\ accepted \in IdOr0
    /\ unknown \in IdOr0
    /\ answer \in [Ids -> {"unused", "open"} \cup AIErrors]
    /\ cancelled \subseteq Ids

\* The request that is worked on, by an adapter or behind pendingError_, is
\* the last one accepted, and it has no answer yet.
Waits(i) == i = accepted /\ i # 0 /\ answer[i] = "open"

OneRequestWaits ==
    /\ pendingError <=> unknown # 0
    /\ pendingError => active = NoProvider /\ Waits(unknown)
    /\ \A p \in Providers :
          IF phase[p] = "idle" THEN job[p].id = 0 ELSE Waits(job[p].id)

\* Requests are numbered in the order they were accepted, and no answer is
\* outstanding unless somebody works on it.
AnswersInOrder ==
    \A i \in Ids :
        /\ answer[i] = "unused" <=> accepted < i
        /\ answer[i] = "open" => i = accepted /\ AIBusy

\* A cancelled request that waits is marked where its result will be made.
CancelsMarked ==
    /\ pendingError => (pendingCancelled <=> unknown \in cancelled)
    /\ \A p \in Providers :
          /\ phase[p] = "local" =>
                (abortReason[p] = "Cancelled" <=> job[p].id \in cancelled)
          /\ phase[p] = "posted" =>
                abortReason[p] = "None" /\ job[p].id \notin cancelled

\* An unused number is not cancelled; with CancelsItsOwn, only the last
\* request can be cancelled and unanswered.
CancelsUsed == \A i \in cancelled : answer[i] # "unused"

ClientInv ==
    /\ ClientTypeOK
    /\ OneAdapterWorks
    /\ OneRequestWaits
    /\ AnswersInOrder
    /\ CancelsMarked
    /\ CancelsUsed
    /\ CancelsItsOwn

-----------------------------------------------------------------------------
LEMMA ClientInitInv == Init => ClientInv
<1> SUFFICES ASSUME Init PROVE ClientInv
  OBVIOUS
<1> USE DEF Init, AIInit
<1>1. EmptyRequest \in Request /\ EmptyRequest.id = 0 /\ 0 \in IdOr0
  BY ProvidersAssumption, MaxRequestsAssumption DEF EmptyRequest, Request, Keys, IdOr0
<1>2. ClientTypeOK
  BY <1>1 DEF ClientTypeOK, AITypeOK, Phases, AIErrors
<1>3. OneAdapterWorks
  BY ProvidersAssumption DEF OneAdapterWorks
<1>4. OneRequestWaits
  BY <1>1 DEF OneRequestWaits
<1>5. AnswersInOrder
  BY MaxRequestsAssumption DEF AnswersInOrder, Ids
<1>6. CancelsMarked /\ CancelsUsed /\ CancelsItsOwn
  BY DEF CancelsMarked, CancelsUsed, CancelsItsOwn
<1>7. QED
  BY <1>2, <1>3, <1>4, <1>5, <1>6 DEF ClientInv

LEMMA IdleService ==
  ASSUME ClientInv, ~AIBusy
  PROVE  /\ \A p \in Providers : phase[p] = "idle"
         /\ \A i \in Ids : answer[i] # "open"
         /\ active = NoProvider /\ pendingError = FALSE
  BY ProvidersAssumption
  DEF ClientInv, OneAdapterWorks, AnswersInOrder, AIBusy, ClientTypeOK, AITypeOK

\* The record of answers when a request is accepted.
LEMMA OpensKeeps ==
  ASSUME ClientInv, ~AIBusy, AIBusy', Opens
  PROVE  /\ accepted' = accepted + 1 /\ accepted' \in IdOr0 /\ Waits(accepted)'
         /\ answer' \in [Ids -> {"unused", "open"} \cup AIErrors]
         /\ cancelled' = cancelled /\ cancelled \subseteq Ids
         /\ accepted + 1 \notin cancelled
         /\ AnswersInOrder' /\ CancelsUsed' /\ CancelsItsOwn'
<1> USE DEF Opens
<1>1. /\ accepted \in Nat /\ accepted + 1 \in Ids /\ accepted + 1 \in IdOr0
      /\ answer \in [Ids -> {"unused", "open"} \cup AIErrors] /\ cancelled \subseteq Ids
  BY MaxRequestsAssumption DEF ClientInv, ClientTypeOK, IdOr0, Ids
<1>2. \A i \in Ids : i \in Nat
  BY DEF Ids
<1>3. answer[accepted + 1] = "unused"
  BY <1>1 DEF ClientInv, AnswersInOrder
<1>4. accepted + 1 \notin cancelled
  BY <1>3 DEF ClientInv, CancelsUsed
<1>5. AnswersInOrder'
  <2> SUFFICES ASSUME NEW i \in Ids
               PROVE  /\ answer'[i] = "unused" <=> accepted' < i
                      /\ answer'[i] = "open" => i = accepted'
    BY DEF AnswersInOrder
  <2>1. CASE i = accepted + 1
    BY <1>1, <2>1
  <2>2. CASE i # accepted + 1
    <3>1. answer'[i] = answer[i] /\ answer[i] # "open"
      BY <1>1, <2>2, IdleService
    <3>2. answer[i] = "unused" <=> accepted < i
      BY DEF ClientInv, AnswersInOrder
    <3>3. QED
      BY <1>1, <1>2, <2>2, <3>1, <3>2
  <2>3. QED
    BY <2>1, <2>2
<1>6. CancelsUsed' /\ CancelsItsOwn'
  BY <1>1, <1>4 DEF ClientInv, CancelsUsed, CancelsItsOwn
<1>7. Waits(accepted)'
  BY <1>1 DEF Waits
<1>8. answer' \in [Ids -> {"unused", "open"} \cup AIErrors]
  BY <1>1
<1>9. QED
  BY <1>1, <1>4, <1>5, <1>6, <1>7, <1>8

LEMMA GenerateKeeps ==
  ASSUME ClientInv, NEW p \in Providers, NEW key \in Keys,
         NEW failure \in {"None"} \cup LocalErrors, Generate(p, key, failure)
  PROVE  ClientInv'
<1> USE DEF Generate, Accept
<1>1. ~AIBusy /\ AIBusy' /\ Opens
  BY ProvidersAssumption DEF Refuses, AIBusy
<1>2. /\ accepted' = accepted + 1 /\ accepted' \in IdOr0 /\ Waits(accepted)'
      /\ answer' \in [Ids -> {"unused", "open"} \cup AIErrors]
      /\ cancelled' = cancelled /\ cancelled \subseteq Ids
      /\ accepted + 1 \notin cancelled
      /\ AnswersInOrder' /\ CancelsUsed' /\ CancelsItsOwn'
  BY <1>1, OpensKeeps
<1>3. /\ \A q \in Providers : phase[q] = "idle"
      /\ active = NoProvider /\ pendingError = FALSE
  BY <1>1, IdleService
<1>4. failure \in AIErrors /\ failure # "Cancelled"
  BY DEF LocalErrors, AIErrors
<1>5. NewJob(p, key) \in Request /\ NewJob(p, key).id = accepted + 1
  BY <1>2, MaxRequestsAssumption DEF NewJob, Request, IdOr0
<1>6. /\ phase \in [Providers -> Phases] /\ job \in [Providers -> Request]
      /\ abortReason \in [Providers -> AIErrors] /\ unknown \in IdOr0
  BY DEF ClientInv, ClientTypeOK, AITypeOK
<1>7. AITypeOK'
  BY <1>3, <1>4, <1>5, <1>6 DEF ClientInv, ClientTypeOK, AITypeOK, Phases
<1>8. OneAdapterWorks'
  BY <1>3, <1>6, ProvidersAssumption DEF OneAdapterWorks
<1>9. OneRequestWaits'
  <2>1. \A q \in Providers : IF phase'[q] = "idle" THEN job'[q].id = 0 ELSE Waits(job[q].id)'
    BY <1>2, <1>3, <1>5, <1>6 DEF ClientInv, OneRequestWaits
  <2>2. QED
    BY <1>3, <2>1 DEF ClientInv, OneRequestWaits
<1>10. CancelsMarked'
  <2>1. \A q \in Providers : q # p => phase'[q] = "idle"
    BY <1>3, <1>6
  <2>2. job'[p].id = accepted + 1 /\ abortReason'[p] = failure
    BY <1>5, <1>6
  <2>3. phase'[p] = "posted" => failure = "None"
    BY <1>6
  <2>4. QED
    BY <1>2, <1>3, <1>4, <2>1, <2>2, <2>3 DEF CancelsMarked
<1>11. QED
  BY <1>2, <1>6, <1>7, <1>8, <1>9, <1>10 DEF ClientInv, ClientTypeOK

LEMMA GenerateUnknownKeeps ==
  ASSUME ClientInv, GenerateUnknown
  PROVE  ClientInv'
<1> USE DEF GenerateUnknown, AcceptUnknown
<1>1. ~AIBusy /\ AIBusy' /\ Opens
  BY DEF AIBusy
<1>2. /\ accepted' = accepted + 1 /\ accepted' \in IdOr0 /\ Waits(accepted)'
      /\ answer' \in [Ids -> {"unused", "open"} \cup AIErrors]
      /\ cancelled' = cancelled /\ cancelled \subseteq Ids
      /\ accepted + 1 \notin cancelled
      /\ AnswersInOrder' /\ CancelsUsed' /\ CancelsItsOwn'
  BY <1>1, OpensKeeps
<1>3. (\A q \in Providers : phase[q] = "idle") /\ active = NoProvider
  BY <1>1, IdleService
<1>4. ClientTypeOK'
  BY <1>2 DEF ClientInv, ClientTypeOK, AITypeOK
<1>5. OneAdapterWorks'
  BY DEF ClientInv, OneAdapterWorks
<1>6. OneRequestWaits'
  BY <1>2, <1>3 DEF ClientInv, OneRequestWaits, Waits
<1>7. CancelsMarked'
  BY <1>2, <1>3 DEF CancelsMarked
<1>8. QED
  BY <1>2, <1>4, <1>5, <1>6, <1>7 DEF ClientInv

\* The record of answers when the request that waits is answered.
LEMMA AnswerKeeps ==
  ASSUME ClientInv, NEW e \in AIErrors, Waits(accepted),
         answer' = [answer EXCEPT ![accepted] = e], accepted' = accepted,
         cancelled' \in {cancelled, cancelled \cup {accepted}},
         e = "Cancelled" <=> accepted \in cancelled'
  PROVE  /\ answer' \in [Ids -> {"unused", "open"} \cup AIErrors]
         /\ cancelled' \subseteq Ids
         /\ AnswersInOrder' /\ CancelsUsed' /\ CancelsItsOwn'
<1>1. /\ accepted \in Ids /\ cancelled \subseteq Ids /\ answer[accepted] = "open"
      /\ answer \in [Ids -> {"unused", "open"} \cup AIErrors]
  BY MaxRequestsAssumption DEF ClientInv, ClientTypeOK, IdOr0, Ids, Waits
<1>2. e # "open" /\ e # "unused"
  BY DEF AIErrors
<1>3. /\ answer'[accepted] = e
      /\ \A i \in Ids : i # accepted => answer'[i] = answer[i]
  BY <1>1
<1>4. AnswersInOrder'
  <2>1. accepted \in Nat
    BY <1>1 DEF Ids
  <2>2. \A i \in Ids : answer'[i] = "unused" <=> accepted' < i
    BY <1>1, <1>2, <1>3, <2>1 DEF ClientInv, AnswersInOrder
  <2>3. \A i \in Ids : answer'[i] # "open"
    BY <1>2, <1>3 DEF ClientInv, AnswersInOrder
  <2>4. QED
    BY <2>2, <2>3 DEF AnswersInOrder
<1>5. CancelsUsed'
  BY <1>1, <1>2, <1>3 DEF ClientInv, CancelsUsed
<1>6. CancelsItsOwn'
  BY <1>3 DEF ClientInv, CancelsItsOwn
<1>7. QED
  BY <1>1, <1>4, <1>5, <1>6

LEMMA UnknownAnsweredKeeps ==
  ASSUME ClientInv, UnknownAnswered
  PROVE  ClientInv'
<1> USE DEF UnknownAnswered, UnknownFails, Emits
<1> DEFINE e == IF pendingCancelled THEN "Cancelled" ELSE "Server"
<1>1. /\ pendingError /\ unknown = accepted /\ Waits(accepted) /\ active = NoProvider
      /\ cancelled' = cancelled /\ (pendingCancelled <=> accepted \in cancelled)
  BY DEF ClientInv, OneRequestWaits, CancelsMarked, Waits
<1>2. e \in AIErrors /\ (e = "Cancelled" <=> accepted \in cancelled')
  BY <1>1 DEF AIErrors
<1>3. answer' = [answer EXCEPT ![accepted] = e]
  BY <1>1
<1> HIDE DEF e
<1>4. /\ answer' \in [Ids -> {"unused", "open"} \cup AIErrors]
      /\ cancelled' \subseteq Ids
      /\ AnswersInOrder' /\ CancelsUsed' /\ CancelsItsOwn'
  BY <1>1, <1>2, <1>3, AnswerKeeps
<1>5. \A p \in Providers : phase[p] = "idle"
  BY <1>1, ProvidersAssumption DEF ClientInv, OneAdapterWorks
<1>6. ClientTypeOK'
  <2>1. unknown' \in IdOr0
    BY MaxRequestsAssumption DEF IdOr0
  <2>2. QED
    BY <1>4, <2>1 DEF ClientInv, ClientTypeOK, AITypeOK
<1>7. OneAdapterWorks'
  BY DEF ClientInv, OneAdapterWorks
<1>8. OneRequestWaits'
  BY <1>5 DEF ClientInv, OneRequestWaits
<1>9. CancelsMarked'
  BY <1>5 DEF CancelsMarked
<1>10. QED
  BY <1>4, <1>6, <1>7, <1>8, <1>9 DEF ClientInv

(***************************************************************************)
(* The adapter that works ends with e.  Passes(p) holds, so the service    *)
(* hears it.                                                               *)
(***************************************************************************)
LEMMA AdapterAnswers ==
  ASSUME ClientInv, NEW p \in Providers, phase[p] # "idle", NEW e \in AIErrors,
         Ends(p), abortReason' \in [Providers -> AIErrors],
         answer' = [answer EXCEPT ![job[p].id] = e],
         UNCHANGED <<accepted, unknown>>,
         cancelled' \in {cancelled, cancelled \cup {accepted}},
         e = "Cancelled" <=> job[p].id \in cancelled'
  PROVE  ClientInv'
<1> USE DEF Ends
<1>1. active = p /\ job[p].id = accepted /\ Waits(accepted)
  BY DEF ClientInv, OneAdapterWorks, OneRequestWaits, Waits
<1>2. active' = NoProvider
  BY <1>1 DEF Passes
<1>3. ~pendingError
  BY <1>1, ProvidersAssumption DEF ClientInv, OneRequestWaits
<1>4. /\ answer' \in [Ids -> {"unused", "open"} \cup AIErrors]
      /\ cancelled' \subseteq Ids
      /\ AnswersInOrder' /\ CancelsUsed' /\ CancelsItsOwn'
  BY <1>1, AnswerKeeps
<1>5. phase \in [Providers -> Phases] /\ job \in [Providers -> Request]
  BY DEF ClientInv, ClientTypeOK, AITypeOK
<1>6. EmptyRequest \in Request /\ EmptyRequest.id = 0
  BY ProvidersAssumption, MaxRequestsAssumption DEF EmptyRequest, Request, Keys, IdOr0
<1>7. \A q \in Providers : phase'[q] = "idle"
  BY <1>1, <1>5 DEF ClientInv, OneAdapterWorks
<1>8. ClientTypeOK'
  <2>1. phase' \in [Providers -> Phases] /\ job' \in [Providers -> Request]
    BY <1>5, <1>6 DEF Phases
  <2>2. QED
    BY <1>2, <1>4, <2>1 DEF ClientInv, ClientTypeOK, AITypeOK
<1>9. OneAdapterWorks'
  BY <1>2, <1>7, ProvidersAssumption DEF OneAdapterWorks
<1>10. OneRequestWaits'
  <2>1. \A q \in Providers : job'[q].id = 0
    BY <1>1, <1>5, <1>6 DEF ClientInv, OneRequestWaits, OneAdapterWorks
  <2>2. QED
    BY <1>3, <1>7, <2>1 DEF ClientInv, OneRequestWaits
<1>11. CancelsMarked'
  BY <1>3, <1>7 DEF CancelsMarked
<1>12. QED
  BY <1>4, <1>8, <1>9, <1>10, <1>11 DEF ClientInv

\* cancel() reaches the last request, which waits.
LEMMA CancelReachesLast ==
  ASSUME ClientInv, AIBusy
  PROVE  Current \ {0} = {accepted} /\ Waits(accepted)
<1>1. CASE pendingError
  <2>1. unknown = accepted /\ Waits(accepted) /\ \A p \in Providers : job[p].id = 0
    BY <1>1, ProvidersAssumption DEF ClientInv, OneRequestWaits, OneAdapterWorks, Waits
  <2>2. QED
    BY <2>1 DEF Current, Waits
<1>2. CASE ~pendingError
  <2>1. active \in Providers /\ unknown = 0
    BY <1>2 DEF AIBusy, ClientInv, OneRequestWaits, ClientTypeOK, AITypeOK
  <2>2. /\ job[active].id = accepted /\ Waits(accepted)
        /\ \A p \in Providers : p # active => job[p].id = 0
    BY <2>1 DEF ClientInv, OneRequestWaits, OneAdapterWorks, Waits
  <2>3. QED
    BY <2>1, <2>2 DEF Current, Waits
<1>3. QED
  BY <1>1, <1>2

\* What cancel() leaves with a request that waits for its timer.
MarkedLocally ==
    /\ pendingError => pendingCancelled'
    /\ \A p \in Providers : phase[p] = "local" => abortReason'[p] = "Cancelled"
    /\ \A p \in Providers : phase[p] # "posted"
    /\ abortReason' \in [Providers -> AIErrors] /\ pendingCancelled' \in BOOLEAN

LEMMA CancelWaitingKeeps ==
  ASSUME ClientInv, CancelWaiting
  PROVE  ClientInv'
<1>1. AIBusy /\ UNCHANGED <<active, pendingError, phase, job, accepted, unknown, answer>>
  BY ProvidersAssumption DEF CancelWaiting, CancelUnknown, CancelLocal, AIBusy
<1>2. cancelled' = cancelled \cup {accepted} /\ Waits(accepted)
  BY <1>1, CancelReachesLast DEF CancelWaiting, Marks
<1>3. accepted \in Ids
  BY <1>2, MaxRequestsAssumption DEF ClientInv, ClientTypeOK, IdOr0, Ids, Waits
<1>4. MarkedLocally
  <2>1. CASE CancelUnknown
    <3>1. pendingError /\ pendingCancelled' = TRUE /\ abortReason' = abortReason
      BY <2>1 DEF CancelUnknown
    <3>2. \A p \in Providers : phase[p] = "idle"
      BY <3>1, ProvidersAssumption DEF ClientInv, OneAdapterWorks, OneRequestWaits
    <3>3. QED
      BY <3>1, <3>2 DEF ClientInv, ClientTypeOK, AITypeOK, MarkedLocally
  <2>2. ASSUME NEW q \in Providers, CancelLocal(q)
        PROVE  MarkedLocally
    <3>1. /\ ~pendingError /\ active = q /\ phase[q] = "local"
          /\ abortReason' = [abortReason EXCEPT ![q] = "Cancelled"]
          /\ pendingCancelled' = pendingCancelled
      BY <2>2 DEF CancelLocal
    <3>2. \A p \in Providers : p # q => phase[p] = "idle"
      BY <3>1 DEF ClientInv, OneAdapterWorks
    <3>3. /\ abortReason' \in [Providers -> AIErrors]
          /\ abortReason'[q] = "Cancelled"
      BY <3>1 DEF ClientInv, ClientTypeOK, AITypeOK, AIErrors
    <3>4. pendingCancelled' \in BOOLEAN
      BY <3>1 DEF ClientInv, ClientTypeOK, AITypeOK
    <3>5. QED
      BY <3>1, <3>2, <3>3, <3>4 DEF MarkedLocally
  <2>3. QED
    BY <2>1, <2>2 DEF CancelWaiting
<1>5. ClientTypeOK'
  BY <1>1, <1>2, <1>3, <1>4 DEF ClientInv, ClientTypeOK, AITypeOK, MarkedLocally
<1>6. OneAdapterWorks' /\ OneRequestWaits' /\ AnswersInOrder'
  BY <1>1 DEF ClientInv, OneAdapterWorks, OneRequestWaits, AnswersInOrder, Waits, AIBusy
<1>7. CancelsMarked'
  <2>1. /\ pendingError => unknown = accepted
        /\ \A p \in Providers : phase[p] # "idle" => job[p].id = accepted
    BY DEF ClientInv, OneRequestWaits, Waits
  <2>2. \A p \in Providers : phase'[p] = "local" =>
            abortReason'[p] = "Cancelled" /\ job'[p].id \in cancelled'
    BY <1>1, <1>2, <1>4, <2>1 DEF MarkedLocally
  <2>3. pendingError' => pendingCancelled' /\ unknown' \in cancelled'
    BY <1>1, <1>2, <1>4, <2>1 DEF MarkedLocally
  <2>4. QED
    BY <1>1, <1>4, <2>2, <2>3 DEF CancelsMarked, MarkedLocally
<1>8. CancelsUsed' /\ CancelsItsOwn'
  BY <1>1, <1>2 DEF ClientInv, CancelsUsed, CancelsItsOwn, Waits
<1>9. QED
  BY <1>5, <1>6, <1>7, <1>8 DEF ClientInv

LEMMA CancelWireKeeps ==
  ASSUME ClientInv, NEW p \in Providers, CancelWire(p)
  PROVE  ClientInv'
<1> USE DEF CancelWire, CancelPosted, Abort
<1>1. AIBusy /\ phase[p] # "idle" /\ Passes(p)
  BY ProvidersAssumption DEF AIBusy, Passes
<1>2. cancelled' = cancelled \cup {accepted} /\ job[p].id = accepted
  BY <1>1, CancelReachesLast DEF Marks, ClientInv, OneRequestWaits, Waits
<1>3. "Cancelled" \in AIErrors
  BY DEF AIErrors
<1>4. abortReason' \in [Providers -> AIErrors]
  BY <1>3 DEF ClientInv, ClientTypeOK, AITypeOK
<1>5. Ends(p) /\ answer' = [answer EXCEPT ![job[p].id] = "Cancelled"]
  BY <1>1
<1>6. QED
  BY <1>1, <1>2, <1>3, <1>4, <1>5, AdapterAnswers

\* An adapter that ends by itself does not report Cancelled unless asked to.
LEMMA HeardKeeps ==
  ASSUME ClientInv, NEW p \in Providers, phase[p] # "idle", NEW e \in AIErrors,
         Ends(p), abortReason' \in [Providers -> AIErrors], Hears(p, e),
         e = "Cancelled" <=> job[p].id \in cancelled
  PROVE  ClientInv'
<1>1. Passes(p)
  BY DEF ClientInv, OneAdapterWorks, Passes
<1>2. /\ answer' = [answer EXCEPT ![job[p].id] = e]
      /\ UNCHANGED <<accepted, unknown>> /\ cancelled' = cancelled
  BY <1>1 DEF Hears, Emits
<1>3. QED
  BY <1>2, AdapterAnswers

LEMMA LocalAnsweredKeeps ==
  ASSUME ClientInv, NEW p \in Providers, LocalAnswered(p)
  PROVE  ClientInv'
<1>1. abortReason[p] \in AIErrors /\ abortReason \in [Providers -> AIErrors]
  BY DEF ClientInv, ClientTypeOK, AITypeOK
<1>2. /\ phase[p] = "local" /\ Ends(p) /\ abortReason' = abortReason
      /\ Hears(p, abortReason[p])
  BY DEF LocalAnswered, LocalEnds
<1>3. abortReason[p] = "Cancelled" <=> job[p].id \in cancelled
  BY <1>2 DEF ClientInv, CancelsMarked
<1>4. QED
  BY <1>1, <1>2, <1>3, HeardKeeps

LEMMA WireEndsKeeps ==
  ASSUME ClientInv, NEW p \in Providers, WireEnds(p)
  PROVE  ClientInv'
<1>1. abortReason \in [Providers -> AIErrors]
  BY DEF ClientInv, ClientTypeOK, AITypeOK
<1>2. phase[p] = "posted"
  BY DEF WireEnds, TimedOut, Overflowed, ReplyAnswered, ReplyEnds, Abort
<1>3. abortReason[p] = "None" /\ job[p].id \notin cancelled
  BY <1>2 DEF ClientInv, CancelsMarked
<1>4. ASSUME NEW e \in {"Timeout", "TooLarge"}, Abort(p, e), Hears(p, e)
      PROVE  ClientInv'
  <2>1. e \in AIErrors /\ e # "Cancelled"
    BY DEF AIErrors
  <2>2. Ends(p) /\ abortReason' \in [Providers -> AIErrors]
    BY <1>1, <1>4, <2>1 DEF Abort
  <2>3. QED
    BY <1>2, <1>3, <1>4, <2>1, <2>2, HeardKeeps
<1>5. ASSUME NEW e \in {"None"} \cup ReplyErrors, ReplyAnswered(p, e)
      PROVE  ClientInv'
  <2>1. e \in AIErrors /\ e # "Cancelled"
    BY ReplyErrorsAssumption DEF AIErrors
  <2>2. Ends(p) /\ abortReason' = abortReason /\ Hears(p, e)
    BY <1>3, <1>5 DEF ReplyAnswered, ReplyEnds, ReplyResult
  <2>3. QED
    BY <1>1, <1>2, <1>3, <2>1, <2>2, HeardKeeps
<1>6. QED
  BY <1>4, <1>5 DEF WireEnds, TimedOut, Overflowed

LEMMA ClientStutters == ASSUME ClientInv, UNCHANGED vars PROVE ClientInv'
<1> USE DEF vars, aiVars, clientVars
<1>1. ClientTypeOK' /\ OneAdapterWorks'
  BY DEF ClientInv, ClientTypeOK, AITypeOK, OneAdapterWorks
<1>2. OneRequestWaits' /\ AnswersInOrder'
  BY DEF ClientInv, OneRequestWaits, AnswersInOrder, Waits, AIBusy
<1>3. CancelsMarked' /\ CancelsUsed' /\ CancelsItsOwn'
  BY DEF ClientInv, CancelsMarked, CancelsUsed, CancelsItsOwn
<1>4. QED
  BY <1>1, <1>2, <1>3 DEF ClientInv

-----------------------------------------------------------------------------
\* The invariant of AIService and its client.
THEOREM ClientInvariant == Spec => []ClientInv
<1>1. ClientInv /\ [Next]_vars => ClientInv'
  BY GenerateKeeps, GenerateUnknownKeeps, UnknownAnsweredKeeps, CancelWaitingKeeps,
     CancelWireKeeps, LocalAnsweredKeeps, WireEndsKeeps, ClientStutters DEF Next
<1>2. QED
  BY <1>1, ClientInitInv, PTL DEF Spec

\* Exactly the cancelled requests report Cancelled, however cancel() races
\* with a local failure, the timer and the answer.
THEOREM CancelsReachTheirOwn == Spec => []CancelsItsOwn
<1>1. ClientInv => CancelsItsOwn
  BY DEF ClientInv
<1>2. QED
  BY <1>1, ClientInvariant, PTL

AnswersOnce ==
    \A i \in Ids : answer'[i] # answer[i] =>
        \/ answer[i] = "unused" /\ answer'[i] = "open"
        \/ answer[i] = "open" /\ answer'[i] \in AIErrors /\ i = accepted

LEMMA OpensOnce ==
  ASSUME ClientInv, Opens
  PROVE  AnswersOnce
<1>1. /\ accepted \in Nat /\ accepted + 1 \in Ids /\ answer[accepted + 1] = "unused"
      /\ answer \in [Ids -> {"unused", "open"} \cup AIErrors]
  BY MaxRequestsAssumption DEF ClientInv, ClientTypeOK, AnswersInOrder, IdOr0, Ids, Opens
<1>2. QED
  BY <1>1 DEF Opens, AnswersOnce

LEMMA WaitingAnsweredOnce ==
  ASSUME ClientInv, NEW i, Waits(i), NEW e \in AIErrors,
         answer' = [answer EXCEPT ![i] = e]
  PROVE  AnswersOnce
<1>1. answer \in [Ids -> {"unused", "open"} \cup AIErrors]
  BY DEF ClientInv, ClientTypeOK
<1>2. QED
  BY <1>1 DEF Waits, AnswersOnce

LEMMA AdapterAnsweredOnce ==
  ASSUME ClientInv, NEW p \in Providers, phase[p] # "idle", NEW e \in AIErrors,
         \/ Hears(p, e)
         \/ answer' = IF Passes(p) THEN [answer EXCEPT ![job[p].id] = e] ELSE answer
  PROVE  AnswersOnce
<1>1. Waits(job[p].id) /\ Passes(p)
  BY DEF ClientInv, OneAdapterWorks, OneRequestWaits, Passes
<1>2. answer' = [answer EXCEPT ![job[p].id] = e]
  BY <1>1 DEF Hears, Emits
<1>3. QED
  BY <1>1, <1>2, WaitingAnsweredOnce

\* One answer for every accepted request, and only for the current one.
THEOREM RequestsAnsweredOnce == Spec => AnsweredOnce
<1>1. ASSUME ClientInv, [Next]_vars PROVE AnswersOnce
  <2>1. CASE UNCHANGED answer
    BY <2>1 DEF AnswersOnce
  <2>2. ASSUME NEW p \in Providers, NEW key \in Keys,
               NEW failure \in {"None"} \cup LocalErrors, Generate(p, key, failure)
        PROVE  AnswersOnce
    BY <1>1, <2>2, OpensOnce DEF Generate
  <2>3. CASE GenerateUnknown
    BY <1>1, <2>3, OpensOnce DEF GenerateUnknown
  <2>4. CASE UnknownAnswered
    <3>1. pendingError /\ Waits(unknown)
      BY <1>1, <2>4 DEF UnknownAnswered, UnknownFails, ClientInv, OneRequestWaits
    <3>2. "Cancelled" \in AIErrors /\ "Server" \in AIErrors
      BY DEF AIErrors
    <3>3. \E e \in AIErrors : answer' = [answer EXCEPT ![unknown] = e]
      BY <2>4, <3>2 DEF UnknownAnswered, Emits
    <3>4. QED
      BY <1>1, <3>1, <3>3, WaitingAnsweredOnce
  <2>5. CASE CancelWaiting
    BY <2>1, <2>5 DEF CancelWaiting
  <2>6. ASSUME NEW p \in Providers, CancelWire(p)
        PROVE  AnswersOnce
    <3>1. phase[p] # "idle" /\ "Cancelled" \in AIErrors
      BY <2>6 DEF CancelWire, CancelPosted, Abort, AIErrors
    <3>2. QED
      BY <1>1, <2>6, <3>1, AdapterAnsweredOnce DEF CancelWire
  <2>7. ASSUME NEW p \in Providers, LocalAnswered(p)
        PROVE  AnswersOnce
    <3>1. phase[p] # "idle" /\ abortReason[p] \in AIErrors
      BY <1>1, <2>7 DEF LocalAnswered, LocalEnds, ClientInv, ClientTypeOK, AITypeOK
    <3>2. QED
      BY <1>1, <2>7, <3>1, AdapterAnsweredOnce DEF LocalAnswered
  <2>8. ASSUME NEW p \in Providers, WireEnds(p)
        PROVE  AnswersOnce
    <3>1. phase[p] # "idle"
      BY <2>8 DEF WireEnds, TimedOut, Overflowed, ReplyAnswered, ReplyEnds, Abort
    <3>2. \E e \in AIErrors : Hears(p, e)
      <4>1. abortReason[p] \in AIErrors
        BY <1>1 DEF ClientInv, ClientTypeOK, AITypeOK
      <4>2. \A parsed \in {"None"} \cup ReplyErrors : ReplyResult(p, parsed) \in AIErrors
        BY <4>1, ReplyErrorsAssumption DEF ReplyResult, AIErrors
      <4>3. "Timeout" \in AIErrors /\ "TooLarge" \in AIErrors
        BY DEF AIErrors
      <4>4. QED
        BY <2>8, <4>2, <4>3 DEF WireEnds, TimedOut, Overflowed, ReplyAnswered
    <3>3. QED
      BY <1>1, <3>1, <3>2, AdapterAnsweredOnce
  <2>9. QED
    BY <1>1, <2>1, <2>2, <2>3, <2>4, <2>5, <2>6, <2>7, <2>8 DEF Next, vars, clientVars
<1>2. QED
  BY <1>1, ClientInvariant, PTL DEF Spec, AnsweredOnce, AnswersOnce

=============================================================================
