--------------------------- MODULE SessionsProofs ---------------------------
(***************************************************************************)
(* Proofs about Sessions, for every set of browsers, authorizations,       *)
(* sessions and requests.                                                  *)
(***************************************************************************)
EXTENDS Sessions, FiniteSetTheorems, TLAPS

\* A flow that is remembered or sits in a cookie was started, the latter by the
\* browser that has the cookie.
FlowInv ==
    /\ \A f \in pending : owner[f] # None
    /\ \A b \in Browsers : flowCookie[b] # None => owner[flowCookie[b]] = b

\* What a request in progress knows: a callback has a flow its browser started,
\* and a new session, which a connect alone creates, came from that flow.
RequestOK(q) ==
    /\ q.provider = "spotify" /\ (q.pc = "save" \/ q.new # None)
          => q.flow \in Flows /\ owner[q.flow] = q.browser
    /\ q.pc # "answer" => q.new = None
    /\ q.new # None => origin[q.new] = IF q.provider = "apple" THEN "apple" ELSE q.flow

RequestInv == \A r \in Requests : request[r] # Free => RequestOK(request[r])

\* Callbacks that have taken a flow and not stored anything yet.
Taken(r, f) ==
    /\ request[r] # Free
    /\ request[r].pc = "save" /\ request[r].provider = "spotify" /\ request[r].flow = f

\* A flow is remembered, or taken by one callback, or the origin of one session,
\* and then it was started.
UseInv ==
    /\ \A s \in SessionIds : origin[s] \in Flows => owner[origin[s]] # None
    /\ \A f \in Flows, r \in Requests : Taken(r, f) =>
          /\ f \notin pending
          /\ \A s \in SessionIds : origin[s] # f
          /\ \A q \in Requests : Taken(q, f) => q = r
    /\ \A f \in pending, s \in SessionIds : origin[s] # f

\* Browser b has session s: in its cookie, or in a request of it.
Holds(b, s) ==
    \/ cookie[b] = s
    \/ \E r \in Requests : /\ request[r] # Free /\ request[r].browser = b
                           /\ s \in {request[r].old, request[r].new}

\* A session that somebody holds exists, and nobody else holds it.
HoldInv ==
    /\ \A s \in SessionIds, b \in Browsers : Holds(b, s) => origin[s] # "unused"
    /\ \A s \in SessionIds, b, c \in Browsers : Holds(b, s) /\ Holds(c, s) => b = c

\* The map of authorizations is finite, and within its limit.
PendingInv == IsFiniteSet(pending) /\ PendingBounded

BaseInv == TypeOK /\ FlowInv /\ RequestInv /\ UseInv /\ HoldInv

----------------------------------------------------------------------------
(* Requests as records.                                                    *)

\* A request in progress is told from a free slot.
LEMMA NotFree ==
    ASSUME TypeOK
    PROVE  /\ \A q \in InProgress : q # Free
           /\ \A r \in Requests : request[r] # Free <=> request[r] \in InProgress
<1>1. ASSUME NEW q \in InProgress PROVE q # Free
  <2>1. q.pc \in {"save", "answer", "delete", "clear"} /\ Free.pc = "free"
    BY DEF InProgress, Free
  <2>2. QED
    BY <2>1
<1>2. \A r \in Requests : request[r] \in {Free} \cup InProgress
  BY DEF TypeOK
<1>3. QED
  BY <1>1, <1>2

\* A callback, a connect or a disconnect opens a request.
LEMMA OpenEffect ==
    ASSUME TypeOK, NEW r \in Requests, NEW b \in Browsers, NEW p \in Providers,
           NEW f \in Flows \cup {None}, NEW at \in {"save", "delete"},
           request' = [request EXCEPT ![r] =
                [pc |-> at, browser |-> b, provider |-> p, flow |-> f,
                 old |-> cookie[b], new |-> None]]
    PROVE  /\ request' \in [Requests -> {Free} \cup InProgress]
           /\ request'[r] \in InProgress
           /\ request'[r] = [pc |-> at, browser |-> b, provider |-> p, flow |-> f,
                             old |-> cookie[b], new |-> None]
           /\ \A q \in Requests : q # r => request'[q] = request[q]
<1>1. cookie[b] \in SessionIds \cup {None} /\ request \in [Requests -> {Free} \cup InProgress]
  BY DEF TypeOK
<1>2. [pc |-> at, browser |-> b, provider |-> p, flow |-> f,
       old |-> cookie[b], new |-> None] \in InProgress
  BY <1>1 DEF InProgress
<1>3. QED
  BY <1>1, <1>2

\* A save moves its request on, with a new session or without.
LEMMA SaveEffect ==
    ASSUME TypeOK, NEW r \in Requests, Save(r)
    PROVE  /\ request[r] \in InProgress /\ request[r].pc = "save"
           /\ request' \in [Requests -> {Free} \cup InProgress]
           /\ request'[r] \in InProgress /\ request'[r].pc = "answer"
           /\ request'[r].browser = request[r].browser /\ request'[r].provider = request[r].provider
           /\ request'[r].flow = request[r].flow /\ request'[r].old = request[r].old
           /\ \A q \in Requests : q # r => request'[q] = request[q]
           /\ \/ request'[r].new = request[r].new /\ UNCHANGED <<stored, origin>>
              \/ \E s \in SessionIds :
                   LET q == request[r] IN
                   /\ request'[r].new = s /\ origin[s] = "unused"
                   /\ stored' = [stored EXCEPT ![q.provider] = Purge(q.provider, q.old) \cup {s}]
                   /\ origin' = [origin EXCEPT ![s] = IF q.provider = "apple" THEN "apple" ELSE q.flow]
<1>1. request \in [Requests -> {Free} \cup InProgress]
  BY DEF TypeOK
<1>2. request[r] \in InProgress /\ request[r].pc = "save"
  BY NotFree DEF Save
<1>3. ASSUME NEW s \in SessionIds, request' = [request EXCEPT ![r].pc = "answer", ![r].new = s]
      PROVE  /\ request' \in [Requests -> {Free} \cup InProgress]
             /\ request'[r] \in InProgress /\ request'[r].pc = "answer" /\ request'[r].new = s
             /\ request'[r].browser = request[r].browser /\ request'[r].provider = request[r].provider
             /\ request'[r].flow = request[r].flow /\ request'[r].old = request[r].old
             /\ \A q \in Requests : q # r => request'[q] = request[q]
  <2> DEFINE new == [request[r] EXCEPT !.pc = "answer", !.new = s]
  <2>1. request' = [request EXCEPT ![r] = new]
    BY <1>1, <1>2, <1>3 DEF InProgress
  <2>2. /\ new \in InProgress /\ new.pc = "answer" /\ new.new = s
        /\ new.browser = request[r].browser /\ new.provider = request[r].provider
        /\ new.flow = request[r].flow /\ new.old = request[r].old
    BY <1>2 DEF InProgress
  <2>3. QED
    BY <1>1, <2>1, <2>2
<1>4. ASSUME request' = [request EXCEPT ![r].pc = "answer"]
      PROVE  /\ request' \in [Requests -> {Free} \cup InProgress]
             /\ request'[r] \in InProgress /\ request'[r].pc = "answer"
             /\ request'[r].new = request[r].new
             /\ request'[r].browser = request[r].browser /\ request'[r].provider = request[r].provider
             /\ request'[r].flow = request[r].flow /\ request'[r].old = request[r].old
             /\ \A q \in Requests : q # r => request'[q] = request[q]
  <2> DEFINE new == [request[r] EXCEPT !.pc = "answer"]
  <2>1. request' = [request EXCEPT ![r] = new]
    BY <1>4
  <2>2. /\ new \in InProgress /\ new.pc = "answer" /\ new.new = request[r].new
        /\ new.browser = request[r].browser /\ new.provider = request[r].provider
        /\ new.flow = request[r].flow /\ new.old = request[r].old
    BY <1>2 DEF InProgress
  <2>3. QED
    BY <1>1, <2>1, <2>2
<1>5. CASE \E s \in SessionIds :
             /\ NewSession(request[r], s)
             /\ stored' = [stored EXCEPT ![request[r].provider] =
                              Purge(request[r].provider, request[r].old) \cup {s}]
             /\ origin' = [origin EXCEPT ![s] =
                              IF request[r].provider = "apple" THEN "apple" ELSE request[r].flow]
             /\ request' = [request EXCEPT ![r].pc = "answer", ![r].new = s]
  BY <1>2, <1>3, <1>5 DEF NewSession
<1>6. CASE request' = [request EXCEPT ![r].pc = "answer"] /\ UNCHANGED <<stored, origin>>
  BY <1>2, <1>4, <1>6
<1>7. QED
  BY <1>5, <1>6 DEF Save

\* A deletion moves its request on, and removes at most its session's row.
LEMMA DeleteEffect ==
    ASSUME TypeOK, NEW r \in Requests, Delete(r)
    PROVE  /\ request[r] \in InProgress /\ request[r].pc = "delete"
           /\ request' \in [Requests -> {Free} \cup InProgress]
           /\ request'[r] \in InProgress /\ request'[r].pc \in {"answer", "clear"}
           /\ request'[r].browser = request[r].browser /\ request'[r].provider = request[r].provider
           /\ request'[r].flow = request[r].flow /\ request'[r].old = request[r].old
           /\ request'[r].new = request[r].new
           /\ \A q \in Requests : q # r => request'[q] = request[q]
           /\ \/ UNCHANGED stored
              \/ stored' = [stored EXCEPT ![request[r].provider] = @ \ {request[r].old}]
<1>1. request \in [Requests -> {Free} \cup InProgress]
  BY DEF TypeOK
<1>2. request[r] \in InProgress /\ request[r].pc = "delete"
  BY NotFree DEF Delete
<1>3. PICK at \in {"answer", "clear"} : request' = [request EXCEPT ![r].pc = at]
  BY DEF Delete
<1> DEFINE next == [request[r] EXCEPT !.pc = at]
<1>4. request' = [request EXCEPT ![r] = next]
  BY <1>3
<1>5. /\ next \in InProgress /\ next.pc = at /\ next.new = request[r].new
      /\ next.browser = request[r].browser /\ next.provider = request[r].provider
      /\ next.flow = request[r].flow /\ next.old = request[r].old
  BY <1>2 DEF InProgress
<1>6. /\ request' \in [Requests -> {Free} \cup InProgress] /\ request'[r] = next
      /\ \A q \in Requests : q # r => request'[q] = request[q]
  BY <1>1, <1>4, <1>5
<1>7. UNCHANGED stored \/ stored' = [stored EXCEPT ![request[r].provider] = @ \ {request[r].old}]
  BY DEF Delete
<1>8. QED
  BY <1>2, <1>5, <1>6, <1>7

\* An answer frees its slot.
LEMMA AnswerEffect ==
    ASSUME TypeOK, NEW r \in Requests, Answer(r) \/ Clear(r)
    PROVE  /\ request[r] \in InProgress
           /\ request' \in [Requests -> {Free} \cup InProgress]
           /\ request'[r] = Free
           /\ \A q \in Requests : q # r => request'[q] = request[q]
<1>1. request \in [Requests -> {Free} \cup InProgress]
  BY DEF TypeOK
<1>2. QED
  BY <1>1, NotFree DEF Answer, Clear

\* A step on one request leaves the others as they are.
LEMMA OthersKept ==
    ASSUME TypeOK, NEW r \in Requests, NEW q \in Requests, q # r,
           \/ Save(q) \/ Answer(q) \/ Delete(q) \/ Clear(q)
           \/ \E b \in Browsers : ConnectApple(q, b)
           \/ \E b \in Browsers, p \in Providers : Disconnect(q, b, p)
           \/ \E b \in Browsers, f \in Flows : Callback(q, b, f)
    PROVE  request'[r] = request[r]
<1>1. CASE Save(q) \/ Delete(q) \/ Answer(q) \/ Clear(q)
  BY <1>1, SaveEffect, DeleteEffect, AnswerEffect
<1>2. CASE \/ \E b \in Browsers : ConnectApple(q, b)
           \/ \E b \in Browsers, p \in Providers : Disconnect(q, b, p)
           \/ \E b \in Browsers, f \in Flows : Callback(q, b, f)
  BY <1>2 DEF ConnectApple, Disconnect, Callback, TypeOK
<1>3. QED
  BY <1>1, <1>2

----------------------------------------------------------------------------
(* Types, and rows only for sessions that were created.                    *)

\* The parts of TypeOK: the browsers and their requests, and the database.
JarType ==
    /\ pending \subseteq Flows /\ lapsed \subseteq Flows
    /\ owner \in [Flows -> Browsers \cup {None}]
    /\ flowCookie \in [Browsers -> Flows \cup {None}]
    /\ cookie \in [Browsers -> SessionIds \cup {None}]
    /\ expired \subseteq SessionIds
    /\ request \in [Requests -> {Free} \cup InProgress]
    /\ connected \in [Browsers -> SUBSET Providers]

StoredType ==
    /\ stored \in [Providers -> SUBSET {s \in SessionIds : origin[s] # "unused"}]
    /\ stored["spotify"] \cap stored["apple"] = {}
    /\ origin \in [SessionIds -> Flows \cup {"unused", "apple"}]

\* TypeOK is its two parts.
LEMMA TypeParts == TypeOK <=> JarType /\ StoredType
  BY DEF TypeOK, JarType, StoredType

\* The initial states satisfy the base of the invariants.
LEMMA InitBase == Init => BaseInv
<1> SUFFICES ASSUME Init PROVE BaseInv
  OBVIOUS
<1>1. JarType
  BY DEF Init, JarType
<1>2. StoredType
  BY DEF Init, StoredType, Providers
<1>3. FlowInv /\ RequestInv
  BY DEF Init, FlowInv, RequestInv
<1>4. UseInv
  BY OriginsAssumption DEF Init, UseInv, Taken
<1>5. HoldInv
  BY NoneAssumption DEF Init, HoldInv, Holds
<1>6. QED
  BY <1>1, <1>2, <1>3, <1>4, <1>5, TypeParts DEF BaseInv

\* Cookies, flows and requests keep their types.
LEMMA JarStep == BaseInv /\ [Next]_vars => JarType'
<1> SUFFICES ASSUME BaseInv, [Next]_vars PROVE JarType'
  OBVIOUS
<1>0. TypeOK /\ JarType
  BY TypeParts DEF BaseInv
<1>1. ASSUME NEW b \in Browsers, NEW f \in Flows, Start(b, f) PROVE JarType'
  BY <1>0, <1>1 DEF Start, JarType, rowVars
<1>2. ASSUME NEW f \in Flows, Lapse(f) PROVE JarType'
  BY <1>0, <1>2 DEF Lapse, JarType, rowVars, jarVars
<1>3. ASSUME NEW r \in Requests, NEW b \in Browsers, NEW f \in Flows, Callback(r, b, f)
      PROVE  JarType'
  <2>1. request' \in [Requests -> {Free} \cup InProgress]
    <3>1. CASE UNCHANGED request
      BY <1>0, <3>1 DEF JarType
    <3>2. CASE request' = [request EXCEPT ![r] =
                  [pc |-> "save", browser |-> b, provider |-> "spotify", flow |-> f,
                   old |-> cookie[b], new |-> None]]
      BY <1>0, <3>2, OpenEffect DEF Providers
    <3>3. QED
      BY <1>3, <3>1, <3>2 DEF Callback
  <2>2. pending' \subseteq Flows /\ flowCookie' \in [Browsers -> Flows \cup {None}]
    BY <1>0, <1>3 DEF Callback, Consume, JarType
  <2>3. UNCHANGED <<lapsed, owner, cookie, connected, expired>>
    BY <1>3 DEF Callback, rowVars
  <2>4. QED
    BY <1>0, <2>1, <2>2, <2>3 DEF JarType
<1>4. ASSUME NEW r \in Requests, NEW b \in Browsers, ConnectApple(r, b) PROVE JarType'
  <2>1. request' \in [Requests -> {Free} \cup InProgress]
    BY <1>0, <1>4, OpenEffect DEF ConnectApple, Providers
  <2>2. QED
    BY <1>0, <1>4, <2>1 DEF ConnectApple, JarType, flowVars, jarVars, rowVars
<1>5. ASSUME NEW r \in Requests, Save(r) PROVE JarType'
  <2>1. request' \in [Requests -> {Free} \cup InProgress]
    BY <1>0, <1>5, SaveEffect
  <2>2. UNCHANGED <<flowVars, jarVars, expired>>
    BY <1>5 DEF Save
  <2>3. QED
    BY <1>0, <2>1, <2>2 DEF JarType, flowVars, jarVars
<1>6. ASSUME NEW r \in Requests, Answer(r) PROVE JarType'
  <2>1. request' \in [Requests -> {Free} \cup InProgress] /\ request[r] \in InProgress
    BY <1>0, <1>6, AnswerEffect
  <2>2. /\ request[r].browser \in Browsers /\ request[r].provider \in Providers
        /\ request[r].new \in SessionIds \cup {None}
    BY <2>1 DEF InProgress
  <2>3. flowCookie' \in [Browsers -> Flows \cup {None}] /\ cookie' \in [Browsers -> SessionIds \cup {None}]
    BY <1>0, <1>6, <2>2 DEF Answer, JarType
  <2>4. connected' \in [Browsers -> SUBSET Providers]
    BY <1>0, <1>6, <2>2 DEF Answer, Unanswered, JarType
  <2>5. UNCHANGED <<flowVars, rowVars>>
    BY <1>6 DEF Answer
  <2>6. QED
    BY <1>0, <2>1, <2>3, <2>4, <2>5 DEF JarType, flowVars, rowVars
<1>7. ASSUME NEW r \in Requests, NEW b \in Browsers, NEW p \in Providers, Disconnect(r, b, p)
      PROVE  JarType'
  <2>1. request' \in [Requests -> {Free} \cup InProgress]
    BY <1>0, <1>7, OpenEffect DEF Disconnect
  <2>2. QED
    BY <1>0, <1>7, <2>1 DEF Disconnect, JarType, flowVars, jarVars, rowVars
<1>8. ASSUME NEW r \in Requests, Delete(r) PROVE JarType'
  <2>1. request' \in [Requests -> {Free} \cup InProgress]
    BY <1>0, <1>8, DeleteEffect
  <2>2. UNCHANGED <<flowVars, jarVars, expired>>
    BY <1>8 DEF Delete
  <2>3. QED
    BY <1>0, <2>1, <2>2 DEF JarType, flowVars, jarVars
<1>9. ASSUME NEW r \in Requests, Clear(r) PROVE JarType'
  <2>1. request' \in [Requests -> {Free} \cup InProgress] /\ request[r] \in InProgress
    BY <1>0, <1>9, AnswerEffect
  <2>2. cookie' \in [Browsers -> SessionIds \cup {None}] /\ connected' \in [Browsers -> SUBSET Providers]
    BY <1>0, <1>9 DEF Clear, Unanswered, JarType
  <2>3. UNCHANGED <<flowVars, rowVars, flowCookie>>
    BY <1>9 DEF Clear
  <2>4. QED
    BY <1>0, <2>1, <2>2, <2>3 DEF JarType, flowVars, rowVars
<1>10. ASSUME NEW s \in SessionIds, Expire(s) PROVE JarType'
  BY <1>0, <1>10 DEF Expire, JarType, flowVars, jarVars
<1>11. CASE Restart
  <2>1. connected' \in [Browsers -> SUBSET Providers]
    BY <1>0, <1>11 DEF Restart, Unanswered, JarType
  <2>2. QED
    BY <1>0, <1>11, <2>1 DEF Restart, JarType, rowVars
<1>12. CASE UNCHANGED vars
  BY <1>0, <1>12 DEF JarType, vars
<1>13. QED
  BY <1>1, <1>2, <1>3, <1>4, <1>5, <1>6, <1>7, <1>8, <1>9, <1>10, <1>11, <1>12 DEF Next

\* What a step does to the origins: a session is created by one save, from its
\* request's flow, and never becomes another's.
LEMMA OriginStep ==
    ASSUME BaseInv, [Next]_vars
    PROVE  \/ UNCHANGED origin
           \/ \E r \in Requests, s \in SessionIds :
                 /\ Save(r) /\ origin[s] = "unused" /\ request'[r].new = s
                 /\ origin' = [origin EXCEPT ![s] =
                       IF request[r].provider = "apple" THEN "apple" ELSE request[r].flow]
                 /\ stored' = [stored EXCEPT ![request[r].provider] =
                                  Purge(request[r].provider, request[r].old) \cup {s}]
<1>1. TypeOK
  BY DEF BaseInv
<1>2. ASSUME NEW r \in Requests, Save(r)
      PROVE  \/ UNCHANGED origin
             \/ \E s \in SessionIds :
                   /\ origin[s] = "unused" /\ request'[r].new = s
                   /\ origin' = [origin EXCEPT ![s] =
                         IF request[r].provider = "apple" THEN "apple" ELSE request[r].flow]
                   /\ stored' = [stored EXCEPT ![request[r].provider] =
                                    Purge(request[r].provider, request[r].old) \cup {s}]
  BY <1>1, <1>2, SaveEffect
<1>3. UNCHANGED origin \/ \E r \in Requests : Save(r)
  BY DEF Next, Start, Lapse, Callback, ConnectApple, Answer, Disconnect, Delete, Clear, Expire, Restart,
         rowVars, vars
<1>4. QED
  BY <1>2, <1>3

\* A created session gets an origin, and no session loses one.
LEMMA OriginKept ==
    ASSUME BaseInv, [Next]_vars
    PROVE  /\ origin' \in [SessionIds -> Flows \cup {"unused", "apple"}]
           /\ \A s \in SessionIds : origin[s] # "unused" => origin'[s] = origin[s]
           /\ \A r \in Requests, s \in SessionIds :
                 Save(r) /\ request'[r].new = s /\ s # request[r].new => origin'[s] # "unused"
<1>0. TypeOK /\ StoredType
  BY TypeParts DEF BaseInv
<1>1. ASSUME NEW r \in Requests, Save(r)
      PROVE  request[r].provider = "apple" \/ request[r].flow \in Flows
  <2>1. request[r] \in InProgress /\ request[r] # Free /\ request[r].pc = "save"
    BY <1>0, <1>1, SaveEffect, NotFree
  <2>2. QED
    BY <2>1 DEF BaseInv, RequestInv, RequestOK, InProgress, Providers
<1>2. origin' \in [SessionIds -> Flows \cup {"unused", "apple"}]
  BY <1>0, <1>1, OriginStep DEF StoredType
<1>3. \A s \in SessionIds : origin[s] # "unused" => origin'[s] = origin[s]
  BY <1>0, OriginStep DEF StoredType
<1>4. ASSUME NEW r \in Requests, NEW s \in SessionIds,
             Save(r), request'[r].new = s, s # request[r].new
      PROVE  origin'[s] # "unused"
  <2>1. origin' = [origin EXCEPT ![s] =
                      IF request[r].provider = "apple" THEN "apple" ELSE request[r].flow]
    BY <1>0, <1>4, SaveEffect
  <2>2. QED
    BY <1>0, <1>1, <1>4, <2>1, OriginsAssumption DEF StoredType
<1>5. QED
  BY <1>2, <1>3, <1>4

\* Rows are written for the session just created and only removed otherwise.
LEMMA StoredShrinks ==
    ASSUME BaseInv, [Next]_vars
    PROVE  \/ stored' \in [Providers -> SUBSET SessionIds]
              /\ \A p \in Providers : stored'[p] \subseteq stored[p]
           \/ \E r \in Requests, s \in SessionIds :
                 /\ Save(r) /\ origin[s] = "unused" /\ request'[r].new = s /\ request[r].provider \in Providers
                 /\ stored' = [stored EXCEPT ![request[r].provider] =
                                  Purge(request[r].provider, request[r].old) \cup {s}]
<1>0. TypeOK /\ StoredType
  BY TypeParts DEF BaseInv
<1>1. ASSUME NEW r \in Requests, Save(r)
      PROVE  \/ UNCHANGED stored
             \/ \E s \in SessionIds :
                   /\ origin[s] = "unused" /\ request'[r].new = s /\ request[r].provider \in Providers
                   /\ stored' = [stored EXCEPT ![request[r].provider] =
                                    Purge(request[r].provider, request[r].old) \cup {s}]
  <2>1. request[r].provider \in Providers
    BY <1>0, <1>1, SaveEffect DEF InProgress
  <2>2. QED
    BY <1>0, <1>1, <2>1, SaveEffect
<1>2. ASSUME NEW r \in Requests, Delete(r)
      PROVE  stored' \in [Providers -> SUBSET SessionIds] /\ \A q \in Providers : stored'[q] \subseteq stored[q]
  BY <1>0, <1>2, DeleteEffect DEF StoredType
<1>3. CASE UNCHANGED stored
  BY <1>0, <1>3 DEF StoredType
<1>4. QED
  BY <1>1, <1>2, <1>3
  DEF Next, Start, Lapse, Callback, ConnectApple, Answer, Disconnect, Clear, Expire, Restart, rowVars, vars

\* A session has a row only once created, and in one table only.
LEMMA StoredStep == BaseInv /\ [Next]_vars => StoredType'
<1> SUFFICES ASSUME BaseInv, [Next]_vars PROVE StoredType'
  OBVIOUS
<1>0. TypeOK /\ StoredType
  BY TypeParts DEF BaseInv
<1>1. CASE stored' \in [Providers -> SUBSET SessionIds]
           /\ \A p \in Providers : stored'[p] \subseteq stored[p]
  <2>1. \A p \in Providers : \A s \in stored'[p] : s \in SessionIds /\ origin'[s] # "unused"
    BY <1>0, <1>1, OriginKept DEF StoredType
  <2>2. stored'["spotify"] \cap stored'["apple"] = {}
    BY <1>0, <1>1 DEF StoredType, Providers
  <2>3. QED
    BY <1>1, <2>1, <2>2, OriginKept DEF StoredType
<1>2. ASSUME NEW r \in Requests, NEW s \in SessionIds,
             Save(r), origin[s] = "unused", request'[r].new = s, request[r].provider \in Providers,
             stored' = [stored EXCEPT ![request[r].provider] =
                           Purge(request[r].provider, request[r].old) \cup {s}]
      PROVE  StoredType'
  <2> DEFINE pr == request[r].provider
  <2>0. origin'[s] # "unused"
    <3>1. request[r] # Free /\ request[r].new = None
      BY <1>0, <1>2, SaveEffect, NotFree DEF BaseInv, RequestInv, RequestOK
    <3>2. QED
      BY <1>2, <3>1, OriginKept, NoneAssumption
  <2>1. /\ stored'[pr] = Purge(pr, request[r].old) \cup {s}
        /\ \A p \in Providers : p # pr => stored'[p] = stored[p]
        /\ DOMAIN stored' = Providers /\ stored' = [p \in Providers |-> stored'[p]]
    BY <1>0, <1>2 DEF StoredType
  <2>2. \A p \in Providers : stored[p] \subseteq SessionIds /\ \A x \in stored[p] : origin[x] # "unused"
    BY <1>0 DEF StoredType
  <2>3. stored'[pr] \subseteq stored[pr] \cup {s}
    BY <2>1 DEF Purge
  <2>4. \A p \in Providers : \A x \in stored'[p] : x \in SessionIds /\ origin'[x] # "unused"
    BY <1>2, <2>0, <2>1, <2>2, <2>3, OriginKept
  <2>5. stored'["spotify"] \cap stored'["apple"] = {}
    BY <1>0, <1>2, <2>1, <2>2, <2>3 DEF StoredType, Providers
  <2>6. stored' \in [Providers -> SUBSET {x \in SessionIds : origin'[x] # "unused"}]
    BY <2>1, <2>4
  <2>7. QED
    BY <2>5, <2>6, OriginKept DEF StoredType
<1>3. QED
  BY <1>1, <1>2, StoredShrinks

----------------------------------------------------------------------------
(* Flows, and what came of them.                                           *)

\* A flow's owner is set once.
LEMMA OwnerStep ==
    ASSUME BaseInv, [Next]_vars
    PROVE  \A f \in Flows : owner[f] # None => owner'[f] = owner[f]
<1>0. TypeOK
  BY DEF BaseInv
<1>1. ASSUME NEW b \in Browsers, NEW g \in Flows, Start(b, g)
      PROVE  \A f \in Flows : owner[f] # None => owner'[f] = owner[f]
  BY <1>0, <1>1 DEF Start, TypeOK
<1>2. UNCHANGED owner \/ \E b \in Browsers, g \in Flows : Start(b, g)
  BY DEF Next, Lapse, Callback, ConnectApple, Save, Answer, Disconnect, Delete, Clear, Expire, Restart,
         flowVars, vars
<1>3. QED
  BY <1>1, <1>2

\* Remembered flows were started, and cookies hold the browser's own.
LEMMA FlowStep == BaseInv /\ [Next]_vars => FlowInv'
<1> SUFFICES ASSUME BaseInv, [Next]_vars PROVE FlowInv'
  OBVIOUS
<1>0. TypeOK /\ FlowInv
  BY DEF BaseInv
<1>1. ASSUME NEW b \in Browsers, NEW f \in Flows, Start(b, f) PROVE FlowInv'
  BY <1>0, <1>1, NoneAssumption DEF Start, TypeOK, FlowInv
<1>2. CASE /\ UNCHANGED owner /\ pending' \subseteq pending
           /\ \A b \in Browsers : flowCookie'[b] \in {flowCookie[b], None}
  BY <1>0, <1>2 DEF FlowInv
<1>3. ASSUME NEW r \in Requests, NEW b \in Browsers, NEW f \in Flows, Callback(r, b, f)
      PROVE  /\ UNCHANGED owner /\ pending' \subseteq pending
             /\ \A c \in Browsers : flowCookie'[c] \in {flowCookie[c], None}
  BY <1>0, <1>3 DEF Callback, Consume, TypeOK
<1>4. ASSUME NEW r \in Requests, Answer(r)
      PROVE  /\ UNCHANGED owner /\ pending' \subseteq pending
             /\ \A c \in Browsers : flowCookie'[c] \in {flowCookie[c], None}
  BY <1>0, <1>4 DEF Answer, TypeOK, flowVars
<1>5. \/ \E b \in Browsers, f \in Flows : Start(b, f)
      \/ \E r \in Requests, b \in Browsers, f \in Flows : Callback(r, b, f)
      \/ \E r \in Requests : Answer(r)
      \/ UNCHANGED <<owner, flowCookie>> /\ pending' \subseteq pending
  BY DEF Next, Lapse, ConnectApple, Save, Disconnect, Delete, Clear, Expire, Restart,
         flowVars, jarVars, vars
<1>6. QED
  BY <1>1, <1>2, <1>3, <1>4, <1>5

\* A request in progress keeps its flow's browser, and its session its origin.
LEMMA RequestStep == BaseInv /\ [Next]_vars => RequestInv'
<1> SUFFICES ASSUME BaseInv, [Next]_vars, NEW r \in Requests, request'[r] # Free
             PROVE  RequestOK(request[r])'
  BY DEF RequestInv
<1>0. TypeOK /\ FlowInv /\ RequestInv
  BY DEF BaseInv
<1>1. CASE request'[r] = request[r]
  <2>1. request[r] \in InProgress /\ RequestOK(request[r])
    BY <1>0, <1>1, NotFree DEF RequestInv
  <2>2. request[r].provider = "spotify" /\ (request[r].pc = "save" \/ request[r].new # None)
           => request[r].flow \in Flows /\ owner'[request[r].flow] = request[r].browser
    <3>1. request[r].browser \in Browsers
      BY <2>1 DEF InProgress
    <3>2. QED
      BY <2>1, <3>1, OwnerStep, NoneAssumption DEF RequestOK
  <2>3. request[r].new # None => origin'[request[r].new] = origin[request[r].new]
    <3>1. request[r].new # None => request[r].new \in SessionIds /\ origin[request[r].new] # "unused"
      BY <2>1, OriginsAssumption DEF RequestOK, InProgress, Providers
    <3>2. QED
      BY <3>1, OriginKept
  <2>4. QED
    BY <1>1, <2>1, <2>2, <2>3 DEF RequestOK
<1>2. ASSUME NEW b \in Browsers, NEW f \in Flows, Callback(r, b, f), request'[r] # request[r]
      PROVE  RequestOK(request[r])'
  <2>1. request' = [request EXCEPT ![r] =
              [pc |-> "save", browser |-> b, provider |-> "spotify", flow |-> f,
               old |-> cookie[b], new |-> None]]
    BY <1>2 DEF Callback
  <2>2. request'[r] = [pc |-> "save", browser |-> b, provider |-> "spotify", flow |-> f,
                       old |-> cookie[b], new |-> None]
    BY <1>0, <2>1, OpenEffect DEF Providers
  <2>3. owner'[f] = b
    BY <1>0, <1>2, NoneAssumption DEF Callback, StateMatches, FlowInv
  <2>4. QED
    BY <2>2, <2>3 DEF RequestOK
<1>3. ASSUME NEW b \in Browsers, ConnectApple(r, b) PROVE RequestOK(request[r])'
  <2>1. request'[r] = [pc |-> "save", browser |-> b, provider |-> "apple", flow |-> None,
                       old |-> cookie[b], new |-> None]
    BY <1>0, <1>3, OpenEffect DEF ConnectApple, Providers
  <2>2. QED
    BY <2>1 DEF RequestOK
<1>4. CASE Save(r)
  <2>1. /\ request[r] \in InProgress /\ request[r].pc = "save"
        /\ RequestOK(request[r]) /\ request[r].new = None
    BY <1>0, <1>4, SaveEffect, NotFree DEF RequestInv, RequestOK
  <2>2. /\ request'[r].pc = "answer" /\ request'[r].browser = request[r].browser
        /\ request'[r].provider = request[r].provider /\ request'[r].flow = request[r].flow
    BY <1>0, <1>4, SaveEffect
  <2>3. UNCHANGED owner
    BY <1>4 DEF Save, flowVars
  <2>4. request'[r].new # None =>
           origin'[request'[r].new] = IF request[r].provider = "apple" THEN "apple" ELSE request[r].flow
    BY <1>0, <1>4, <2>1, SaveEffect DEF TypeOK
  <2>5. QED
    BY <2>1, <2>2, <2>3, <2>4 DEF RequestOK
<1>5. ASSUME NEW b \in Browsers, NEW p \in Providers, Disconnect(r, b, p) PROVE RequestOK(request[r])'
  <2>1. request'[r] = [pc |-> "delete", browser |-> b, provider |-> p, flow |-> None,
                       old |-> cookie[b], new |-> None]
    BY <1>0, <1>5, OpenEffect DEF Disconnect
  <2>2. QED
    BY <2>1 DEF RequestOK
<1>6. CASE Delete(r)
  <2>1. request[r] \in InProgress /\ request[r].new = None
    BY <1>0, <1>6, DeleteEffect, NotFree DEF RequestInv, RequestOK
  <2>2. request'[r].pc \in {"answer", "clear"} /\ request'[r].new = None
    BY <1>0, <1>6, <2>1, DeleteEffect
  <2>3. QED
    BY <2>2 DEF RequestOK
<1>7. CASE Answer(r) \/ Clear(r) \/ Restart
  BY <1>0, <1>7, AnswerEffect DEF Restart
<1>8. QED
  BY <1>0, <1>1, <1>2, <1>3, <1>4, <1>5, <1>6, <1>7, OthersKept DEF Next, Start, Lapse, Expire, vars

\* A flow is taken only out of the map.
LEMMA TakenStep ==
    ASSUME BaseInv, [Next]_vars, NEW r \in Requests, NEW f \in Flows, Taken(r, f)'
    PROVE  \/ Taken(r, f) /\ ~Save(r)
           \/ f \in pending /\ f \notin pending' /\ UNCHANGED origin
<1>0. TypeOK
  BY DEF BaseInv
<1>1. CASE Save(r)
  <2>1. request'[r].pc = "answer"
    BY <1>0, <1>1, SaveEffect
  <2>2. QED
    BY <2>1 DEF Taken
<1>2. CASE ~Save(r) /\ request'[r] = request[r]
  BY <1>2 DEF Taken
<1>3. ASSUME NEW b \in Browsers, NEW g \in Flows, Callback(r, b, g), request'[r] # request[r]
      PROVE  f \in pending /\ f \notin pending' /\ UNCHANGED origin
  <2>1. request' = [request EXCEPT ![r] =
              [pc |-> "save", browser |-> b, provider |-> "spotify", flow |-> g,
               old |-> cookie[b], new |-> None]] /\ g \in pending /\ pending' = pending \ {g}
        /\ UNCHANGED origin
    BY <1>3 DEF Callback, Consume, rowVars
  <2>2. request'[r] = [pc |-> "save", browser |-> b, provider |-> "spotify", flow |-> g,
                       old |-> cookie[b], new |-> None]
    BY <1>0, <2>1, OpenEffect DEF Providers
  <2>3. request'[r].flow = g
    BY <2>2
  <2>4. g = f
    BY <2>3 DEF Taken
  <2>5. QED
    BY <2>1, <2>4
<1>4. ASSUME NEW b \in Browsers, ConnectApple(r, b) PROVE FALSE
  <2>1. request'[r] = [pc |-> "save", browser |-> b, provider |-> "apple", flow |-> None,
                       old |-> cookie[b], new |-> None]
    BY <1>0, <1>4, OpenEffect DEF ConnectApple, Providers
  <2>2. request'[r].provider = "apple"
    BY <2>1
  <2>3. QED
    BY <2>2 DEF Taken
<1>5. ASSUME NEW b \in Browsers, NEW p \in Providers, Disconnect(r, b, p) PROVE FALSE
  <2>1. request'[r] = [pc |-> "delete", browser |-> b, provider |-> p, flow |-> None,
                       old |-> cookie[b], new |-> None]
    BY <1>0, <1>5, OpenEffect DEF Disconnect
  <2>2. request'[r].pc = "delete"
    BY <2>1
  <2>3. QED
    BY <2>2 DEF Taken
<1>6. ~Delete(r)
  BY <1>0, DeleteEffect DEF Taken
<1>7. CASE Answer(r) \/ Clear(r) \/ Restart
  <2>1. request'[r] = Free
    BY <1>0, <1>7, AnswerEffect DEF Restart
  <2>2. QED
    BY <2>1 DEF Taken
<1>8. QED
  BY <1>0, <1>1, <1>2, <1>3, <1>4, <1>5, <1>6, <1>7, OthersKept DEF Next, Start, Lapse, Expire, vars

\* A session's origin is a flow that somebody started and its request had taken.
LEMMA OriginTaken ==
    ASSUME BaseInv, [Next]_vars, NEW s \in SessionIds, origin'[s] \in Flows
    PROVE  \/ origin'[s] = origin[s]
           \/ \E r \in Requests : /\ Save(r) /\ Taken(r, origin'[s]) /\ owner[origin'[s]] # None
                                  /\ request'[r].new = s
                                  /\ \A t \in SessionIds : t # s => origin'[t] = origin[t]
<1>0. TypeOK /\ RequestInv
  BY DEF BaseInv
<1>1. CASE UNCHANGED origin
  BY <1>1
<1>2. ASSUME NEW r \in Requests, NEW t \in SessionIds,
             Save(r), request'[r].new = t,
             origin' = [origin EXCEPT ![t] =
                           IF request[r].provider = "apple" THEN "apple" ELSE request[r].flow],
             origin'[s] # origin[s]
      PROVE  /\ Taken(r, origin'[s]) /\ owner[origin'[s]] # None /\ t = s
             /\ \A u \in SessionIds : u # s => origin'[u] = origin[u]
  <2>1. t = s /\ origin'[s] = IF request[r].provider = "apple" THEN "apple" ELSE request[r].flow
    BY <1>0, <1>2 DEF TypeOK
  <2>2. request[r] \in InProgress /\ request[r] # Free /\ request[r].pc = "save"
    BY <1>0, <1>2, SaveEffect, NotFree
  <2>3. request[r].provider = "spotify" /\ origin'[s] = request[r].flow
    BY <2>1, <2>2, OriginsAssumption DEF InProgress, Providers
  <2>4. owner[request[r].flow] = request[r].browser /\ request[r].browser \in Browsers
    BY <1>0, <2>2, <2>3 DEF RequestInv, RequestOK, InProgress
  <2>5. QED
    BY <1>0, <1>2, <2>1, <2>2, <2>3, <2>4, NoneAssumption DEF Taken, TypeOK
<1>3. QED
  BY <1>1, <1>2, OriginStep

\* Only a new flow comes into the map.
LEMMA PendingStep ==
    ASSUME BaseInv, [Next]_vars, NEW f \in pending', f \notin pending
    PROVE  f \in Flows /\ owner[f] = None /\ UNCHANGED <<origin, request>>
<1>1. ASSUME NEW b \in Browsers, NEW g \in Flows, Start(b, g)
      PROVE  f \in Flows /\ owner[f] = None /\ UNCHANGED <<origin, request>>
  BY <1>1 DEF Start, rowVars
<1>2. pending' \subseteq pending \/ \E b \in Browsers, g \in Flows : Start(b, g)
  BY DEF Next, Lapse, Callback, Consume, ConnectApple, Save, Answer, Disconnect, Delete, Clear, Expire, Restart,
         flowVars, vars
<1>3. QED
  BY <1>1, <1>2

\* A flow stays in one place at a time.
LEMMA UseStep == BaseInv /\ [Next]_vars => UseInv'
<1> SUFFICES ASSUME BaseInv, [Next]_vars PROVE UseInv'
  OBVIOUS
<1>0. TypeOK /\ FlowInv /\ RequestInv /\ UseInv /\ JarType'
  BY JarStep DEF BaseInv
<1>1. ASSUME NEW s \in SessionIds, origin'[s] \in Flows PROVE owner'[origin'[s]] # None
  <2>1. owner[origin'[s]] # None
    BY <1>0, <1>1, OriginTaken DEF UseInv
  <2>2. QED
    BY <1>1, <2>1, OwnerStep
<1>2. ASSUME NEW f \in Flows, NEW r \in Requests, Taken(r, f)
      PROVE  owner[f] # None
  BY <1>0, <1>2, NotFree, NoneAssumption DEF Taken, RequestInv, RequestOK, InProgress
<1>3. ASSUME NEW f \in Flows, NEW r \in Requests, Taken(r, f)'
      PROVE  /\ f \notin pending'
             /\ \A s \in SessionIds : origin'[s] # f
             /\ \A q \in Requests : Taken(q, f)' => q = r
  <2>1. CASE Taken(r, f) /\ ~Save(r)
    <3>1. f \notin pending /\ (\A s \in SessionIds : origin[s] # f) /\ \A q \in Requests : Taken(q, f) => q = r
      BY <1>0, <2>1 DEF UseInv
    <3>2. f \notin pending'
      BY <1>2, <2>1, <3>1, PendingStep
    <3>3. \A s \in SessionIds : origin'[s] # f
      BY <2>1, <3>1, OriginTaken
    <3>4. \A q \in Requests : Taken(q, f)' => q = r
      BY <3>1, TakenStep
    <3>5. QED
      BY <3>2, <3>3, <3>4
  <2>2. CASE f \in pending /\ f \notin pending' /\ UNCHANGED origin
    <3>1. \A s \in SessionIds : origin'[s] # f
      BY <1>0, <2>2 DEF UseInv
    <3>2. ASSUME NEW q \in Requests, Taken(q, f)' PROVE q = r
      <4>1. ~Taken(q, f) /\ ~Taken(r, f)
        BY <1>0, <2>2 DEF UseInv
      <4>2. ASSUME NEW v \in Requests, Taken(v, f)', ~Taken(v, f)
            PROVE  \E b \in Browsers, g \in Flows : Callback(v, b, g)
        <5>1. request'[v] # request[v]
          BY <4>2 DEF Taken
        <5>2. ~\E u \in Requests : Save(u) \/ Answer(u) \/ Delete(u) \/ Clear(u)
          BY <2>2 DEF Save, Answer, Delete, Clear, flowVars
        <5>3. ~\E u \in Requests, b \in Browsers : ConnectApple(u, b)
          BY <2>2 DEF ConnectApple, flowVars
        <5>4. ~\E u \in Requests, b \in Browsers, p \in Providers : Disconnect(u, b, p)
          BY <2>2 DEF Disconnect, flowVars
        <5>5. ~Restart
          BY <1>0, <4>2 DEF Restart, Taken
        <5>6. QED
          BY <1>0, <5>1, <5>2, <5>3, <5>4, <5>5, OthersKept DEF Next, Start, Lapse, Expire, vars
      <4>3. CASE q # r
        <5>1. PICK b \in Browsers, g \in Flows : Callback(q, b, g)
          BY <3>2, <4>1, <4>2
        <5>2. request'[r] = request[r]
          BY <1>0, <4>3, <5>1 DEF Callback, TypeOK
        <5>3. QED
          BY <1>3, <4>1, <5>2 DEF Taken
      <4>4. QED
        BY <4>3
    <3>3. QED
      BY <2>2, <3>1, <3>2
  <2>3. QED
    BY <1>3, <2>1, <2>2, TakenStep
<1>4. ASSUME NEW f \in pending', NEW s \in SessionIds PROVE origin'[s] # f
  <2>1. f \in Flows
    BY <1>0 DEF JarType
  <2>2. CASE f \in pending
    BY <1>0, <2>1, <2>2, OriginTaken DEF UseInv
  <2>3. CASE f \notin pending
    BY <1>0, <2>3, PendingStep DEF UseInv
  <2>4. QED
    BY <2>2, <2>3
<1>5. QED
  BY <1>1, <1>3, <1>4 DEF UseInv

----------------------------------------------------------------------------
(* Who has a session.                                                      *)

\* A browser comes to hold a session only when one of its requests creates it.
LEMMA HoldsStep ==
    ASSUME BaseInv, [Next]_vars, NEW b \in Browsers, NEW s \in SessionIds, Holds(b, s)'
    PROVE  \/ Holds(b, s)
           \/ \E r \in Requests : /\ Save(r) /\ request'[r].new = s /\ request[r].new # s
                                  /\ request[r].browser = b /\ origin[s] = "unused"
<1>0. TypeOK /\ s # None
  BY NoneAssumption DEF BaseInv
<1>1. CASE cookie'[b] = s
  <2>1. CASE cookie'[b] = cookie[b]
    BY <1>1, <2>1 DEF Holds
  <2>2. ASSUME NEW r \in Requests, Answer(r), cookie'[b] # cookie[b] PROVE Holds(b, s)
    <3>1. request[r] \in InProgress /\ request[r] # Free
      BY <1>0, <2>2, AnswerEffect, NotFree
    <3>2. cookie' = [cookie EXCEPT ![request[r].browser] = request[r].new]
      BY <2>2 DEF Answer
    <3>3. request[r].browser = b /\ request[r].new = s
      BY <1>0, <1>1, <2>2, <3>2 DEF TypeOK
    <3>4. QED
      BY <3>1, <3>3 DEF Holds
  <2>3. ASSUME NEW r \in Requests, Clear(r) PROVE cookie'[b] = cookie[b]
    BY <1>0, <1>1, <2>3 DEF Clear, TypeOK
  <2>4. QED
    BY <2>1, <2>2, <2>3
    DEF Next, Start, Lapse, Callback, ConnectApple, Save, Disconnect, Delete, Expire, Restart, jarVars, vars
<1>2. ASSUME NEW r \in Requests, request'[r] # Free, request'[r].browser = b,
             s \in {request'[r].old, request'[r].new}
      PROVE  \/ Holds(b, s)
             \/ /\ Save(r) /\ request'[r].new = s /\ request[r].new # s
                /\ request[r].browser = b /\ origin[s] = "unused"
  <2>1. CASE request'[r] = request[r]
    BY <1>2, <2>1 DEF Holds
  <2>2. ASSUME NEW c \in Browsers, NEW p \in Providers, NEW f \in Flows \cup {None},
               NEW at \in {"save", "delete"},
               request' = [request EXCEPT ![r] =
                  [pc |-> at, browser |-> c, provider |-> p, flow |-> f,
                   old |-> cookie[c], new |-> None]]
        PROVE  Holds(b, s)
    <3>1. request'[r] = [pc |-> at, browser |-> c, provider |-> p, flow |-> f,
                         old |-> cookie[c], new |-> None]
      BY <1>0, <2>2, OpenEffect
    <3>2. request'[r].browser = c /\ request'[r].old = cookie[c] /\ request'[r].new = None
      BY <3>1
    <3>3. QED
      BY <1>0, <1>2, <3>2 DEF Holds
  <2>3. ASSUME NEW c \in Browsers, NEW f \in Flows, Callback(r, c, f), request'[r] # request[r]
        PROVE  Holds(b, s)
    BY <2>2, <2>3 DEF Callback, Providers
  <2>4. ASSUME NEW c \in Browsers, ConnectApple(r, c) PROVE Holds(b, s)
    BY <2>2, <2>4 DEF ConnectApple, Providers
  <2>5. CASE Save(r)
    <3>1. /\ request[r] # Free /\ request[r].browser = b /\ request'[r].old = request[r].old
      BY <1>0, <1>2, <2>5, SaveEffect, NotFree
    <3>2. CASE s \in {request[r].old, request[r].new}
      BY <3>1, <3>2 DEF Holds
    <3>3. CASE s \notin {request[r].old, request[r].new}
      <4>1. request'[r].new = s /\ request'[r].new # request[r].new
        BY <1>2, <3>1, <3>3
      <4>2. origin[s] = "unused"
        BY <1>0, <2>5, <4>1, SaveEffect
      <4>3. QED
        BY <2>5, <3>1, <4>1, <4>2
    <3>4. QED
      BY <3>2, <3>3
  <2>6. ASSUME NEW c \in Browsers, NEW p \in Providers, Disconnect(r, c, p) PROVE Holds(b, s)
    BY <2>2, <2>6 DEF Disconnect
  <2>7. CASE Delete(r)
    <3>1. /\ request[r] # Free /\ request[r].browser = b
          /\ request'[r].old = request[r].old /\ request'[r].new = request[r].new
      BY <1>0, <1>2, <2>7, DeleteEffect, NotFree
    <3>2. QED
      BY <1>2, <3>1 DEF Holds
  <2>8. CASE Answer(r) \/ Clear(r) \/ Restart
    BY <1>0, <1>2, <2>8, AnswerEffect DEF Restart
  <2>9. QED
    BY <1>0, <2>1, <2>3, <2>4, <2>5, <2>6, <2>7, <2>8, OthersKept DEF Next, Start, Lapse, Expire, vars
<1>3. QED
  BY <1>1, <1>2 DEF Holds

\* Two browsers never hold the same session.
LEMMA HoldStep == BaseInv /\ [Next]_vars => HoldInv'
<1> SUFFICES ASSUME BaseInv, [Next]_vars PROVE HoldInv'
  OBVIOUS
<1>0. TypeOK /\ HoldInv
  BY DEF BaseInv
<1>1. ASSUME NEW s \in SessionIds, NEW b \in Browsers, Holds(b, s)' PROVE origin'[s] # "unused"
  BY <1>0, <1>1, HoldsStep, OriginKept DEF HoldInv
<1>2. ASSUME NEW r \in Requests, NEW q \in Requests, Save(r), Save(q),
             request'[r].new # request[r].new, request'[q].new # request[q].new
      PROVE  r = q
  BY <1>0, <1>2, SaveEffect
<1>3. ASSUME NEW s \in SessionIds, NEW b \in Browsers, NEW c \in Browsers, Holds(b, s)', Holds(c, s)'
      PROVE  b = c
  BY <1>0, <1>2, <1>3, HoldsStep DEF HoldInv
<1>4. QED
  BY <1>1, <1>3 DEF HoldInv

\* The base of the invariants is inductive.
LEMMA BaseInvariant == Spec => []BaseInv
<1>1. BaseInv /\ [Next]_vars => BaseInv'
  <2> SUFFICES ASSUME BaseInv, [Next]_vars PROVE BaseInv'
    OBVIOUS
  <2>1. JarType' /\ StoredType' /\ FlowInv' /\ RequestInv' /\ UseInv' /\ HoldInv'
    BY JarStep, StoredStep, FlowStep, RequestStep, UseStep, HoldStep
  <2>2. TypeOK'
    BY <2>1 DEF TypeOK, JarType, StoredType
  <2>3. QED
    BY <2>1, <2>2 DEF BaseInv
<1>2. QED
  BY InitBase, <1>1, PTL DEF Spec

\* Every variable keeps its type; in particular no session ever has rows with
\* both providers, whatever order callbacks and connects are saved in.
THEOREM TypeInvariant == Spec => []TypeOK
<1>1. BaseInv => TypeOK
  BY DEF BaseInv
<1>2. QED
  BY BaseInvariant, <1>1, PTL

\* An authorization gives at most one session, however many callbacks carry its
\* state at the same time.
THEOREM FlowsUsedOnce == Spec => []SingleUse
<1>1. Init => SingleUse
  BY OriginsAssumption DEF Init, SingleUse
<1>2. ASSUME BaseInv, SingleUse, [Next]_vars PROVE SingleUse'
  <2> SUFFICES ASSUME NEW s \in SessionIds, NEW t \in SessionIds,
                      origin'[s] \in Flows, origin'[s] = origin'[t]
               PROVE  s = t
    BY DEF SingleUse
  <2>1. CASE origin'[s] = origin[s] /\ origin'[t] = origin[t]
    BY <1>2, <2>1 DEF SingleUse
  <2>2. ASSUME NEW r \in Requests, NEW x \in SessionIds, NEW y \in SessionIds, x # y,
               Taken(r, origin'[x]), origin'[x] \in Flows,
               \A u \in SessionIds : u # x => origin'[u] = origin[u]
        PROVE  origin'[y] # origin'[x]
    BY <1>2, <2>2 DEF BaseInv, UseInv
  <2>3. QED
    BY <1>2, <2>1, <2>2, OriginTaken
<1>3. QED
  BY <1>1, <1>2, BaseInvariant, PTL DEF Spec

\* A browser's Spotify session comes from a flow that browser started.
THEOREM SessionsFromOwnFlows == Spec => []FlowBoundToBrowser
<1>1. Init => FlowBoundToBrowser
  BY DEF Init, FlowBoundToBrowser
<1>2. ASSUME BaseInv, FlowBoundToBrowser, [Next]_vars PROVE FlowBoundToBrowser'
  <2>0. TypeOK /\ UseInv /\ HoldInv /\ RequestInv /\ JarType'
    BY <1>2, JarStep DEF BaseInv
  <2> SUFFICES ASSUME NEW b \in Browsers, cookie'[b] # None, origin'[cookie'[b]] \in Flows
               PROVE  owner'[origin'[cookie'[b]]] = b
    BY DEF FlowBoundToBrowser
  <2>1. cookie'[b] \in SessionIds
    BY <2>0 DEF JarType
  <2>2. CASE cookie'[b] = cookie[b]
    <3>1. origin[cookie[b]] # "unused"
      BY <2>0, <2>1, <2>2 DEF HoldInv, Holds
    <3>2. origin'[cookie'[b]] = origin[cookie[b]]
      BY <1>2, <2>1, <2>2, <3>1, OriginKept
    <3>3. owner[origin[cookie[b]]] = b
      BY <1>2, <2>2, <3>2 DEF FlowBoundToBrowser
    <3>4. QED
      BY <1>2, <3>2, <3>3, OwnerStep, NoneAssumption
  <2>3. ASSUME NEW r \in Requests, Answer(r), cookie'[b] # cookie[b]
        PROVE  owner'[origin'[cookie'[b]]] = b
    <3>1. request[r] \in InProgress /\ RequestOK(request[r])
      BY <2>0, <2>3, AnswerEffect, NotFree DEF RequestInv
    <3>2. cookie' = [cookie EXCEPT ![request[r].browser] = request[r].new]
          /\ UNCHANGED <<origin, owner>>
      BY <2>3 DEF Answer, flowVars, rowVars
    <3>3. request[r].browser = b /\ request[r].new = cookie'[b]
      BY <2>0, <2>3, <3>2 DEF TypeOK
    <3>4. origin[cookie'[b]] = IF request[r].provider = "apple" THEN "apple" ELSE request[r].flow
      BY <3>1, <3>3 DEF RequestOK
    <3>5. request[r].provider = "spotify"
      BY <3>1, <3>2, <3>4, OriginsAssumption DEF InProgress, Providers
    <3>6. QED
      BY <3>1, <3>2, <3>3, <3>4, <3>5 DEF RequestOK
  <2>4. ASSUME NEW r \in Requests, Clear(r) PROVE cookie'[b] = cookie[b]
    BY <2>0, <2>4 DEF Clear, TypeOK
  <2>5. QED
    BY <1>2, <2>2, <2>3, <2>4
    DEF Next, Start, Lapse, Callback, ConnectApple, Save, Disconnect, Delete, Expire, Restart, jarVars, vars
<1>3. QED
  BY <1>1, <1>2, BaseInvariant, PTL DEF Spec

\* What one browser sends or loses never removes the credentials that another
\* browser's session stands for.
THEOREM BrowsersIndependent == Spec => Independent
<1>1. ASSUME BaseInv, [Next]_vars, NEW b \in Browsers, NEW p \in Providers,
             cookie[b] \in stored[p], cookie[b] \notin stored'[p]
      PROVE  \/ cookie[b] \in expired
             \/ cookie'[b] # cookie[b]
             \/ \E r \in Requests : request[r] # Free /\ request[r].browser = b
  <2>0. TypeOK /\ StoredType /\ HoldInv /\ cookie[b] \in SessionIds
    BY <1>1, TypeParts, NoneAssumption DEF BaseInv, TypeOK
  <2>1. ASSUME NEW r \in Requests, Save(r), cookie[b] \notin expired
        PROVE  request[r] # Free /\ request[r].browser = b
    <3>1. request[r] \in InProgress /\ request[r] # Free /\ request[r].browser \in Browsers
      BY <2>0, <2>1, SaveEffect, NotFree DEF InProgress
    <3>2. request[r].old = cookie[b]
      BY <1>1, <2>0, <2>1, SaveEffect DEF Purge, StoredType
    <3>3. Holds(request[r].browser, cookie[b]) /\ Holds(b, cookie[b])
      BY <3>1, <3>2 DEF Holds
    <3>4. QED
      BY <2>0, <3>1, <3>3 DEF HoldInv
  <2>2. ASSUME NEW r \in Requests, Delete(r)
        PROVE  request[r] # Free /\ request[r].browser = b
    <3>1. request[r] \in InProgress /\ request[r] # Free /\ request[r].browser \in Browsers
      BY <2>0, <2>2, DeleteEffect, NotFree DEF InProgress
    <3>2. request[r].old = cookie[b]
      BY <1>1, <2>0, <2>2, DeleteEffect DEF StoredType
    <3>3. Holds(request[r].browser, cookie[b]) /\ Holds(b, cookie[b])
      BY <3>1, <3>2 DEF Holds
    <3>4. QED
      BY <2>0, <3>1, <3>3 DEF HoldInv
  <2>3. QED
    BY <1>1, <2>1, <2>2
    DEF Next, Start, Lapse, Callback, ConnectApple, Answer, Disconnect, Clear, Expire, Restart, rowVars, vars
<1>2. ASSUME BaseInv, [Next]_vars
      PROVE  \A b \in Browsers, p \in Providers :
                cookie[b] \in stored[p] /\ cookie[b] \notin stored'[p]
                   => \/ cookie[b] \in expired
                      \/ cookie'[b] # cookie[b]
                      \/ \E r \in Requests : request[r] # Free /\ request[r].browser = b
  BY <1>1, <1>2
<1>3. QED
  BY <1>2, BaseInvariant, PTL DEF Spec, Independent

\* However many authorizations are abandoned, at most MaxPending are kept.
THEOREM PendingWithinLimit == Spec => []PendingBounded
<1>1. Init => PendingInv
  BY FS_EmptySet, PendingAssumption DEF Init, PendingInv, PendingBounded
<1>2. ASSUME PendingInv, [Next]_vars PROVE PendingInv'
  <2>0. IsFiniteSet(pending) /\ Cardinality(pending) \in Nat /\ Cardinality(pending) <= MaxPending
    BY <1>2, FS_CardinalityType DEF PendingInv, PendingBounded
  <2>1. ASSUME NEW S, S \subseteq pending
        PROVE  IsFiniteSet(S) /\ Cardinality(S) \in Nat /\ Cardinality(S) <= MaxPending
    <3>1. IsFiniteSet(S) /\ Cardinality(S) <= Cardinality(pending)
      BY <2>0, <2>1, FS_Subset
    <3>2. Cardinality(S) \in Nat
      BY <3>1, FS_CardinalityType
    <3>3. QED
      BY <2>0, <3>1, <3>2, PendingAssumption
  <2>2. CASE pending' \subseteq pending
    BY <2>1, <2>2 DEF PendingInv, PendingBounded
  <2>3. ASSUME NEW b \in Browsers, NEW f \in Flows, Start(b, f) PROVE PendingInv'
    <3> DEFINE kept == pending \ lapsed
    <3>1. IsFiniteSet(kept) /\ Cardinality(kept) \in Nat
      BY <2>1
    <3>2. CASE pending' = kept
      BY <2>2, <3>2
    <3>3. CASE pending' = kept \cup {f} /\ ~Full(kept)
      <4> HIDE DEF kept
      <4>1. Cardinality(kept) < MaxPending
        BY <3>1, <3>3, PendingAssumption DEF Full
      <4>2. IsFiniteSet(kept \cup {f})
            /\ (\/ Cardinality(kept \cup {f}) = Cardinality(kept)
                \/ Cardinality(kept \cup {f}) = Cardinality(kept) + 1)
        BY <3>1, FS_AddElement, Zenon
      <4>3. Cardinality(pending') <= MaxPending
        BY <3>1, <3>3, <4>1, <4>2, PendingAssumption
      <4>4. QED
        BY <3>3, <4>2, <4>3 DEF PendingInv, PendingBounded
    <3>4. QED
      BY <2>3, <3>2, <3>3 DEF Start
  <2>4. QED
    BY <1>2, <2>2, <2>3
    DEF Next, Lapse, Callback, Consume, ConnectApple, Save, Answer, Disconnect, Delete, Clear, Expire, Restart,
        flowVars, vars
<1>3. PendingInv => PendingBounded
  BY DEF PendingInv
<1>4. QED
  BY <1>1, <1>2, <1>3, PTL DEF Spec
=============================================================================
