------------------------- MODULE AssetServerProofs --------------------------
(* Proofs about AssetServer: for any number of requests, any number of slots,  *)
(* any limit and any behaviour of the origin, the file and the clients.        *)
EXTENDS AssetServer, FiniteSetTheorems, TLAPS

\* Most leaves are set and function reasoning: Zenon first, then SMT, then Zenon with time.
USE ZenonT(3), SMTT(60), ZenonT(60)

\* Counting requests: one that joins or leaves a set changes its size by one.
LEMMA Counting ==
  ASSUME NEW S \in SUBSET Requests, NEW r \in Requests
  PROVE  /\ Cardinality(S) \in Nat
         /\ r \notin S => Cardinality(S \cup {r}) = Cardinality(S) + 1
         /\ r \in S => Cardinality(S \ {r}) = Cardinality(S) - 1 /\ Cardinality(S) > 0
<1>1. IsFiniteSet(S)
  BY FS_Subset, AssetServerAssumption
<1>2. Cardinality(S) \in Nat
  BY <1>1, FS_CardinalityType
<1>3. r \notin S => Cardinality(S \cup {r}) = Cardinality(S) + 1
  BY <1>1, FS_AddElement
<1>4. r \in S => Cardinality(S \ {r}) = Cardinality(S) - 1
  BY <1>1, FS_RemoveElement
<1>5. r \in S => Cardinality(S) # 0
  BY <1>1, FS_EmptySet
<1>. QED
  BY <1>2, <1>3, <1>4, <1>5

-----------------------------------------------------------------------------
(* What the invariant says of one request. *)

LimitOK(q) == TooLarge(q, q.sent) => q.fd # 0 /\ sizes[q.fd] > q.checked

WholeOK(q) ==
  (/\ q.pc = "return" /\ "proxied" \in q.flags /\ q.logged < 400
   /\ MaxSegmentBytes < MaxInt64) => q.sent = q.size

SteadyOK(q) ==
  (Mode # "proxy" /\ "steady" \in q.flags) =>
    /\ q.pc # "proxy" /\ "proxied" \notin q.flags
    /\ q.status # 404
    /\ q.status = 500 => "failed" \in q.flags

Good(q) == q \in Request /\ RequestInv(q) /\ LimitOK(q) /\ WholeOK(q) /\ SteadyOK(q)

\* The invariant is TypeOK, the gauges, and Good for each request.
LEMMA Split ==
  ServerInv <=> TypeOK /\ UpstreamBounded /\ \A r \in Requests : Good(req[r])
BY DEF ServerInv, TypeOK, Good, LimitOK, WholeOK, SteadyOK, LimitRespected, LoggedOkIsWhole,
   SteadyFileServed

Holding == {"upstream", "copy", "panic"}

\* A step of the handler of r keeps the invariant if it leaves the files alone,
\* leaves r in a good state, and moves the gauges as r enters or leaves
\* ServeProxy and the server.
LEMMA HandlerStep ==
  ASSUME ServerInv, NEW r \in Requests, NEW q, Good(q),
         req' = [req EXCEPT ![r] = q],
         UNCHANGED givenVars,
         faults' \in Nat,
         slots' = IF Slots = 0 THEN slots
                  ELSE IF q.pc \in Holding /\ req[r].pc \notin Holding THEN slots + 1
                  ELSE IF q.pc \notin Holding /\ req[r].pc \in Holding THEN slots - 1
                  ELSE slots,
         upstreamInFlight' = slots',
         slots' <= slots \/ slots < Slots,
         httpInFlight' = IF q.pc # "idle" /\ req[r].pc = "idle" THEN httpInFlight + 1
                         ELSE IF q.pc = "idle" /\ req[r].pc # "idle" THEN httpInFlight - 1
                         ELSE httpInFlight
  PROVE  ServerInv'
<1>. USE Split
<1>1. /\ req'[r] = q
      /\ \A x \in Requests \ {r} : req'[x] = req[x]
      /\ req' \in [Requests -> Request]
  BY DEF TypeOK, Good
<1>2. \A x \in Requests : Good(req[x])'
  <2>. SUFFICES ASSUME NEW x \in Requests PROVE Good(req[x])'
    OBVIOUS
  <2>1. \A y : Good(y)' <=> Good(y)
    BY DEF Good, RequestInv, LimitOK, WholeOK, SteadyOK, givenVars, TooLarge
  <2>. QED
    BY <1>1, <2>1
<1>3. httpInFlight' = Cardinality({x \in Requests : req'[x].pc # "idle"})
  <2>. DEFINE B == {x \in Requests : req[x].pc # "idle"}
              C == {x \in Requests : req'[x].pc # "idle"}
  <2>1. httpInFlight = Cardinality(B)
    BY DEF UpstreamBounded
  <2>2. CASE q.pc # "idle" /\ req[r].pc = "idle"
    <3>1. C = B \cup {r} /\ r \notin B
      BY <1>1, <2>2
    <3>. QED
      BY <2>1, <2>2, <3>1, Counting
  <2>3. CASE q.pc = "idle" /\ req[r].pc # "idle"
    <3>1. C = B \ {r} /\ r \in B
      BY <1>1, <2>3
    <3>. QED
      BY <2>1, <2>3, <3>1, Counting
  <2>4. CASE q.pc = "idle" <=> req[r].pc = "idle"
    <3>1. C = B
      BY <1>1, <2>4
    <3>. QED
      BY <2>1, <2>4, <3>1
  <2>. QED
    BY <2>2, <2>3, <2>4
<1>4. ASSUME Slots > 0
      PROVE  slots' = Cardinality(Holders') /\ slots' \in Nat
  <2>1. slots = Cardinality(Holders) /\ Holders \in SUBSET Requests /\ slots <= Slots
    BY <1>4 DEF UpstreamBounded, Holders
  <2>2. Slots \in Nat /\ slots \in Nat
    BY AssetServerAssumption DEF TypeOK
  <2>3. CASE q.pc \in Holding /\ req[r].pc \notin Holding
    <3>1. Holders' = Holders \cup {r} /\ r \notin Holders
      BY <1>1, <2>3 DEF Holders, Holding
    <3>. QED
      BY <1>4, <2>1, <2>2, <2>3, <3>1, Counting
  <2>4. CASE q.pc \notin Holding /\ req[r].pc \in Holding
    <3>1. Holders' = Holders \ {r} /\ r \in Holders
      BY <1>1, <2>4 DEF Holders, Holding
    <3>. QED
      BY <1>4, <2>1, <2>2, <2>4, <3>1, Counting
  <2>5. CASE q.pc \in Holding <=> req[r].pc \in Holding
    <3>1. Holders' = Holders
      BY <1>1, <2>5 DEF Holders, Holding
    <3>. QED
      BY <1>4, <2>1, <2>2, <2>5, <3>1
  <2>. QED
    BY <2>3, <2>4, <2>5
<1>5. slots' \in Nat
  <2>1. Slots \in Nat
    BY AssetServerAssumption
  <2>2. CASE Slots = 0
    BY <2>2 DEF TypeOK
  <2>. QED
    BY <1>4, <2>1, <2>2
<1>6. upstreamInFlight' = slots' /\ slots' <= Slots
  <2>1. Slots \in Nat
    BY AssetServerAssumption
  <2>2. slots \in Nat /\ slots <= Slots /\ upstreamInFlight = slots
    BY DEF UpstreamBounded, TypeOK
  <2>3. slots' = slots \/ slots' = slots + 1 \/ slots' = slots - 1
    BY Zenon
  <2>4. slots' <= Slots
    BY <1>5, <2>1, <2>2, <2>3
  <2>. QED
    BY <2>4
<1>7. UpstreamBounded'
  BY <1>3, <1>4, <1>6 DEF UpstreamBounded
<1>8. httpInFlight' \in Int
  BY DEF TypeOK
<1>9. TypeOK'
  BY <1>1, <1>5, <1>8 DEF TypeOK, givenVars
<1>10. LimitRespected' /\ LoggedOkIsWhole' /\ SteadyFileServed'
  BY <1>2 DEF Good, LimitOK, WholeOK, SteadyOK, LimitRespected, LoggedOkIsWhole,
     SteadyFileServed
<1>. QED
  BY <1>2, <1>7, <1>9, <1>10 DEF ServerInv, Good

-----------------------------------------------------------------------------
(* The steps of a handler, one lemma for each group of actions. *)

\* What the types say (TypeOK), and that each request is good.
LEMMA Here ==
  ASSUME ServerInv
  PROVE  /\ \A r \in Requests : Good(req[r]) /\ req[r] \in Request
         /\ slots \in Nat /\ upstreamInFlight = slots /\ httpInFlight \in Int
         /\ ino \in 1 .. MaxFiles /\ sizes \in [1 .. MaxFiles -> Nat]
         /\ faults \in Nat /\ Slots \in Nat /\ MaxSegmentBytes \in Nat /\ MaxFiles \in Nat
BY Split, AssetServerAssumption DEF TypeOK, Good, UpstreamBounded

\* What Wrote and Answer leave alone and what they set (the ResponseWriter
\* wrappers).
LEMMA WroteFields ==
  ASSUME NEW q \in Request, NEW status \in Nat, NEW w,
         w = Wrote(q, status) \/ w = Answer(q, status)
  PROVE  /\ w \in Request
         /\ w.fd = q.fd /\ w.checked = q.checked /\ w.size = q.size /\ w.left = q.left
         /\ w.read = q.read /\ w.sent = q.sent /\ w.logged = status /\ w.ctx = q.ctx
         /\ w.status = IF q.status = 0 THEN status ELSE q.status
         /\ w.flags = q.flags
         /\ w = Wrote(q, status) => w.pc = q.pc
         /\ w = Answer(q, status) => w.pc = "return"
<1>. /\ Wrote(q, status) \in Request /\ Answer(q, status) \in Request
     /\ Wrote(q, status).pc = q.pc /\ Answer(q, status).pc = "return"
  BY DEF Wrote, Answer, Request
<1>1. CASE w = Wrote(q, status)
  BY <1>1 DEF Wrote, Request
<1>2. CASE w = Answer(q, status)
  BY <1>2 DEF Wrote, Answer, Request
<1>. QED
  BY <1>1, <1>2

\* A step that neither enters nor leaves ServeProxy or the server.
LEMMA PlainStep ==
  ASSUME ServerInv, NEW r \in Requests, NEW q, Good(q),
         req' = [req EXCEPT ![r] = q],
         q.pc # "idle", req[r].pc # "idle",
         q.pc \in Holding <=> req[r].pc \in Holding,
         UNCHANGED <<givenVars, gaugeVars, httpInFlight>>,
         faults' \in Nat
  PROVE  ServerInv'
<1>1. slots \in Nat /\ upstreamInFlight = slots /\ httpInFlight \in Int
  BY Here
<1>2. UNCHANGED givenVars /\ UNCHANGED slots /\ UNCHANGED upstreamInFlight
      /\ UNCHANGED httpInFlight
  BY DEF gaugeVars
<1>3. slots' = IF Slots = 0 THEN slots
               ELSE IF q.pc \in Holding /\ req[r].pc \notin Holding THEN slots + 1
               ELSE IF q.pc \notin Holding /\ req[r].pc \in Holding THEN slots - 1
               ELSE slots
  BY <1>2
<1>4. httpInFlight' = IF q.pc # "idle" /\ req[r].pc = "idle" THEN httpInFlight + 1
                      ELSE IF q.pc = "idle" /\ req[r].pc # "idle" THEN httpInFlight - 1
                      ELSE httpInFlight
  BY <1>2
<1>5. upstreamInFlight' = slots' /\ slots' <= slots
  BY <1>1, <1>2
<1>. QED
  BY <1>2, <1>3, <1>4, <1>5, HandlerStep

\* A step that leaves ServeProxy, with its deferred calls.
LEMMA LeaveStep ==
  ASSUME ServerInv, NEW r \in Requests, NEW q, Good(q),
         req' = [req EXCEPT ![r] = q],
         q.pc = "return", req[r].pc \in Holding,
         Release,
         UNCHANGED <<givenVars, httpInFlight>>,
         faults' \in Nat
  PROVE  ServerInv'
<1>1. slots \in Nat /\ upstreamInFlight = slots /\ httpInFlight \in Int /\ Slots \in Nat
  BY Here
<1>2. UNCHANGED givenVars /\ UNCHANGED httpInFlight
  OBVIOUS
<1>3. IF Slots = 0 THEN slots = 0 ELSE slots > 0
  <2>1. Holders \in SUBSET Requests /\ r \in Holders
    BY DEF Holders, Holding
  <2>2. Cardinality(Holders) > 0
    BY <2>1, Counting
  <2>. QED
    BY <1>1, <2>2, Split DEF UpstreamBounded
<1>4. q.pc \notin Holding /\ q.pc # "idle" /\ req[r].pc # "idle"
  BY DEF Holding
<1>5. slots' = IF Slots = 0 THEN slots
               ELSE IF q.pc \in Holding /\ req[r].pc \notin Holding THEN slots + 1
               ELSE IF q.pc \notin Holding /\ req[r].pc \in Holding THEN slots - 1
               ELSE slots
  BY <1>1, <1>3, <1>4 DEF Release
<1>. QED
  <2>1. httpInFlight' = IF q.pc # "idle" /\ req[r].pc = "idle" THEN httpInFlight + 1
                        ELSE IF q.pc = "idle" /\ req[r].pc # "idle" THEN httpInFlight - 1
                        ELSE httpInFlight
    BY <1>2, <1>4
  <2>2. upstreamInFlight' = slots' /\ slots' <= slots
    BY <1>1, <1>3 DEF Release
  <2>. QED
    BY <1>2, <1>5, <2>1, <2>2, HandlerStep

\* A step by which a request comes in (HTTPMetrics counts it).
LEMMA EnterStep ==
  ASSUME ServerInv, NEW r \in Requests, NEW q, Good(q),
         req' = [req EXCEPT ![r] = q],
         req[r].pc = "idle", q.pc # "idle", q.pc \notin Holding,
         httpInFlight' = httpInFlight + 1,
         UNCHANGED <<givenVars, gaugeVars, faults>>
  PROVE  ServerInv'
<1>1. slots \in Nat /\ upstreamInFlight = slots /\ faults \in Nat
  BY Here
<1>2. UNCHANGED givenVars /\ slots' = slots /\ upstreamInFlight' = slots' /\ slots' <= slots
      /\ faults' \in Nat
  BY <1>1 DEF gaugeVars
<1>3. req[r].pc \notin Holding
  BY DEF Holding
<1>. QED
  BY <1>2, <1>3, HandlerStep

\* The state of a connection without a request: nothing looked at, read or sent
\* (NoRequest).
LEMMA NoRequestFields ==
  /\ NoRequest \in Request /\ NoRequest.pc = "idle" /\ NoRequest.fd = 0
  /\ NoRequest.sent = 0 /\ NoRequest.read = 0 /\ NoRequest.status = 0
  /\ NoRequest.flags = {}
<1>1. MaxFiles \in Nat
  BY AssetServerAssumption
<1>2. 0 \in 0 .. MaxFiles
  BY <1>1
<1>3. NoRequest \in Request
  BY <1>2 DEF NoRequest, Request
<1>. QED
  BY <1>3 DEF NoRequest

\* A request whose method or path is refused is good (Reject).
LEMMA RejectStep ==
  ASSUME ServerInv, NEW r \in Requests, NEW status \in Refusals, Reject(r, status)
  PROVE  ServerInv'
<1>. DEFINE q == Answer(NoRequest, status)
<1>0. ino \in 1 .. MaxFiles /\ MaxFiles \in Nat /\ MaxSegmentBytes \in Nat
  BY Here
<1>1. /\ NoRequest \in Request /\ NoRequest.fd = 0 /\ NoRequest.sent = 0
      /\ NoRequest.flags = {} /\ status \in Nat
  BY NoRequestFields DEF Refusals
<1>2. q \in Request /\ q.fd = 0 /\ q.sent = 0 /\ q.flags = {} /\ q.pc = "return"
  BY <1>1, WroteFields
<1>3. /\ req' = [req EXCEPT ![r] = q]
      /\ req[r].pc = "idle" /\ httpInFlight' = httpInFlight + 1
      /\ UNCHANGED <<givenVars, gaugeVars, faults>>
  BY DEF Reject
<1>. HIDE DEF q
<1>4. Good(q)
  BY <1>0, <1>2 DEF Good, RequestInv, LimitOK, WholeOK, SteadyOK, Before, TooLarge
<1>5. q.pc # "idle" /\ q.pc \notin Holding
  BY <1>2 DEF Holding
<1>. QED
  BY <1>3, <1>4, <1>5, EnterStep

\* A request that arrives is good (Arrive).
LEMMA ArriveStep ==
  ASSUME ServerInv, NEW r \in Requests, NEW ext \in {{}, {"segment"}}, Arrive(r, ext)
  PROVE  ServerInv'
<1>. DEFINE p == IF Mode = "proxy" THEN "proxy" ELSE "lstat"
            f == ext \cup (IF name = "file" THEN {"steady"} ELSE {})
            q == [NoRequest EXCEPT !.pc = p, !.flags = f]
<1>0. ino \in 1 .. MaxFiles /\ MaxFiles \in Nat /\ MaxSegmentBytes \in Nat
  BY Here
<1>1. /\ req' = [req EXCEPT ![r] = q]
      /\ req[r].pc = "idle" /\ httpInFlight' = httpInFlight + 1
      /\ UNCHANGED <<givenVars, gaugeVars, faults>>
  BY DEF Arrive
<1>2. /\ q \in Request
      /\ q.fd = 0 /\ q.sent = 0 /\ q.read = 0 /\ q.status = 0
      /\ q.flags \subseteq {"segment", "steady"}
      /\ "steady" \in q.flags => name = "file"
      /\ q.pc \in {"proxy", "lstat"}
      /\ q.pc = "proxy" => Mode = "proxy"
  <2>1. /\ p \in {"proxy", "lstat"} /\ (p = "proxy" => Mode = "proxy")
        /\ f \in SUBSET Flags /\ f \subseteq {"segment", "steady"}
        /\ "steady" \in f => name = "file"
    BY DEF Flags
  <2>2. /\ NoRequest \in Request /\ NoRequest.fd = 0 /\ NoRequest.sent = 0
        /\ NoRequest.read = 0 /\ NoRequest.status = 0
    BY NoRequestFields
  <2>. HIDE DEF p, f
  <2>3. q \in Request /\ q.pc = p /\ q.flags = f
    BY <2>1, <2>2 DEF Request
  <2>4. /\ q.fd = NoRequest.fd /\ q.sent = NoRequest.sent /\ q.read = NoRequest.read
        /\ q.status = NoRequest.status
    BY <2>2 DEF Request
  <2>. QED
    BY <2>1, <2>2, <2>3, <2>4
<1>. HIDE DEF q
<1>3. Good(q)
  BY <1>0, <1>2 DEF Good, RequestInv, LimitOK, WholeOK, SteadyOK, Before, TooLarge
<1>4. q.pc # "idle" /\ q.pc \notin Holding
  BY <1>2 DEF Holding
<1>. QED
  BY <1>1, <1>3, <1>4, EnterStep

\* A request that has been answered leaves nothing behind (Return).
LEMMA ReturnStep ==
  ASSUME ServerInv, NEW r \in Requests, Return(r)
  PROVE  ServerInv'
<1>0. /\ slots \in Nat /\ upstreamInFlight = slots /\ httpInFlight \in Int
      /\ ino \in 1 .. MaxFiles /\ faults \in Nat /\ Slots \in Nat /\ MaxFiles \in Nat
      /\ MaxSegmentBytes \in Nat
  BY Here
<1>1. /\ req' = [req EXCEPT ![r] = NoRequest]
      /\ req[r].pc = "return" /\ httpInFlight' = httpInFlight - 1
      /\ UNCHANGED <<givenVars, slots, upstreamInFlight, faults>>
  BY DEF Return, gaugeVars
<1>2. /\ NoRequest \in Request /\ NoRequest.pc = "idle" /\ NoRequest.fd = 0
      /\ NoRequest.sent = 0 /\ NoRequest.read = 0 /\ NoRequest.status = 0
      /\ NoRequest.flags = {}
  BY NoRequestFields
<1>3. Good(NoRequest)
  BY <1>0, <1>2 DEF Good, RequestInv, LimitOK, WholeOK, SteadyOK, Before, TooLarge
<1>4. NoRequest.pc \notin Holding /\ req[r].pc \notin Holding /\ req[r].pc # "idle"
  BY <1>1, <1>2 DEF Holding
<1>5. /\ slots' = slots /\ upstreamInFlight' = slots'
      /\ slots' <= slots /\ faults' \in Nat
  BY <1>0, <1>1
<1>. QED
  BY <1>1, <1>2, <1>3, <1>4, <1>5, HandlerStep

-----------------------------------------------------------------------------
(* The local file. *)

\* What a request past Arrive and before the proxy looks like after a local
\* failure (LocalFailed): answered, or on its way upstream if the name does not
\* mean one steady file.
LEMMA LocalFailedGood ==
  ASSUME ServerInv, NEW p \in Request, Good(p), p.pc \in {"lstat", "open"},
         NEW status \in {404, 413, 500},
         Mode # "proxy" /\ "steady" \in p.flags =>
           status = 413 \/ (status = 500 /\ "failed" \in p.flags),
         NEW q, q = LocalFailed(p, status)
  PROVE  Good(q) /\ q.pc \in {"proxy", "return"}
<1>0. ino \in 1 .. MaxFiles /\ MaxFiles \in Nat /\ MaxSegmentBytes \in Nat
  BY Here
<1>1. /\ p.sent = 0 /\ p.read = 0 /\ p.status = 0 /\ p.fd <= ino /\ p.fd \in Nat
      /\ "overflow" \notin p.flags /\ "limited" \notin p.flags /\ "proxied" \notin p.flags
      /\ "steady" \in p.flags /\ Mode # "proxy" => name = "file"
  BY <1>0 DEF Good, RequestInv, Before, Request
<1>2. CASE q = [p EXCEPT !.pc = "proxy"] /\ status = 404
  <2>1. /\ q \in Request /\ q.pc = "proxy" /\ q.sent = p.sent /\ q.read = p.read
        /\ q.status = p.status /\ q.flags = p.flags /\ q.fd = p.fd
    BY <1>2 DEF Request
  <2>. QED
    BY <1>0, <1>1, <1>2, <2>1
       DEF Good, RequestInv, LimitOK, WholeOK, SteadyOK, Before, TooLarge
<1>3. CASE q = Answer(p, status)
  <2>1. /\ q \in Request /\ q.pc = "return" /\ q.sent = p.sent
        /\ q.status = status /\ q.flags = p.flags /\ q.fd = p.fd
    BY <1>1, <1>3, WroteFields
  <2>. QED
    BY <1>0, <1>1, <2>1
       DEF Good, RequestInv, LimitOK, WholeOK, SteadyOK, Before, TooLarge
<1>. QED
  BY <1>2, <1>3 DEF LocalFailed

\* Looking at the file keeps the invariant (the Lstat of OpenFileNoSymlinks).
LEMMA LstatStep ==
  ASSUME ServerInv, NEW r \in Requests, Lstat(r)
  PROVE  ServerInv'
<1>. DEFINE p == req[r]
            q == CASE name \in {"absent", "irregular"} -> LocalFailed(p, 404)
                   [] name = "unreadable" -> LocalFailed(p, 500)
                   [] OTHER -> [p EXCEPT !.pc = "open", !.fd = ino]
<1>0. /\ Good(p) /\ p \in Request /\ ino \in 1 .. MaxFiles /\ MaxFiles \in Nat
      /\ MaxSegmentBytes \in Nat /\ faults \in Nat
  BY Here
<1>1. /\ req' = [req EXCEPT ![r] = q] /\ p.pc = "lstat"
      /\ UNCHANGED <<givenVars, gaugeVars, httpInFlight>> /\ faults' = faults
  BY DEF Lstat
<1>2. name \in Kinds
  BY Split DEF TypeOK
<1>3. Good(q) /\ q.pc \in {"proxy", "return", "open"}
  <2>. HIDE DEF p
  <2>1. /\ p.sent = 0 /\ p.read = 0 /\ p.status = 0
        /\ "overflow" \notin p.flags /\ "limited" \notin p.flags /\ "proxied" \notin p.flags
        /\ "steady" \in p.flags /\ Mode # "proxy" => name = "file"
    BY <1>0, <1>1 DEF Good, RequestInv, Before
  <2>2. CASE name \in {"absent", "irregular"}
    <3>1. q = LocalFailed(p, 404)
      BY <2>2
    <3>. QED
      BY <1>0, <1>1, <2>1, <2>2, <3>1, LocalFailedGood
  <2>3. CASE name = "unreadable"
    <3>1. q = LocalFailed(p, 500)
      BY <2>3
    <3>. QED
      BY <1>0, <1>1, <2>1, <2>3, <3>1, LocalFailedGood
  <2>4. CASE name = "file"
    <3>0. q = [p EXCEPT !.pc = "open", !.fd = ino]
      BY <2>4
    <3>. HIDE DEF q
    <3>1. /\ q \in Request /\ q.pc = "open" /\ q.sent = p.sent /\ q.read = p.read
          /\ q.status = p.status /\ q.flags = p.flags /\ q.fd = ino
      <4>1. ino \in 0 .. MaxFiles
        BY <1>0
      <4>. QED
        BY <1>0, <3>0, <4>1 DEF Request
    <3>. QED
      BY <1>0, <2>1, <2>4, <3>1
         DEF Good, RequestInv, LimitOK, WholeOK, SteadyOK, Before, TooLarge
  <2>. QED
    BY <1>2, <2>2, <2>3, <2>4 DEF Kinds
<1>. HIDE DEF q
<1>. QED
  BY <1>0, <1>1, <1>3, PlainStep DEF Holding

\* A look that fails for a reason of its own keeps the invariant: it is answered as an
\* error of the server, and the request does not go upstream (TryServeLocal).
LEMMA LookFailsStep ==
  ASSUME ServerInv, NEW r \in Requests, LookFails(r)
  PROVE  ServerInv'
<1>. DEFINE p == [req[r] EXCEPT !.flags = @ \cup {"failed"}]
            q == LocalFailed(p, 500)
<1>0. /\ Good(req[r]) /\ req[r] \in Request /\ faults \in Nat
  BY Here
<1>1. /\ req' = [req EXCEPT ![r] = q] /\ req[r].pc \in {"lstat", "open"}
      /\ UNCHANGED <<givenVars, gaugeVars, httpInFlight>> /\ faults' \in Nat
  BY <1>0 DEF LookFails, Fault
<1>2. /\ p \in Request /\ p.flags = req[r].flags \cup {"failed"} /\ p.pc = req[r].pc
      /\ p.sent = req[r].sent /\ p.read = req[r].read /\ p.status = req[r].status
      /\ p.fd = req[r].fd /\ p.checked = req[r].checked
  BY <1>0 DEF Request, Flags
<1>3. Good(p)
  <2>. HIDE DEF p
  <2>. QED
    BY <1>0, <1>1, <1>2
       DEF Good, RequestInv, LimitOK, WholeOK, SteadyOK, Before, TooLarge
<1>4. Good(q) /\ q.pc \in {"proxy", "return"}
  <2>. HIDE DEF p
  <2>. QED
    BY <1>1, <1>2, <1>3, LocalFailedGood
<1>. HIDE DEF p, q
<1>. QED
  BY <1>0, <1>1, <1>4, PlainStep DEF Holding

\* Opening the file keeps the invariant: a file other than the one looked at, or
\* one too large, is refused (OpenFileNoSymlinks, TryServeLocal).
LEMMA OpenStep ==
  ASSUME ServerInv, NEW r \in Requests, Open(r)
  PROVE  ServerInv'
<1>. DEFINE p == req[r]
            q == CASE ino # p.fd /\ name = "unreadable" -> LocalFailed(p, 500)
                   [] ino # p.fd /\ name # "unreadable" -> LocalFailed(p, 404)
                   [] ino = p.fd /\ TooLarge(p, sizes[ino]) -> LocalFailed(p, 413)
                   [] OTHER -> [p EXCEPT !.pc = "serve", !.checked = sizes[ino]]
<1>0. /\ Good(p) /\ p \in Request /\ ino \in 1 .. MaxFiles /\ MaxFiles \in Nat
      /\ MaxSegmentBytes \in Nat /\ faults \in Nat /\ sizes \in [1 .. MaxFiles -> Nat]
  BY Here
<1>1. /\ req' = [req EXCEPT ![r] = q] /\ p.pc = "open"
      /\ UNCHANGED <<givenVars, gaugeVars, httpInFlight>> /\ faults' = faults
  BY DEF Open
<1>2. Good(q) /\ q.pc \in {"proxy", "return", "serve"}
  <2>. HIDE DEF p
  <2>1. /\ p.sent = 0 /\ p.read = 0 /\ p.status = 0 /\ p.fd # 0 /\ p.fd <= ino
        /\ "overflow" \notin p.flags /\ "limited" \notin p.flags /\ "proxied" \notin p.flags
        /\ "steady" \in p.flags /\ Mode # "proxy" => name = "file" /\ p.fd = ino
    BY <1>0, <1>1 DEF Good, RequestInv, Before
  <2>2. CASE ino # p.fd /\ name = "unreadable"
    <3>1. q = LocalFailed(p, 500)
      BY <2>2
    <3>. QED
      BY <1>0, <1>1, <2>1, <2>2, <3>1, LocalFailedGood
  <2>3. CASE ino # p.fd /\ name # "unreadable"
    <3>1. q = LocalFailed(p, 404)
      BY <2>3
    <3>. QED
      BY <1>0, <1>1, <2>1, <2>3, <3>1, LocalFailedGood
  <2>4. CASE ino = p.fd /\ TooLarge(p, sizes[ino])
    <3>1. q = LocalFailed(p, 413)
      BY <2>4
    <3>. QED
      BY <1>0, <1>1, <2>1, <2>4, <3>1, LocalFailedGood
  <2>5. CASE ino = p.fd /\ ~TooLarge(p, sizes[ino])
    <3>0. q = [p EXCEPT !.pc = "serve", !.checked = sizes[ino]]
      BY <2>5
    <3>. HIDE DEF q
    <3>1. /\ q \in Request /\ q.pc = "serve" /\ q.sent = p.sent /\ q.read = p.read
          /\ q.status = p.status /\ q.flags = p.flags /\ q.fd = ino
          /\ q.checked = sizes[ino]
      BY <1>0, <2>5, <3>0 DEF Request
    <3>. QED
      BY <1>0, <2>1, <2>5, <3>1
         DEF Good, RequestInv, LimitOK, WholeOK, SteadyOK, Before, TooLarge
  <2>. QED
    BY <2>2, <2>3, <2>4, <2>5
<1>. HIDE DEF q
<1>. QED
  BY <1>0, <1>1, <1>2, PlainStep DEF Holding

\* Sending the file keeps the invariant: what goes over the limit has been added
\* since the size was checked (http.ServeContent).
LEMMA ServeContentStep ==
  ASSUME ServerInv, NEW r \in Requests, NEW sent \in Nat, ServeContent(r, sent)
  PROVE  ServerInv'
<1>. DEFINE p == req[r]
            a == Answer(p, 200)
            q == [a EXCEPT !.sent = sent, !.size = sizes[p.fd]]
<1>0. /\ Good(p) /\ p \in Request /\ ino \in 1 .. MaxFiles /\ MaxFiles \in Nat
      /\ MaxSegmentBytes \in Nat /\ faults \in Nat /\ sizes \in [1 .. MaxFiles -> Nat]
  BY Here
<1>1. /\ req' = [req EXCEPT ![r] = q] /\ p.pc = "serve" /\ sent <= sizes[p.fd]
      /\ UNCHANGED <<givenVars, gaugeVars, httpInFlight>> /\ faults' = faults
  BY DEF ServeContent
<1>2. Good(q) /\ q.pc = "return"
  <2>. HIDE DEF p
  <2>1. /\ p.fd # 0 /\ p.fd <= ino /\ p.fd \in 1 .. MaxFiles /\ ~TooLarge(p, p.checked)
        /\ "proxied" \notin p.flags /\ p.status = 0 /\ p.checked \in Nat
        /\ "steady" \in p.flags /\ Mode # "proxy" => name = "file" /\ p.fd = ino
    BY <1>0, <1>1 DEF Good, RequestInv, Before, Request
  <2>0. a = Answer(p, 200)
    OBVIOUS
  <2>. HIDE DEF a
  <2>2. /\ a \in Request /\ a.pc = "return" /\ a.flags = p.flags /\ a.fd = p.fd
        /\ a.checked = p.checked /\ a.status = 200
    BY <1>0, <2>0, <2>1, WroteFields
  <2>3. /\ q \in Request /\ q.pc = "return" /\ q.flags = p.flags /\ q.fd = p.fd
        /\ q.checked = p.checked /\ q.status = 200 /\ q.sent = sent
    BY <1>0, <2>1, <2>2 DEF Request
  <2>. HIDE DEF q
  <2>4. sizes[p.fd] \in Nat
    BY <1>0, <2>1
  <2>. QED
    BY <1>0, <1>1, <2>1, <2>3, <2>4
       DEF Good, RequestInv, LimitOK, WholeOK, SteadyOK, Before, TooLarge
<1>. HIDE DEF q
<1>. QED
  BY <1>0, <1>1, <1>2, PlainStep DEF Holding

-----------------------------------------------------------------------------
(* The proxy. *)

\* A request enters ServeProxy and takes a slot (Acquire), if there is a
\* semaphore at all.
LEMMA AcquireStep ==
  ASSUME ServerInv, NEW r \in Requests, Acquire(r)
  PROVE  ServerInv'
<1>. DEFINE p == req[r]
            q == [p EXCEPT !.pc = "upstream", !.flags = @ \cup {"proxied"}]
<1>0. /\ Good(p) /\ p \in Request /\ ino \in 1 .. MaxFiles /\ MaxFiles \in Nat
      /\ MaxSegmentBytes \in Nat /\ faults \in Nat /\ slots \in Nat /\ Slots \in Nat
      /\ upstreamInFlight = slots /\ httpInFlight \in Int
  BY Here
<1>1. /\ req' = [req EXCEPT ![r] = q] /\ p.pc = "proxy"
      /\ Slots > 0 => slots < Slots
      /\ slots' = IF Slots > 0 THEN slots + 1 ELSE slots
      /\ upstreamInFlight' = IF Slots > 0 THEN upstreamInFlight + 1 ELSE upstreamInFlight
      /\ UNCHANGED <<givenVars, httpInFlight>> /\ faults' = faults
  BY DEF Acquire
<1>2. Good(q) /\ q.pc = "upstream"
  <2>. HIDE DEF p
  <2>1. /\ p.sent = 0 /\ p.read = 0 /\ p.status = 0 /\ p.fd <= ino
        /\ "overflow" \notin p.flags /\ "limited" \notin p.flags
        /\ ~("steady" \in p.flags /\ Mode # "proxy")
    BY <1>0, <1>1 DEF Good, RequestInv, Before
  <2>2. /\ q \in Request /\ q.pc = "upstream" /\ q.sent = p.sent /\ q.read = p.read
        /\ q.status = p.status /\ q.flags = p.flags \cup {"proxied"} /\ q.fd = p.fd
    BY <1>0 DEF Request, Flags
  <2>. HIDE DEF q
  <2>. QED
    BY <1>0, <2>1, <2>2
       DEF Good, RequestInv, LimitOK, WholeOK, SteadyOK, Before, TooLarge
<1>. HIDE DEF q
<1>3. q.pc \in Holding /\ p.pc \notin Holding /\ q.pc # "idle" /\ p.pc # "idle"
  BY <1>1, <1>2 DEF Holding
<1>4. /\ slots' = IF Slots = 0 THEN slots ELSE slots + 1
      /\ upstreamInFlight' = slots'
      /\ slots' <= slots \/ slots < Slots
      /\ faults' \in Nat
  BY <1>0, <1>1
<1>. QED
  BY <1>1, <1>2, <1>3, <1>4, HandlerStep

\* A request refused for want of a slot, or because its client has gone, changes
\* nothing else (the early return of ServeProxy).
LEMMA BusyStep ==
  ASSUME ServerInv, NEW r \in Requests, Busy(r)
  PROVE  ServerInv'
<1>. DEFINE p == req[r]
            a == Answer(p, 503)
            q == [a EXCEPT !.flags = @ \cup {"proxied", "observed"}]
<1>0. /\ Good(p) /\ p \in Request /\ ino \in 1 .. MaxFiles /\ MaxFiles \in Nat
      /\ MaxSegmentBytes \in Nat /\ faults \in Nat
  BY Here
<1>1. /\ req' = [req EXCEPT ![r] = q] /\ p.pc = "proxy"
      /\ UNCHANGED <<givenVars, gaugeVars, httpInFlight>> /\ faults' = faults
  BY DEF Busy
<1>2. Good(q) /\ q.pc = "return"
  <2>0. a = Answer(p, 503)
    OBVIOUS
  <2>. HIDE DEF p, a
  <2>1. /\ p.sent = 0 /\ p.fd <= ino
        /\ ~("steady" \in p.flags /\ Mode # "proxy")
    BY <1>0, <1>1 DEF Good, RequestInv, Before
  <2>2. /\ a \in Request /\ a.pc = "return" /\ a.flags = p.flags /\ a.fd = p.fd
        /\ a.sent = p.sent /\ a.logged = 503
    BY <1>0, <2>0, WroteFields
  <2>3. /\ q \in Request /\ q.pc = "return" /\ q.sent = p.sent /\ q.fd = p.fd
        /\ q.logged = 503 /\ q.flags = p.flags \cup {"proxied", "observed"}
    BY <2>2 DEF Request, Flags
  <2>. HIDE DEF q
  <2>. QED
    BY <1>0, <2>1, <2>3
       DEF Good, RequestInv, LimitOK, WholeOK, SteadyOK, Before, TooLarge
<1>. HIDE DEF q
<1>. QED
  BY <1>0, <1>1, <1>2, PlainStep DEF Holding

\* A request on its way back from upstream is good if it has been sent no more
\* than the limit, and the whole body unless an error is logged.
LEMMA ReturnGood ==
  ASSUME ServerInv, NEW p \in Request, Good(p), p.pc \in Holding,
         NEW q \in Request, q.pc = "return", q.fd = p.fd, q.sent = p.sent,
         q.flags = p.flags \/ q.flags = p.flags \cup {"observed"},
         q.logged >= 400 \/ MaxSegmentBytes = MaxInt64 \/ q.sent = q.size
  PROVE  Good(q)
<1>0. /\ ino \in 1 .. MaxFiles /\ MaxFiles \in Nat /\ MaxSegmentBytes \in Nat
      /\ MaxInt64 \in Nat
  BY Here, AssetServerAssumption
<1>1. /\ p.fd <= ino /\ "proxied" \in p.flags /\ ~TooLarge(p, p.sent)
      /\ ~("steady" \in p.flags /\ Mode # "proxy")
  BY DEF Good, RequestInv, Holding
<1>2. /\ "proxied" \in q.flags /\ ~TooLarge(q, q.sent)
      /\ ~("steady" \in q.flags /\ Mode # "proxy")
  BY <1>1 DEF TooLarge
<1>3. q.logged \in Nat
  BY DEF Request
<1>4. WholeOK(q)
  BY <1>0, <1>3 DEF WholeOK
<1>. QED
  BY <1>0, <1>1, <1>2, <1>4 DEF Good, RequestInv, LimitOK, SteadyOK, Before

\* ServeProxy ends normally (Finished): the slot is given back.
LEMMA FinishedStep ==
  ASSUME ServerInv, NEW r \in Requests, req[r].pc \in Holding,
         NEW w \in Request, w.fd = req[r].fd, w.sent = req[r].sent,
         w.flags = req[r].flags,
         w.logged >= 400 \/ MaxSegmentBytes = MaxInt64 \/ w.sent = w.size,
         Finished(r, w), faults' \in Nat
  PROVE  ServerInv'
<1>. DEFINE q == [w EXCEPT !.flags = w.flags \cup {"observed"}, !.pc = "return"]
<1>1. req' = [req EXCEPT ![r] = q] /\ Release /\ UNCHANGED <<givenVars, httpInFlight>>
  BY DEF Finished
<1>2. /\ q \in Request /\ q.pc = "return" /\ q.fd = w.fd /\ q.sent = w.sent
      /\ q.size = w.size /\ q.logged = w.logged /\ q.flags = w.flags \cup {"observed"}
  BY DEF Request, Flags
<1>. HIDE DEF q
<1>3. Good(req[r]) /\ req[r] \in Request
  BY Here
<1>4. Good(q)
  BY <1>2, <1>3, ReturnGood
<1>. QED
  BY <1>1, <1>2, <1>4, LeaveStep

\* A call upstream that fails is answered 502 (ErrorHandler).
LEMMA UpstreamErrorStep ==
  ASSUME ServerInv, NEW r \in Requests, UpstreamError(r)
  PROVE  ServerInv'
<1>. DEFINE w == Wrote(req[r], 502)
<1>1. /\ req[r].pc = "upstream" /\ Finished(r, w)
      /\ faults' = faults \/ faults' = faults + 1
  BY DEF UpstreamError, Fault
<1>2. req[r] \in Request /\ faults \in Nat
  BY Here
<1>3. w = Wrote(req[r], 502)
  OBVIOUS
<1>. HIDE DEF w
<1>4. /\ w \in Request /\ w.fd = req[r].fd /\ w.sent = req[r].sent
      /\ w.flags = req[r].flags /\ w.logged = 502
  BY <1>2, <1>3, WroteFields
<1>5. req[r].pc \in Holding /\ w.logged >= 400 /\ faults' \in Nat
  BY <1>1, <1>2, <1>4 DEF Holding
<1>. QED
  BY <1>1, <1>4, <1>5, FinishedStep

\* A response too long by its Content-Length is answered 413 (ModifyResponse).
LEMMA ResponseRefusedStep ==
  ASSUME ServerInv, NEW r \in Requests, NEW size \in Nat, ResponseRefused(r, size)
  PROVE  ServerInv'
<1>. DEFINE v == Wrote(req[r], 413)
            w == [v EXCEPT !.size = size]
<1>1. req[r].pc = "upstream" /\ Finished(r, w) /\ faults' = faults
  BY DEF ResponseRefused
<1>2. req[r] \in Request /\ faults \in Nat
  BY Here
<1>3. v = Wrote(req[r], 413)
  OBVIOUS
<1>. HIDE DEF v
<1>4. /\ v \in Request /\ v.fd = req[r].fd /\ v.sent = req[r].sent
      /\ v.flags = req[r].flags /\ v.logged = 413
  BY <1>2, <1>3, WroteFields
<1>5. /\ w \in Request /\ w.fd = req[r].fd /\ w.sent = req[r].sent
      /\ w.flags = req[r].flags /\ w.logged = 413
  BY <1>4 DEF Request
<1>. HIDE DEF w
<1>6. req[r].pc \in Holding /\ w.logged >= 400 /\ faults' \in Nat
  BY <1>1, <1>2, <1>5 DEF Holding
<1>. QED
  BY <1>1, <1>5, <1>6, FinishedStep

\* A copy that ends has sent the whole body, as the count says; only the largest
\* limit, one more than which wraps, ends a body early (LimitReader).
LEMMA CopyEndsStep ==
  ASSUME ServerInv, NEW r \in Requests, CopyEnds(r)
  PROVE  ServerInv'
<1>. DEFINE w == req[r]
<1>1. /\ w.pc = "copy" /\ Finished(r, w) /\ faults' = faults
      /\ "overflow" \notin w.flags
      /\ w.left = 0 \/ ("limited" \in w.flags /\ Allowance(w) <= 0)
  BY DEF CopyEnds
<1>2. Good(w) /\ w \in Request /\ faults \in Nat /\ MaxSegmentBytes \in Nat
  BY Here
<1>. HIDE DEF w
<1>3. MaxSegmentBytes = MaxInt64 \/ w.sent = w.size
  <2>1. /\ w.sent + w.left = w.size /\ w.sent \in Nat /\ w.size \in Nat /\ w.read \in Nat
        /\ "limited" \in w.flags => w.read <= MaxSegmentBytes
    BY <1>1, <1>2 DEF Good, RequestInv, Request
  <2>. QED
    BY <1>1, <1>2, <2>1 DEF Allowance
<1>4. w.pc \in Holding /\ faults' \in Nat
  BY <1>1, <1>2 DEF Holding
<1>. QED
  BY <1>1, <1>2, <1>3, <1>4, FinishedStep DEF w

\* A panic keeps what is known of the request (SignPanics, CopyFails).
LEMMA PanicStep ==
  ASSUME ServerInv, NEW r \in Requests, SignPanics(r) \/ CopyFails(r)
  PROVE  ServerInv'
<1>. DEFINE p == req[r]
            q == [p EXCEPT !.pc = "panic"]
<1>0. Good(p) /\ p \in Request /\ faults \in Nat
  BY Here
<1>1. /\ req' = [req EXCEPT ![r] = q] /\ p.pc \in {"upstream", "copy"}
      /\ UNCHANGED <<givenVars, gaugeVars, httpInFlight>>
      /\ faults' = faults \/ faults' = faults + 1
  BY DEF SignPanics, CopyFails, Fault
<1>2. Good(q) /\ q.pc = "panic"
  <2>. HIDE DEF p
  <2>1. /\ q \in Request /\ q.pc = "panic" /\ q.fd = p.fd /\ q.sent = p.sent
        /\ q.flags = p.flags /\ q.status = p.status /\ q.checked = p.checked
    BY <1>0 DEF Request
  <2>. HIDE DEF q
  <2>. QED
    BY <1>0, <1>1, <2>1 DEF Good, RequestInv, LimitOK, WholeOK, SteadyOK, Before, TooLarge
<1>. HIDE DEF q
<1>3. faults' \in Nat
  BY <1>0, <1>1
<1>. QED
  BY <1>1, <1>2, <1>3, PlainStep DEF Holding

\* Recover gives the slot back and logs an error.
LEMMA RecoverStep ==
  ASSUME ServerInv, NEW r \in Requests, Recover(r)
  PROVE  ServerInv'
<1>. DEFINE q == Answer(req[r], 500)
<1>0. Good(req[r]) /\ req[r] \in Request /\ faults \in Nat
  BY Here
<1>1. /\ req' = [req EXCEPT ![r] = q] /\ req[r].pc = "panic" /\ Release
      /\ UNCHANGED <<givenVars, httpInFlight>> /\ faults' = faults
  BY DEF Recover
<1>2. q = Answer(req[r], 500)
  OBVIOUS
<1>. HIDE DEF q
<1>3. /\ q \in Request /\ q.pc = "return" /\ q.fd = req[r].fd /\ q.sent = req[r].sent
      /\ q.flags = req[r].flags /\ q.logged = 500
  BY <1>0, <1>2, WroteFields
<1>4. req[r].pc \in Holding /\ q.logged >= 400
  BY <1>1, <1>3 DEF Holding
<1>5. Good(q)
  BY <1>0, <1>3, <1>4, ReturnGood
<1>. QED
  BY <1>0, <1>1, <1>3, <1>4, <1>5, LeaveStep

\* A client that goes away changes nothing but the context.
LEMMA CancelStep ==
  ASSUME ServerInv, NEW r \in Requests, Cancel(r)
  PROVE  ServerInv'
<1>. DEFINE p == req[r]
            q == [p EXCEPT !.ctx = "done"]
<1>0. Good(p) /\ p \in Request /\ faults \in Nat
  BY Here
<1>1. /\ req' = [req EXCEPT ![r] = q] /\ p.pc # "idle"
      /\ UNCHANGED <<givenVars, gaugeVars, httpInFlight>> /\ faults' = faults
  BY DEF Cancel
<1>2. Good(q) /\ q.pc = p.pc
  <2>. HIDE DEF p
  <2>1. /\ q \in Request /\ q.pc = p.pc /\ q.fd = p.fd /\ q.sent = p.sent
        /\ q.flags = p.flags /\ q.status = p.status /\ q.checked = p.checked
        /\ q.read = p.read /\ q.left = p.left /\ q.size = p.size /\ q.logged = p.logged
    BY <1>0 DEF Request
  <2>. HIDE DEF q
  <2>. QED
    BY <1>0, <2>1 DEF Good, RequestInv, LimitOK, WholeOK, SteadyOK, Before, TooLarge
<1>. HIDE DEF q
<1>. QED
  BY <1>0, <1>1, <1>2, PlainStep

\* The header of a response goes out, nothing of its body yet (ModifyResponse).
LEMMA ResponseStep ==
  ASSUME ServerInv, NEW r \in Requests, NEW status \in Nat, NEW size \in Nat,
         NEW declared \in BOOLEAN, Response(r, status, size, declared)
  PROVE  ServerInv'
<1>. DEFINE p == req[r]
            w == Wrote(p, status)
            q == [w EXCEPT !.pc = "copy", !.size = size, !.left = size,
                           !.flags = IF ~declared /\ "segment" \in w.flags
                                          /\ MaxSegmentBytes > 0
                                       THEN w.flags \cup {"limited"} ELSE w.flags]
<1>0. /\ Good(p) /\ p \in Request /\ ino \in 1 .. MaxFiles /\ MaxFiles \in Nat
      /\ MaxSegmentBytes \in Nat /\ faults \in Nat
  BY Here
<1>1. /\ req' = [req EXCEPT ![r] = q] /\ p.pc = "upstream"
      /\ declared => ~TooLarge(p, size)
      /\ UNCHANGED <<givenVars, gaugeVars, httpInFlight>> /\ faults' = faults
  BY DEF Response
<1>2. Good(q) /\ q.pc = "copy"
  <2>0. w = Wrote(p, status)
    OBVIOUS
  <2>. HIDE DEF p, w
  <2>1. /\ p.sent = 0 /\ p.read = 0 /\ p.fd <= ino
        /\ "overflow" \notin p.flags /\ "limited" \notin p.flags /\ "proxied" \in p.flags
        /\ ~("steady" \in p.flags /\ Mode # "proxy")
    BY <1>0, <1>1 DEF Good, RequestInv, Before
  <2>2. /\ w \in Request /\ w.flags = p.flags /\ w.fd = p.fd
        /\ w.sent = p.sent /\ w.read = p.read
    BY <1>0, <2>0, WroteFields
  <2>3. /\ q \in Request /\ q.pc = "copy" /\ q.size = size /\ q.left = size
        /\ q.fd = p.fd /\ q.sent = 0 /\ q.read = 0
        /\ q.flags = IF ~declared /\ "segment" \in p.flags /\ MaxSegmentBytes > 0
                       THEN p.flags \cup {"limited"} ELSE p.flags
    BY <2>1, <2>2 DEF Request, Flags
  <2>. HIDE DEF q
  <2>4. "limited" \notin q.flags => ~TooLarge(q, size)
    BY <1>1, <2>3 DEF TooLarge
  <2>. QED
    BY <1>0, <2>1, <2>3, <2>4
       DEF Good, RequestInv, LimitOK, WholeOK, SteadyOK, Before, TooLarge
<1>. HIDE DEF q
<1>. QED
  BY <1>0, <1>1, <1>2, PlainStep DEF Holding

\* A read through the limit counts exactly what is sent, and stops at the limit
\* (maxBytesReadCloser.Read).
LEMMA ReadLimitedFields ==
  ASSUME NEW p \in Request, p.pc = "copy", NEW n \in Nat, n <= p.left,
         MaxSegmentBytes \in Nat, p.read <= MaxSegmentBytes, p.sent = p.read,
         NEW q, q = ReadLimited(p, n)
  PROVE  /\ q \in Request /\ q.pc \in {"copy", "panic"} /\ q.fd = p.fd /\ q.size = p.size
         /\ q.sent = q.read /\ q.read <= MaxSegmentBytes
         /\ q.flags = p.flags \cup {"overflow"}
              \/ (q.flags = p.flags /\ q.sent + q.left = p.sent + p.left)
<1>0. /\ p.read \in Nat /\ p.sent \in Nat /\ p.left \in Nat
      /\ p.left - n \in Nat /\ p.read + n \in Nat
  BY DEF Request
<1>1. CASE p.read + n > MaxSegmentBytes
  <2>. DEFINE k == p.sent + (MaxSegmentBytes - p.read)
              left == p.left - n
              pc == IF p.read = MaxSegmentBytes THEN "panic" ELSE p.pc
              flags == p.flags \cup {"overflow"}
  <2>0. flags \in SUBSET Flags
    BY DEF Request, Flags
  <2>1. k = MaxSegmentBytes /\ left \in Nat /\ pc \in {"copy", "panic"}
    BY <1>0
  <2>2. q = [p EXCEPT !.sent = k, !.read = MaxSegmentBytes, !.flags = flags,
                      !.left = left, !.pc = pc]
    BY <1>1 DEF ReadLimited
  <2>. HIDE DEF k, left, pc, flags
  <2>3. /\ q \in Request /\ q.pc = pc /\ q.fd = p.fd /\ q.size = p.size
        /\ q.sent = k /\ q.read = MaxSegmentBytes /\ q.flags = flags
    BY <2>0, <2>1, <2>2 DEF Request
  <2>. QED
    BY <2>1, <2>3 DEF flags
<1>2. CASE ~(p.read + n > MaxSegmentBytes)
  <2>. DEFINE k == p.sent + n
              read == p.read + n
              left == p.left - n
  <2>1. q = [p EXCEPT !.sent = k, !.read = read, !.left = left]
    BY <1>2 DEF ReadLimited
  <2>2. /\ k \in Nat /\ read \in Nat /\ left \in Nat /\ k = read
        /\ read <= MaxSegmentBytes /\ k + left = p.sent + p.left
    BY <1>0, <1>2
  <2>. HIDE DEF k, read, left
  <2>3. /\ q \in Request /\ q.pc = "copy" /\ q.fd = p.fd /\ q.size = p.size
        /\ q.sent = k /\ q.read = read /\ q.left = left /\ q.flags = p.flags
    BY <2>1, <2>2 DEF Request
  <2>. QED
    BY <2>2, <2>3
<1>. QED
  BY <1>1, <1>2

\* Copying a piece of the body keeps the invariant.
LEMMA CopyStep ==
  ASSUME ServerInv, NEW r \in Requests, NEW n \in Nat, Copy(r, n)
  PROVE  ServerInv'
<1>. DEFINE p == req[r]
            q == IF "limited" \in p.flags THEN ReadLimited(p, n)
                 ELSE [p EXCEPT !.sent = p.sent + n, !.left = p.left - n]
<1>0. /\ Good(p) /\ p \in Request /\ ino \in 1 .. MaxFiles /\ MaxFiles \in Nat
      /\ MaxSegmentBytes \in Nat /\ faults \in Nat
  BY Here
<1>1. /\ req' = [req EXCEPT ![r] = q] /\ p.pc = "copy" /\ "overflow" \notin p.flags
      /\ n <= p.left
      /\ UNCHANGED <<givenVars, gaugeVars, httpInFlight>> /\ faults' = faults
  BY DEF Copy
<1>2. Good(q) /\ q.pc \in {"copy", "panic"}
  <2>. HIDE DEF p
  <2>1. /\ p.fd <= ino /\ "proxied" \in p.flags /\ p.sent + p.left = p.size
        /\ "limited" \in p.flags => p.sent = p.read /\ p.read <= MaxSegmentBytes
        /\ "limited" \notin p.flags => ~TooLarge(p, p.size)
        /\ ~("steady" \in p.flags /\ Mode # "proxy")
    BY <1>0, <1>1 DEF Good, RequestInv
  <2>2. p.sent \in Nat /\ p.left \in Nat /\ p.size \in Nat
    BY <1>0 DEF Request
  <2>3. CASE "limited" \in p.flags
    <3>1. q = ReadLimited(p, n)
      BY <2>3
    <3>. HIDE DEF q
    <3>2. /\ q \in Request /\ q.pc \in {"copy", "panic"} /\ q.fd = p.fd /\ q.size = p.size
          /\ q.sent = q.read /\ q.read <= MaxSegmentBytes
          /\ q.flags = p.flags \cup {"overflow"}
               \/ (q.flags = p.flags /\ q.sent + q.left = p.sent + p.left)
      BY <1>0, <1>1, <2>1, <2>3, <3>1, ReadLimitedFields
    <3>3. q.sent \in Nat
      BY <3>2 DEF Request
    <3>4. ~TooLarge(q, q.sent)
      BY <1>0, <3>2, <3>3 DEF TooLarge
    <3>5. /\ "proxied" \in q.flags /\ "limited" \in q.flags
          /\ ~("steady" \in q.flags /\ Mode # "proxy")
          /\ "overflow" \notin q.flags => q.sent + q.left = q.size
      BY <2>1, <2>3, <3>2
    <3>. QED
      BY <2>1, <3>2, <3>4, <3>5 DEF Good, RequestInv, LimitOK, WholeOK, SteadyOK, Before
  <2>4. CASE "limited" \notin p.flags
    <3>. DEFINE k == p.sent + n
                left == p.left - n
    <3>0. q = [p EXCEPT !.sent = k, !.left = left]
      BY <2>4
    <3>1. k \in Nat /\ left \in Nat /\ k + left = p.size /\ k <= p.size
      BY <1>1, <2>1, <2>2
    <3>. HIDE DEF q, k, left
    <3>2. /\ q \in Request /\ q.pc = "copy" /\ q.fd = p.fd /\ q.size = p.size
          /\ q.sent = k /\ q.left = left /\ q.flags = p.flags
      BY <1>0, <1>1, <3>0, <3>1 DEF Request
    <3>3. q.sent + q.left = q.size /\ q.sent <= q.size /\ q.sent \in Nat
      BY <3>1, <3>2
    <3>4. ~TooLarge(q, q.sent) /\ ~TooLarge(q, q.size)
      BY <1>0, <2>1, <2>2, <2>4, <3>2, <3>3 DEF TooLarge
    <3>. QED
      BY <1>1, <2>1, <2>4, <3>2, <3>3, <3>4
         DEF Good, RequestInv, LimitOK, WholeOK, SteadyOK, Before
  <2>. QED
    BY <2>3, <2>4
<1>. HIDE DEF q
<1>. QED
  BY <1>0, <1>1, <1>2, PlainStep DEF Holding

-----------------------------------------------------------------------------
(* The file, and the whole. *)

\* A new file under the name keeps the invariant: no request counts on the old
\* one any more, and what requests hold open stays as it was.
LEMMA FileReplacedStep ==
  ASSUME ServerInv, NEW kind \in Kinds, NEW size \in Nat, FileReplaced(kind, size)
  PROVE  ServerInv'
<1>0. /\ ino \in 1 .. MaxFiles /\ MaxFiles \in Nat /\ sizes \in [1 .. MaxFiles -> Nat]
      /\ \A r \in Requests : Good(req[r]) /\ req[r] \in Request
  BY Here
<1>1. /\ ino < MaxFiles /\ ino' = ino + 1 /\ name' = kind
      /\ sizes' = [sizes EXCEPT ![ino + 1] = size]
      /\ req' = [r \in Requests |-> [req[r] EXCEPT !.flags = req[r].flags \ {"steady"}]]
      /\ UNCHANGED <<signer, slots, upstreamInFlight, httpInFlight, faults>>
  BY DEF FileReplaced, gaugeVars
<1>2. /\ ino' \in 1 .. MaxFiles /\ sizes' \in [1 .. MaxFiles -> Nat]
      /\ \A f \in 1 .. MaxFiles : f <= ino => sizes'[f] = sizes[f]
  BY <1>0, <1>1
<1>3. ASSUME NEW r \in Requests, NEW p, NEW q, p = req[r],
             q = [p EXCEPT !.flags = p.flags \ {"steady"}]
      PROVE  Good(q)' /\ q.pc = p.pc /\ q \in Request
  <2>1. Good(p) /\ p \in Request
    BY <1>0, <1>3
  <2>2. /\ q \in Request /\ q.pc = p.pc /\ q.fd = p.fd /\ q.sent = p.sent
        /\ q.flags = p.flags \ {"steady"} /\ q.status = p.status /\ q.checked = p.checked
        /\ q.read = p.read /\ q.left = p.left /\ q.size = p.size /\ q.logged = p.logged
    BY <1>3, <2>1 DEF Request
  <2>3. /\ "steady" \notin q.flags
        /\ \A f \in Flags \ {"steady"} : f \in q.flags <=> f \in p.flags
    BY <2>2
  <2>4. p.fd <= ino /\ p.fd \in 0 .. MaxFiles
    BY <2>1 DEF Good, RequestInv, Request
  <2>5. q.fd <= ino' /\ (q.fd # 0 => sizes'[q.fd] = sizes[q.fd])
    BY <1>0, <1>1, <1>2, <2>2, <2>4
  <2>6. \A k : TooLarge(q, k) <=> TooLarge(p, k)
    BY <2>3 DEF TooLarge, Flags
  <2>7. RequestInv(q)'
    BY <2>1, <2>2, <2>3, <2>5, <2>6 DEF Good, RequestInv, Before, Flags, TooLarge
  <2>8. LimitOK(q)'
    BY <2>1, <2>2, <2>3, <2>5, <2>6 DEF Good, LimitOK, TooLarge
  <2>9. WholeOK(q)' /\ SteadyOK(q)'
    BY <2>1, <2>2, <2>3 DEF Good, WholeOK, SteadyOK, Flags
  <2>. QED
    BY <2>2, <2>7, <2>8, <2>9 DEF Good
<1>4. ASSUME NEW r \in Requests
      PROVE  Good(req[r])' /\ req'[r].pc = req[r].pc /\ req'[r] \in Request
  <2>1. req'[r] = [req[r] EXCEPT !.flags = req[r].flags \ {"steady"}]
    BY <1>1
  <2>. QED
    BY <1>3, <2>1
<1>5. req' \in [Requests -> Request]
  BY <1>1, <1>4
<1>6. TypeOK'
  BY <1>1, <1>2, <1>5, Split DEF TypeOK
<1>7. UpstreamBounded'
  <2>1. /\ Holders' = Holders
        /\ {r \in Requests : req[r].pc # "idle"}' = {r \in Requests : req[r].pc # "idle"}
    BY <1>4 DEF Holders
  <2>. QED
    BY <1>1, <2>1, Split DEF UpstreamBounded
<1>. QED
  BY <1>4, <1>6, <1>7 DEF ServerInv, Good, LimitOK, WholeOK, SteadyOK, LimitRespected,
     LoggedOkIsWhole, SteadyFileServed

\* Bytes written to the file keep the invariant: a request that holds it has
\* checked no more than its size.
LEMMA FileGrowsStep ==
  ASSUME ServerInv, FileGrows
  PROVE  ServerInv'
<1>0. /\ ino \in 1 .. MaxFiles /\ MaxFiles \in Nat /\ sizes \in [1 .. MaxFiles -> Nat]
      /\ \A r \in Requests : Good(req[r]) /\ req[r] \in Request
  BY Here
<1>1. /\ sizes' = [sizes EXCEPT ![ino] = sizes[ino] + 1]
      /\ UNCHANGED <<signer, name, ino, slots, upstreamInFlight, httpInFlight, req, faults>>
  BY DEF FileGrows, gaugeVars
<1>2. /\ sizes' \in [1 .. MaxFiles -> Nat]
      /\ \A f \in 1 .. MaxFiles : sizes'[f] >= sizes[f]
  BY <1>0, <1>1
<1>3. ASSUME NEW r \in Requests, NEW q, q = req[r]
      PROVE  Good(q)'
  <2>1. Good(q) /\ q \in Request /\ q.fd \in 0 .. MaxFiles /\ q.checked \in Nat
    BY <1>0, <1>3 DEF Request
  <2>2. RequestInv(q)'
    BY <1>1, <2>1 DEF Good, RequestInv, TooLarge
  <2>3. LimitOK(q)'
    <3>1. CASE q.fd \in 1 .. MaxFiles
      <4>1. sizes[q.fd] \in Nat /\ sizes'[q.fd] \in Nat /\ sizes'[q.fd] >= sizes[q.fd]
        BY <1>0, <1>2, <3>1
      <4>. QED
        BY <2>1, <4>1 DEF Good, LimitOK, TooLarge
    <3>2. CASE q.fd = 0
      BY <2>1, <3>2 DEF Good, LimitOK, TooLarge
    <3>. QED
      BY <1>0, <2>1, <3>1, <3>2
  <2>4. WholeOK(q)' /\ SteadyOK(q)'
    BY <2>1 DEF Good, WholeOK, SteadyOK
  <2>. QED
    BY <2>1, <2>2, <2>3, <2>4 DEF Good
<1>4. \A r \in Requests : Good(req[r])'
  BY <1>1, <1>3
<1>5. TypeOK' /\ UpstreamBounded'
  BY <1>1, <1>2, Split DEF TypeOK, UpstreamBounded, Holders
<1>. QED
  BY <1>4, <1>5 DEF ServerInv, Good, LimitOK, WholeOK, SteadyOK, LimitRespected,
     LoggedOkIsWhole, SteadyFileServed

\* Every step keeps the invariant.
LEMMA NextInv ==
  ASSUME ServerInv, [Next]_vars
  PROVE  ServerInv'
<1>0. (0 .. MaxBody) \subseteq Nat /\ OriginStatuses \subseteq Nat /\ (1 .. Buffer) \subseteq Nat
  BY AssetServerAssumption
<1>1. ASSUME NEW kind \in Kinds, NEW size \in 0 .. MaxBody, FileReplaced(kind, size)
      PROVE  ServerInv'
  BY <1>0, <1>1, FileReplacedStep
<1>2. CASE FileGrows
  BY <1>2, FileGrowsStep
<1>3. ASSUME NEW r \in Requests, Cancel(r) PROVE ServerInv'
  BY <1>3, CancelStep
<1>16. ASSUME NEW r \in Requests, NEW status \in Refusals, Reject(r, status)
       PROVE  ServerInv'
  BY <1>16, RejectStep
<1>4. ASSUME NEW r \in Requests, NEW ext \in {{}, {"segment"}}, Arrive(r, ext)
      PROVE  ServerInv'
  BY <1>4, ArriveStep
<1>5. ASSUME NEW r \in Requests, Lstat(r) \/ Open(r) \/ LookFails(r) PROVE ServerInv'
  BY <1>5, LstatStep, OpenStep, LookFailsStep
<1>6. ASSUME NEW r \in Requests, NEW sent \in 0 .. MaxBody, ServeContent(r, sent)
      PROVE  ServerInv'
  BY <1>0, <1>6, ServeContentStep
<1>7. ASSUME NEW r \in Requests, Acquire(r) \/ Busy(r) PROVE ServerInv'
  BY <1>7, AcquireStep, BusyStep
<1>8. ASSUME NEW r \in Requests, UpstreamError(r) PROVE ServerInv'
  BY <1>8, UpstreamErrorStep
<1>9. ASSUME NEW r \in Requests, SignPanics(r) \/ CopyFails(r) PROVE ServerInv'
  BY <1>9, PanicStep
<1>10. ASSUME NEW r \in Requests, NEW size \in 0 .. MaxBody, ResponseRefused(r, size)
       PROVE  ServerInv'
  BY <1>0, <1>10, ResponseRefusedStep
<1>11. ASSUME NEW r \in Requests, NEW status \in OriginStatuses, NEW size \in 0 .. MaxBody,
              NEW declared \in BOOLEAN, Response(r, status, size, declared)
       PROVE  ServerInv'
  BY <1>0, <1>11, ResponseStep
<1>12. ASSUME NEW r \in Requests, NEW n \in 1 .. Buffer, Copy(r, n) PROVE ServerInv'
  BY <1>0, <1>12, CopyStep
<1>13. ASSUME NEW r \in Requests, CopyEnds(r) PROVE ServerInv'
  BY <1>13, CopyEndsStep
<1>14. ASSUME NEW r \in Requests, Recover(r) \/ Return(r) PROVE ServerInv'
  BY <1>14, RecoverStep, ReturnStep
<1>15. CASE UNCHANGED vars
  <2>1. /\ UNCHANGED <<signer, name, ino, sizes, slots, upstreamInFlight, httpInFlight>>
        /\ UNCHANGED <<req, faults>>
    BY <1>15 DEF vars
  <2>2. TypeOK'
    BY <2>1 DEF ServerInv, TypeOK
  <2>3. UpstreamBounded'
    BY <2>1 DEF ServerInv, UpstreamBounded, Holders
  <2>4. \A r \in Requests : RequestInv(req[r])'
    BY <2>1 DEF ServerInv, RequestInv, TooLarge
  <2>5. LimitRespected'
    BY <2>1 DEF ServerInv, LimitRespected, TooLarge
  <2>6. LoggedOkIsWhole'
    BY <2>1 DEF ServerInv, LoggedOkIsWhole
  <2>7. SteadyFileServed'
    BY <2>1 DEF ServerInv, SteadyFileServed
  <2>. QED
    BY <2>2, <2>3, <2>4, <2>5, <2>6, <2>7 DEF ServerInv
<1>. QED
  BY <1>1, <1>2, <1>3, <1>4, <1>16, <1>5, <1>6, <1>7, <1>8, <1>9, <1>10, <1>11, <1>12, <1>13,
     <1>14, <1>15 DEF Next

\* The invariant holds when the server starts.
LEMMA InitInv ==
  ASSUME Init
  PROVE  ServerInv
<1>1. /\ MaxFiles \in Nat \ {0} /\ Slots \in Nat /\ MaxSegmentBytes \in Nat
      /\ (0 .. MaxBody) \subseteq Nat
  BY AssetServerAssumption
<1>2. /\ NoRequest \in Request /\ NoRequest.pc = "idle" /\ NoRequest.fd = 0
      /\ NoRequest.sent = 0 /\ NoRequest.read = 0 /\ NoRequest.status = 0
      /\ NoRequest.flags = {}
  BY NoRequestFields
<1>3. \A r \in Requests : req[r] = NoRequest
  BY DEF Init
<1>4. TypeOK
  <2>1. PICK size \in 0 .. MaxBody :
          sizes = [f \in 1 .. MaxFiles |-> IF f = 1 THEN size ELSE 0]
    BY DEF Init
  <2>2. sizes \in [1 .. MaxFiles -> Nat]
    BY <1>1, <2>1
  <2>3. req \in [Requests -> Request]
    BY <1>2 DEF Init
  <2>. QED
    BY <1>1, <2>2, <2>3 DEF Init, TypeOK
<1>5. UpstreamBounded
  <2>1. Holders = {} /\ {r \in Requests : req[r].pc # "idle"} = {}
    BY <1>2, <1>3 DEF Holders
  <2>2. Cardinality({}) = 0
    BY FS_EmptySet
  <2>. QED
    <3>1. slots = 0 /\ upstreamInFlight = 0 /\ httpInFlight = 0
      BY DEF Init
    <3>2. slots <= Slots
      BY <1>1, <3>1
    <3>. QED
      BY <2>1, <2>2, <3>1, <3>2 DEF UpstreamBounded
<1>6. Good(NoRequest)
  BY <1>1, <1>2 DEF Good, RequestInv, LimitOK, WholeOK, SteadyOK, Before, TooLarge, Init
<1>. QED
  BY <1>3, <1>4, <1>5, <1>6, Split

-----------------------------------------------------------------------------
\* The invariant holds in every reachable state.
THEOREM Invariance == Spec => []ServerInv
<1>1. Init => ServerInv
  BY InitInv
<1>2. ServerInv /\ [Next]_vars => ServerInv'
  BY NextInv
<1>. QED
  BY <1>1, <1>2, PTL DEF Spec

\* The types hold: in particular no count of bytes ever becomes negative.
THEOREM TypeCorrect == Spec => []TypeOK
<1>1. ServerInv => TypeOK
  BY DEF ServerInv
<1>. QED
  BY <1>1, Invariance, PTL

\* However requests end, each call upstream in progress holds one slot, and no
\* slot is lost (the semaphore of ServeProxy and its deferred Release).
THEOREM SlotsExact == Spec => []UpstreamBounded
<1>1. ServerInv => UpstreamBounded
  BY DEF ServerInv
<1>. QED
  BY <1>1, Invariance, PTL

\* No client gets more of a segment than the limit, whatever the origin says of
\* its length, unless a local file grows after the check.
THEOREM SegmentsLimited == Spec => []LimitRespected
<1>1. ServerInv => LimitRespected
  BY DEF ServerInv
<1>. QED
  BY <1>1, Invariance, PTL

\* A proxied request logged as a success was delivered whole.
THEOREM LoggedOkWhole == Spec => []LoggedOkIsWhole
<1>1. ServerInv => LoggedOkIsWhole
  BY DEF ServerInv
<1>. QED
  BY <1>1, Invariance, PTL

\* A file that stays in place is served, never looked for upstream.
THEOREM SteadyServed == Spec => []SteadyFileServed
<1>1. ServerInv => SteadyFileServed
  BY DEF ServerInv
<1>. QED
  BY <1>1, Invariance, PTL

-----------------------------------------------------------------------------
(* ObserveProxy is skipped by a panic only. *)

\* what CountedOrFailed says of one request
Counted(q) ==
  (q.pc = "return" /\ "proxied" \in q.flags /\ "observed" \notin q.flags) => q.logged = 500

\* A step of one request is harmless to CountedOrFailed if what it makes of that request is.
LEMMA CountedHere ==
  ASSUME TypeOK, CountedOrFailed, NEW r \in Requests, NEW q,
         req' = [req EXCEPT ![r] = q], Counted(q)
  PROVE  CountedOrFailed'
<1>1. \A s \in Requests : req'[s] = IF s = r THEN q ELSE req[s]
  BY DEF TypeOK
<1> QED
  BY <1>1 DEF CountedOrFailed, Counted

\* A request that is not at its end is harmless.
LEMMA CountedMidway ==
  ASSUME TypeOK, CountedOrFailed, NEW r \in Requests, NEW q,
         req' = [req EXCEPT ![r] = q], q.pc # "return"
  PROVE  CountedOrFailed'
  BY CountedHere DEF Counted

\* ServeProxy counts what it ends (Finished).
LEMMA CountedFinished ==
  ASSUME TypeOK, CountedOrFailed, NEW r \in Requests, NEW q \in Request, Finished(r, q)
  PROVE  CountedOrFailed'
<1> DEFINE e == [q EXCEPT !.flags = @ \cup {"observed"}, !.pc = "return"]
<1>1. req' = [req EXCEPT ![r] = e]
  BY DEF Finished
<1>2. "observed" \in e.flags
  BY DEF Request
<1> HIDE DEF e
<1> QED
  BY <1>1, <1>2, CountedHere DEF Counted

\* Every step keeps CountedOrFailed: an answer that is not counted is of a request that
\* was not proxied, or is the 500 of Recover.
LEMMA CountedStep ==
  ASSUME ServerInv, CountedOrFailed, [Next]_vars
  PROVE  CountedOrFailed'
<1>0. /\ TypeOK /\ \A r \in Requests : req[r] \in Request
      /\ \A r \in Requests : RequestInv(req[r])
      /\ (0 .. MaxBody) \subseteq Nat /\ OriginStatuses \subseteq Nat
  BY Here, AssetServerAssumption DEF ServerInv
<1>1. ASSUME NEW kind \in Kinds, NEW size \in 0 .. MaxBody, FileReplaced(kind, size)
      PROVE  CountedOrFailed'
  <2>1. \A r \in Requests : /\ req'[r].pc = req[r].pc /\ req'[r].logged = req[r].logged
                            /\ req'[r].flags = req[r].flags \ {"steady"}
    BY <1>0, <1>1 DEF FileReplaced, Request
  <2> QED
    BY <2>1 DEF CountedOrFailed
<1>2. CASE FileGrows \/ UNCHANGED vars
  BY <1>2 DEF FileGrows, vars, CountedOrFailed
<1>3. ASSUME NEW r \in Requests,
             \/ Cancel(r) \/ SignPanics(r) \/ CopyFails(r) \/ Acquire(r)
      PROVE  CountedOrFailed'
  <2>1. PICK q : req' = [req EXCEPT ![r] = q] /\ q.pc # "return"
    <3>1. CASE Cancel(r)
      <4>1. /\ req' = [req EXCEPT ![r] = [req[r] EXCEPT !.ctx = "done"]]
            /\ [req[r] EXCEPT !.ctx = "done"].pc # "return"
        BY <1>0, <3>1 DEF Cancel, TypeOK, Request
      <4> QED
        BY <4>1
    <3>2. CASE SignPanics(r) \/ CopyFails(r)
      <4>1. /\ req' = [req EXCEPT ![r] = [req[r] EXCEPT !.pc = "panic"]]
            /\ [req[r] EXCEPT !.pc = "panic"].pc # "return"
        BY <1>0, <3>2 DEF SignPanics, CopyFails, TypeOK, Request
      <4> QED
        BY <4>1
    <3>3. CASE Acquire(r)
      <4> DEFINE q == [req[r] EXCEPT !.pc = "upstream", !.flags = @ \cup {"proxied"}]
      <4>1. req' = [req EXCEPT ![r] = q] /\ q.pc # "return"
        BY <1>0, <3>3 DEF Acquire, TypeOK, Request
      <4> QED
        BY <4>1
    <3> QED
      BY <1>3, <3>1, <3>2, <3>3
  <2> QED
    BY <1>0, <2>1, CountedMidway
<1>4. ASSUME NEW r \in Requests, NEW q, req' = [req EXCEPT ![r] = q], "proxied" \notin q.flags
      PROVE  CountedOrFailed'
  BY <1>0, <1>4, CountedHere DEF Counted
<1>5. ASSUME NEW r \in Requests, NEW status \in Refusals, Reject(r, status)
      PROVE  CountedOrFailed'
  <2>1. "proxied" \notin Answer(NoRequest, status).flags
    BY DEF Answer, Wrote, NoRequest
  <2> QED
    BY <1>4, <1>5, <2>1 DEF Reject
<1>6. ASSUME NEW r \in Requests, NEW ext \in {{}, {"segment"}}, Arrive(r, ext)
      PROVE  CountedOrFailed'
  <2> DEFINE q == [NoRequest EXCEPT !.pc = IF Mode = "proxy" THEN "proxy" ELSE "lstat",
                         !.flags = ext \cup (IF name = "file" THEN {"steady"} ELSE {})]
  <2>1. req' = [req EXCEPT ![r] = q]
    BY <1>6 DEF Arrive
  <2>2. q.pc # "return"
    BY DEF NoRequest
  <2> HIDE DEF q
  <2> QED
    BY <1>0, <2>1, <2>2, CountedMidway
<1>7. ASSUME NEW r \in Requests, req[r].pc \in {"lstat", "open", "serve"}
      PROVE  /\ "proxied" \notin req[r].flags
             /\ \A status \in Nat : "proxied" \notin LocalFailed(req[r], status).flags
             /\ \A status \in Nat : "proxied" \notin Answer(req[r], status).flags
             /\ \A status \in Nat : Answer(req[r], status) \in Request
  <2>1. "proxied" \notin req[r].flags
    BY <1>0, <1>7 DEF RequestInv, Before
  <2>2. \A status \in Nat : /\ Answer(req[r], status).flags = req[r].flags
                            /\ Answer(req[r], status) \in Request
    BY <1>0, WroteFields
  <2>3. [req[r] EXCEPT !.pc = "proxy"].flags = req[r].flags
    BY <1>0 DEF Request
  <2> QED
    BY <2>1, <2>2, <2>3 DEF LocalFailed
<1>8. ASSUME NEW r \in Requests, Lstat(r) \/ Open(r) PROVE CountedOrFailed'
  <2>1. req[r].pc \in {"lstat", "open", "serve"}
    BY <1>8 DEF Lstat, Open
  <2>2. /\ [req[r] EXCEPT !.pc = "open", !.fd = ino].flags = req[r].flags
        /\ [req[r] EXCEPT !.pc = "serve", !.checked = sizes[ino]].flags = req[r].flags
    BY <1>0 DEF Request
  <2>3. PICK q : req' = [req EXCEPT ![r] = q]
                 /\ \/ \E status \in {404, 413, 500} : q = LocalFailed(req[r], status)
                    \/ q = [req[r] EXCEPT !.pc = "open", !.fd = ino]
                    \/ q = [req[r] EXCEPT !.pc = "serve", !.checked = sizes[ino]]
    BY <1>8 DEF Lstat, Open
  <2>4. {404, 413, 500} \subseteq Nat
    OBVIOUS
  <2>5. ASSUME NEW status \in {404, 413, 500} PROVE "proxied" \notin LocalFailed(req[r], status).flags
    <3>1. status \in Nat
      BY <2>4
    <3> QED
      BY <1>7, <2>1, <3>1
  <2>6. "proxied" \notin req[r].flags
    BY <1>7, <2>1
  <2>7. "proxied" \notin q.flags
    <3>1. CASE \E status \in {404, 413, 500} : q = LocalFailed(req[r], status)
      BY <2>5, <3>1
    <3>2. CASE q = [req[r] EXCEPT !.pc = "open", !.fd = ino]
      BY <2>2, <2>6, <3>2
    <3>3. CASE q = [req[r] EXCEPT !.pc = "serve", !.checked = sizes[ino]]
      BY <2>2, <2>6, <3>3
    <3> QED
      BY <2>3, <3>1, <3>2, <3>3
  <2> QED
    BY <1>4, <2>3, <2>7
<1>17. ASSUME NEW r \in Requests, LookFails(r) PROVE CountedOrFailed'
  <2> DEFINE p == [req[r] EXCEPT !.flags = @ \cup {"failed"}]
             q == LocalFailed(p, 500)
  <2>1. req' = [req EXCEPT ![r] = q] /\ req[r].pc \in {"lstat", "open"}
    BY <1>17 DEF LookFails
  <2>2. "proxied" \notin req[r].flags
    BY <1>7, <2>1
  <2>3. p \in Request /\ "proxied" \notin p.flags
    BY <1>0, <2>2 DEF Request, Flags, TypeOK
  <2> HIDE DEF p
  <2>4. "proxied" \notin q.flags
    <3>1. Answer(p, 500).flags = p.flags
      BY <2>3, WroteFields
    <3> QED
      BY <2>3, <3>1 DEF LocalFailed
  <2> QED
    BY <1>4, <2>1, <2>4
<1>9. ASSUME NEW r \in Requests, NEW sent \in 0 .. MaxBody, ServeContent(r, sent)
      PROVE  CountedOrFailed'
  <2> DEFINE a == Answer(req[r], 200)
             q == [a EXCEPT !.sent = sent, !.size = sizes[req[r].fd]]
  <2>1. req' = [req EXCEPT ![r] = q]
    BY <1>9 DEF ServeContent
  <2>2. a \in Request /\ "proxied" \notin a.flags
    BY <1>7, <1>9 DEF ServeContent
  <2> HIDE DEF a
  <2>3. "proxied" \notin q.flags
    BY <2>2 DEF Request
  <2> HIDE DEF q
  <2> QED
    BY <1>4, <2>1, <2>3
<1>10. ASSUME NEW r \in Requests, Busy(r) PROVE CountedOrFailed'
  <2> DEFINE a == Answer(req[r], 503)
             q == [a EXCEPT !.flags = a.flags \cup {"proxied", "observed"}]
  <2>1. req' = [req EXCEPT ![r] = q]
    BY <1>10 DEF Busy
  <2>2. a \in Request
    BY <1>0, WroteFields
  <2> HIDE DEF a
  <2>3. "observed" \in q.flags
    BY <2>2 DEF Request
  <2> HIDE DEF q
  <2> QED
    BY <1>0, <2>1, <2>3, CountedHere DEF Counted
<1>11. ASSUME NEW r \in Requests, UpstreamError(r) \/ CopyEnds(r) PROVE CountedOrFailed'
  <2>1. Wrote(req[r], 502) \in Request
    BY <1>0, WroteFields
  <2> QED
    BY <1>0, <1>11, <2>1, CountedFinished DEF UpstreamError, CopyEnds
<1>12. ASSUME NEW r \in Requests, NEW size \in 0 .. MaxBody, ResponseRefused(r, size)
       PROVE  CountedOrFailed'
  <2>1. Wrote(req[r], 413) \in Request /\ size \in Nat
    BY <1>0, WroteFields
  <2>2. [Wrote(req[r], 413) EXCEPT !.size = size] \in Request
    BY <2>1 DEF Request
  <2> QED
    BY <1>0, <1>12, <2>2, CountedFinished DEF ResponseRefused
<1>13. ASSUME NEW r \in Requests, NEW status \in OriginStatuses, NEW size \in 0 .. MaxBody,
              NEW declared \in BOOLEAN, Response(r, status, size, declared)
       PROVE  CountedOrFailed'
  <2> DEFINE w == Wrote(req[r], status)
             q == [w EXCEPT !.pc = "copy", !.size = size, !.left = size,
                     !.flags = IF ~declared /\ "segment" \in w.flags /\ MaxSegmentBytes > 0
                                 THEN w.flags \cup {"limited"} ELSE w.flags]
  <2>1. req' = [req EXCEPT ![r] = q]
    BY <1>13 DEF Response
  <2>2. w \in Request
    BY <1>0, WroteFields
  <2> HIDE DEF w
  <2>3. q.pc # "return"
    BY <2>2 DEF Request
  <2> HIDE DEF q
  <2> QED
    BY <1>0, <2>1, <2>3, CountedMidway
<1>14. ASSUME NEW r \in Requests, NEW n \in 1 .. Buffer, Copy(r, n) PROVE CountedOrFailed'
  <2> DEFINE q == IF "limited" \in req[r].flags THEN ReadLimited(req[r], n)
                  ELSE [req[r] EXCEPT !.sent = req[r].sent + n, !.left = req[r].left - n]
  <2>1. req' = [req EXCEPT ![r] = q] /\ req[r].pc = "copy"
    BY <1>14 DEF Copy
  <2>2. q.pc # "return"
    BY <1>0, <2>1 DEF ReadLimited, Request
  <2> HIDE DEF q
  <2> QED
    BY <1>0, <2>1, <2>2, CountedMidway
<1>15. ASSUME NEW r \in Requests, Recover(r) \/ Return(r) PROVE CountedOrFailed'
  <2>1. Answer(req[r], 500).logged = 500
    BY <1>0, WroteFields
  <2>2. NoRequest.pc # "return"
    BY DEF NoRequest
  <2>3. CASE Recover(r)
    BY <1>0, <2>1, <2>3, CountedHere DEF Recover, Counted
  <2>4. CASE Return(r)
    BY <1>0, <2>2, <2>4, CountedMidway DEF Return
  <2> QED
    BY <1>15, <2>3, <2>4
<1> QED
  BY <1>1, <1>2, <1>3, <1>5, <1>6, <1>8, <1>17, <1>9, <1>10, <1>11, <1>12, <1>13, <1>14, <1>15 DEF Next

\* A proxied request that is in no proxy metric is recorded as a 500, always.
THEOREM CountedOrRecordedFailed == Spec => []CountedOrFailed
<1>1. Init => CountedOrFailed
  BY DEF Init, NoRequest, CountedOrFailed
<1>2. ServerInv /\ CountedOrFailed /\ [Next]_vars => CountedOrFailed'
  BY CountedStep
<1> QED
  BY <1>1, <1>2, Invariance, PTL DEF Spec
=============================================================================
