---------------------------- MODULE AssetServer -----------------------------
(***************************************************************************)
(* Serving /assets/: concurrent requests, answered from a file or through  *)
(* a reverse proxy to the origin, behind a semaphore that bounds the calls *)
(* upstream, inside the middleware that counts, logs and recovers.         *)
(*                                                                         *)
(* One file name stands for all: it may be created, replaced, removed or   *)
(* written in place while requests look at it.  Bodies are counted in      *)
(* bytes, the content is left out.  httputil.ReverseProxy aborts a failed  *)
(* copy by panicking, which the Recover middleware turns into a 500.       *)
(***************************************************************************)
EXTENDS Integers, FiniteSets

CONSTANTS
  Requests,
  Mode,               \* "filesystem", "proxy" or "hybrid"
  Slots,              \* ProxyMaxUpstreamConcurrency; 0 is no semaphore
  MaxSegmentBytes,    \* 0 is no limit
  MaxInt64,           \* largest byte count
  Signers,            \* what the configuration may leave the provider with
  OriginStatuses,
  Buffer,             \* bytes copied at once
  MaxBody, MaxFiles, MaxFaults  \* bounds: body size, files under the name, failures

ASSUME AssetServerAssumption ==
  /\ IsFiniteSet(Requests)
  /\ Mode \in {"filesystem", "proxy", "hybrid"}
  /\ {Slots, MaxSegmentBytes, MaxInt64, Buffer, MaxBody, MaxFaults} \subseteq Nat
  /\ MaxFiles \in Nat \ {0}
  /\ MaxSegmentBytes <= MaxInt64
  /\ Signers \subseteq {"off", "ready", "nilptr"}
  /\ OriginStatuses \subseteq Nat \ {0}

VARIABLES
  signer,      \* "off"; "ready"; "nilptr" if the secret was unusable; fixed at start
  name,        \* what the file name stands for
  ino, sizes,  \* the file under it, and the size of every file it ever stood for
  slots,       \* elements in the semaphore's channel
  upstreamInFlight, httpInFlight,  \* gauges
  req,         \* req[r]: the request r, see Request
  faults

vars == <<signer, name, ino, sizes, slots, upstreamInFlight, httpInFlight, req, faults>>

Kinds == {"absent", "irregular", "unreadable", "file"}

Flags ==
  {"segment",   \* isSegmentLike(ext)
   "limited",   \* the body is read through a maxBytesReadCloser
   "overflow",  \* which has met more than its limit
   "proxied",   \* ServeProxy was entered
   "observed",  \* counted by ObserveProxy
   "failed",    \* history: the operating system failed a look at the file
   "steady"}    \* history: the name has meant one file ever since the request came

Request ==
  [pc: {"idle", "lstat", "open", "serve", "proxy", "upstream", "copy", "panic", "return"},
   ctx: {"live", "done"},
   flags: SUBSET Flags,
   fd: 0 .. MaxFiles,   \* the file looked at or opened
   checked: Nat,        \* its size when it was compared with the limit
   size: Nat,           \* bytes of the body
   left: Nat,           \* of these, not yet read from the origin
   read: Nat,           \* of these, counted by maxBytesReadCloser
   sent: Nat,           \* bytes of the body written to the response, without the
                        \* text of an error that Recover may append
   status: Nat,         \* status the client got, 0 before the header
   logged: Nat]         \* status the middleware noted last

NoRequest ==
  [pc |-> "idle", ctx |-> "live", flags |-> {}, fd |-> 0, checked |-> 0, size |-> 0,
   left |-> 0, read |-> 0, sent |-> 0, status |-> 0, logged |-> 200]

TypeOK ==
  /\ signer \in Signers
  /\ name \in Kinds
  /\ ino \in 1 .. MaxFiles
  /\ sizes \in [1 .. MaxFiles -> Nat]
  /\ slots \in Nat
  /\ upstreamInFlight \in Int
  /\ httpInFlight \in Int
  /\ req \in [Requests -> Request]
  /\ faults \in Nat

Init ==
  /\ signer \in Signers
  /\ name \in Kinds
  /\ ino = 1
  /\ \E size \in 0 .. MaxBody : sizes = [f \in 1 .. MaxFiles |-> IF f = 1 THEN size ELSE 0]
  /\ slots = 0
  /\ upstreamInFlight = 0
  /\ httpInFlight = 0
  /\ req = [r \in Requests |-> NoRequest]
  /\ faults = 0

\* what requests find and never change
givenVars == <<signer, name, ino, sizes>>
gaugeVars == <<slots, upstreamInFlight>>

-----------------------------------------------------------------------------
(* The environment: the file, clients that go away. *)

\* the name is created, removed, or renamed over
FileReplaced(kind, size) ==
  /\ ino < MaxFiles
  /\ ino' = ino + 1
  /\ name' = kind
  /\ sizes' = [sizes EXCEPT ![ino + 1] = size]
  /\ req' = [r \in Requests |-> [req[r] EXCEPT !.flags = @ \ {"steady"}]]
  /\ UNCHANGED <<signer, gaugeVars, httpInFlight, faults>>

FileGrows ==
  /\ name = "file"
  /\ sizes[ino] < MaxBody
  /\ sizes' = [sizes EXCEPT ![ino] = @ + 1]
  /\ UNCHANGED <<signer, name, ino, gaugeVars, httpInFlight, req, faults>>

\* the request's context ends with the client's connection
Cancel(r) ==
  /\ req[r].pc \notin {"idle", "return"}
  /\ req[r].ctx = "live"
  /\ req' = [req EXCEPT ![r].ctx = "done"]
  /\ UNCHANGED <<givenVars, gaugeVars, httpInFlight, faults>>

Fault ==
  /\ faults < MaxFaults
  /\ faults' = faults + 1

-----------------------------------------------------------------------------
(* HTTPMetrics and AccessLog around serveHTTP. *)

\* WriteHeader through the wrappers: each notes the status, the first is sent
Wrote(q, status) ==
  [q EXCEPT !.status = IF @ = 0 THEN status ELSE @, !.logged = status]

Answer(q, status) == [Wrote(q, status) EXCEPT !.pc = "return"]

\* statuses of a request refused for its method, its path or its rate
Refusals == {400, 403, 404, 405, 429}

Reject(r, status) ==
  /\ req[r].pc = "idle"
  /\ httpInFlight' = httpInFlight + 1
  /\ req' = [req EXCEPT ![r] = Answer(NoRequest, status)]
  /\ UNCHANGED <<givenVars, gaugeVars, faults>>

Arrive(r, ext) ==
  /\ req[r].pc = "idle"
  /\ httpInFlight' = httpInFlight + 1
  /\ req' = [req EXCEPT ![r] =
       [NoRequest EXCEPT !.pc = IF Mode = "proxy" THEN "proxy" ELSE "lstat",
                         !.flags = ext \cup (IF name = "file" THEN {"steady"} ELSE {})]]
  /\ UNCHANGED <<givenVars, gaugeVars, faults>>

\* the middleware counts and logs; the server ends the response
Return(r) ==
  /\ req[r].pc = "return"
  /\ httpInFlight' = httpInFlight - 1
  /\ req' = [req EXCEPT ![r] = NoRequest]
  /\ UNCHANGED <<givenVars, gaugeVars, faults>>

-----------------------------------------------------------------------------
(* TryServeLocal, with OpenFileNoSymlinks. *)

\* mutant: every local error sends a hybrid request upstream
LocalFailedAlways(q, status) ==
  IF Mode = "hybrid" THEN [q EXCEPT !.pc = "proxy"] ELSE Answer(q, status)

\* not found sends a hybrid request upstream, any other error ends it
LocalFailed(q, status) ==
  IF Mode = "hybrid" /\ status = 404 THEN [q EXCEPT !.pc = "proxy"]
                                     ELSE Answer(q, status)

Lstat(r) ==
  /\ req[r].pc = "lstat"
  /\ req' = [req EXCEPT ![r] =
       CASE name \in {"absent", "irregular"} -> LocalFailed(@, 404)
         [] name = "unreadable" -> LocalFailed(@, 500)
         [] OTHER -> [@ EXCEPT !.pc = "open", !.fd = ino]]
  /\ UNCHANGED <<givenVars, gaugeVars, httpInFlight, faults>>

TooLarge(q, size) ==
  "segment" \in q.flags /\ MaxSegmentBytes > 0 /\ size > MaxSegmentBytes

\* the file opened must be the one looked at
Open(r) ==
  /\ req[r].pc = "open"
  /\ req' = [req EXCEPT ![r] =
       CASE ino # @.fd /\ name = "unreadable" -> LocalFailed(@, 500)
         [] ino # @.fd /\ name # "unreadable" -> LocalFailed(@, 404)
         [] ino = @.fd /\ TooLarge(@, sizes[ino]) -> LocalFailed(@, 413)
         [] OTHER -> [@ EXCEPT !.pc = "serve", !.checked = sizes[ino]]]
  /\ UNCHANGED <<givenVars, gaugeVars, httpInFlight, faults>>

\* Lstat, Open or Stat fails for a reason of its own: no descriptors left, an I/O error
LookFails(r) ==
  /\ req[r].pc \in {"lstat", "open"}
  /\ Fault
  /\ LET q == [req[r] EXCEPT !.flags = @ \cup {"failed"}]
     IN  req' = [req EXCEPT ![r] = LocalFailed(q, 500)]
  /\ UNCHANGED <<givenVars, gaugeVars, httpInFlight>>

\* ServeContent finds out the size for itself; what the client gets may be a
\* range of it, or less if the client leaves
ServeContent(r, sent) ==
  /\ req[r].pc = "serve"
  /\ sent <= sizes[req[r].fd]
  /\ req' = [req EXCEPT ![r] = [Answer(@, 200) EXCEPT !.sent = sent,
                                                      !.size = sizes[req[r].fd]]]
  /\ UNCHANGED <<givenVars, gaugeVars, httpInFlight, faults>>

-----------------------------------------------------------------------------
(* ServeProxy. *)

\* Acquire, which looks at the context first and never waits
Acquire(r) ==
  /\ req[r].pc = "proxy"
  /\ Slots > 0 => req[r].ctx = "live" /\ slots < Slots
  /\ slots' = IF Slots > 0 THEN slots + 1 ELSE slots
  /\ upstreamInFlight' = IF Slots > 0 THEN upstreamInFlight + 1 ELSE upstreamInFlight
  /\ req' = [req EXCEPT ![r].pc = "upstream", ![r].flags = @ \cup {"proxied"}]
  /\ UNCHANGED <<givenVars, httpInFlight, faults>>

Busy(r) ==
  /\ req[r].pc = "proxy"
  /\ Slots > 0
  /\ req[r].ctx = "done" \/ slots = Slots
  /\ LET q == Answer(req[r], 503)
     IN  req' = [req EXCEPT ![r] =
           [q EXCEPT !.flags = q.flags \cup {"proxied", "observed"}]]
  /\ UNCHANGED <<givenVars, gaugeVars, httpInFlight, faults>>

\* the deferred calls of ServeProxy; Release never blocks
Release ==
  /\ slots' = IF slots > 0 THEN slots - 1 ELSE slots
  /\ upstreamInFlight' = IF Slots > 0 THEN upstreamInFlight - 1 ELSE upstreamInFlight

\* ServeProxy ends normally: ObserveProxy, then the deferred calls
Finished(r, q) ==
  /\ req' = [req EXCEPT ![r] = [q EXCEPT !.flags = @ \cup {"observed"}, !.pc = "return"]]
  /\ Release
  /\ UNCHANGED <<givenVars, httpInFlight>>

\* no response: the call failed, timed out or could not be signed (ErrorHandler)
UpstreamError(r) ==
  /\ req[r].pc = "upstream"
  /\ signer # "nilptr"
  /\ \/ req[r].ctx = "done" /\ UNCHANGED faults
     \/ Fault
  /\ Finished(r, Wrote(req[r], 502))

\* a nil *HMACSigner is not a nil OriginSigner: Sign dereferences it
SignPanics(r) ==
  /\ req[r].pc = "upstream"
  /\ signer = "nilptr"
  /\ req' = [req EXCEPT ![r].pc = "panic"]
  /\ UNCHANGED <<givenVars, gaugeVars, httpInFlight, faults>>

\* ModifyResponse: too long by its Content-Length
ResponseRefused(r, size) ==
  /\ req[r].pc = "upstream"
  /\ signer # "nilptr"
  /\ TooLarge(req[r], size)
  /\ Finished(r, [Wrote(req[r], 413) EXCEPT !.size = size])
  /\ UNCHANGED faults

\* ModifyResponse: the header goes out, the body follows; without a
\* Content-Length a segment is read through a limit
Response(r, status, size, declared) ==
  /\ req[r].pc = "upstream"
  /\ signer # "nilptr"
  /\ declared => ~TooLarge(req[r], size)
  /\ LET q == Wrote(req[r], status)
     IN  req' = [req EXCEPT ![r] =
           [q EXCEPT !.pc = "copy", !.size = size, !.left = size,
                     !.flags = IF ~declared /\ "segment" \in q.flags /\ MaxSegmentBytes > 0
                                 THEN q.flags \cup {"limited"} ELSE q.flags]]
  /\ UNCHANGED <<givenVars, gaugeVars, httpInFlight, faults>>

\* what the LimitReader of q still lets through: max + 1 in all, as an int64
Allowance(q) ==
  IF MaxSegmentBytes = MaxInt64 THEN -(MaxInt64 + 1) ELSE MaxSegmentBytes + 1 - q.read

\* mutant: the read that goes over the limit is passed on whole
ReadLimitedWhole(q, n) ==
  IF q.read + n > MaxSegmentBytes
    THEN [q EXCEPT !.sent = @ + n, !.read = MaxSegmentBytes,
                   !.flags = @ \cup {"overflow"}, !.left = @ - n]
    ELSE [q EXCEPT !.sent = @ + n, !.read = @ + n, !.left = @ - n]

\* maxBytesReadCloser.Read of n bytes, which are then written to the client
ReadLimited(q, n) ==
  IF q.read + n > MaxSegmentBytes
    THEN [q EXCEPT !.sent = @ + (MaxSegmentBytes - q.read), !.read = MaxSegmentBytes,
                   !.flags = @ \cup {"overflow"}, !.left = @ - n,
                   !.pc = IF q.read = MaxSegmentBytes THEN "panic" ELSE @]
    ELSE [q EXCEPT !.sent = @ + n, !.read = @ + n, !.left = @ - n]

Copy(r, n) ==
  /\ req[r].pc = "copy"
  /\ "overflow" \notin req[r].flags
  /\ n <= req[r].left
  /\ "limited" \in req[r].flags => n <= Allowance(req[r])
  /\ req' = [req EXCEPT ![r] =
       IF "limited" \in req[r].flags THEN ReadLimited(req[r], n)
       ELSE [req[r] EXCEPT !.sent = req[r].sent + n, !.left = req[r].left - n]]
  /\ UNCHANGED <<givenVars, gaugeVars, httpInFlight, faults>>

CopyEnds(r) ==
  /\ req[r].pc = "copy"
  /\ "overflow" \notin req[r].flags
  /\ req[r].left = 0 \/ ("limited" \in req[r].flags /\ Allowance(req[r]) <= 0)
  /\ Finished(r, req[r])
  /\ UNCHANGED faults

\* mutant: reading the body does not notice that the client has gone
CopyFailsUnbound(r) ==
  /\ req[r].pc = "copy"
  /\ "overflow" \in req[r].flags /\ UNCHANGED faults
  /\ req' = [req EXCEPT ![r].pc = "panic"]
  /\ UNCHANGED <<givenVars, gaugeVars, httpInFlight>>

\* a read or a write fails: ReverseProxy panics with ErrAbortHandler
CopyFails(r) ==
  /\ req[r].pc = "copy"
  /\ \/ ("overflow" \in req[r].flags \/ req[r].ctx = "done") /\ UNCHANGED faults
     \/ Fault
  /\ req' = [req EXCEPT ![r].pc = "panic"]
  /\ UNCHANGED <<givenVars, gaugeVars, httpInFlight>>

\* mutant: the release is not deferred
RecoverLeaking(r) ==
  /\ req[r].pc = "panic"
  /\ req' = [req EXCEPT ![r] = Answer(@, 500)]
  /\ UNCHANGED <<givenVars, gaugeVars, httpInFlight, faults>>

\* mutant: a panic with ErrAbortHandler is recovered in silence
RecoverSilent(r) ==
  /\ req[r].pc = "panic"
  /\ Release
  /\ req' = [req EXCEPT ![r].pc = "return"]
  /\ UNCHANGED <<givenVars, httpInFlight, faults>>

\* the deferred calls run, then Recover answers 500, if it still can
Recover(r) ==
  /\ req[r].pc = "panic"
  /\ Release
  /\ req' = [req EXCEPT ![r] = Answer(@, 500)]
  /\ UNCHANGED <<givenVars, httpInFlight, faults>>

-----------------------------------------------------------------------------
Next ==
  \/ \E kind \in Kinds, size \in 0 .. MaxBody : FileReplaced(kind, size)
  \/ FileGrows
  \/ \E r \in Requests :
       \/ Cancel(r)
       \/ \E status \in Refusals : Reject(r, status)
       \/ \E ext \in {{}, {"segment"}} : Arrive(r, ext)
       \/ Lstat(r) \/ Open(r) \/ LookFails(r)
       \/ \E sent \in 0 .. MaxBody : ServeContent(r, sent)
       \/ Acquire(r) \/ Busy(r)
       \/ UpstreamError(r) \/ SignPanics(r)
       \/ \E size \in 0 .. MaxBody : ResponseRefused(r, size)
       \/ \E status \in OriginStatuses, size \in 0 .. MaxBody, declared \in BOOLEAN :
            Response(r, status, size, declared)
       \/ \E n \in 1 .. Buffer : Copy(r, n)
       \/ CopyEnds(r) \/ CopyFails(r)
       \/ Recover(r)
       \/ Return(r)

Spec == Init /\ [][Next]_vars

\* A handler that can run does run, and a call for a client that has gone fails.
\* The origin owes nothing: once it has sent a header it may stall for ever.
Handle(r) ==
  \/ Lstat(r) \/ Open(r)
  \/ \E sent \in 0 .. MaxBody : ServeContent(r, sent)
  \/ Acquire(r) \/ Busy(r)
  \/ req[r].ctx = "done" /\ (UpstreamError(r) \/ CopyFails(r))
  \/ SignPanics(r) \/ CopyEnds(r) \/ Recover(r) \/ Return(r)

FairSpec == Spec /\ \A r \in Requests : WF_vars(Handle(r))

-----------------------------------------------------------------------------
Holders == {r \in Requests : req[r].pc \in {"upstream", "copy", "panic"}}

\* UpstreamBounded.  However requests end (answered, refused, cancelled, cut short
\* by a panic), the semaphore holds one slot for each call upstream in progress
\* and for no other, so never more than Slots calls are made at once and none of
\* the slots leaks; the gauges agree (Acquire, Release and the deferred calls of
\* ServeProxy and HTTPMetrics).
UpstreamBounded ==
  /\ Slots > 0 => slots = Cardinality(Holders)
  /\ slots <= Slots
  /\ upstreamInFlight = slots
  /\ httpInFlight = Cardinality({r \in Requests : req[r].pc # "idle"})

\* LimitRespected.  A client never gets more than MaxSegmentBytes of a segment,
\* from the origin with or without a Content-Length, or from a file, except from
\* a file that has grown since its size was checked (ModifyResponse,
\* maxBytesReadCloser, TryServeLocal).
LimitRespected ==
  \A r \in Requests :
    TooLarge(req[r], req[r].sent) => req[r].fd # 0 /\ sizes[req[r].fd] > req[r].checked

\* LoggedOkIsWhole.  A proxied request that the access log and the metrics record
\* as a success was written to its response to the last byte: one whose body is over
\* the limit or cut by the origin, or whose copying fails because the client has gone,
\* is recorded as an error (Recover after ErrAbortHandler).  The largest limit of all is left out: one more than it
\* wraps, and the LimitReader ends every body at once.
LoggedOkIsWhole ==
  \A r \in Requests :
    (/\ req[r].pc = "return" /\ "proxied" \in req[r].flags /\ req[r].logged < 400
     /\ MaxSegmentBytes < MaxInt64) => req[r].sent = req[r].size

\* SteadyFileServed.  As long as the name means one and the same regular file, a
\* request for it is neither answered "not found" nor sent upstream, and it is answered
\* "internal error" only if Lstat, Open or Stat failed for a reason of its own, which
\* is never taken for a missing file (OpenFileNoSymlinks, and the fallback of the
\* hybrid mode).
SteadyFileServed ==
  \A r \in Requests : (Mode # "proxy" /\ "steady" \in req[r].flags) =>
    /\ req[r].pc # "proxy" /\ "proxied" \notin req[r].flags
    /\ req[r].status # 404
    /\ req[r].status = 500 => "failed" \in req[r].flags

\* CountedOrFailed.  A proxied request that ends without being counted by result is
\* one the access log and the HTTP metrics record as a 500: only a panic skips
\* ObserveProxy, and Recover never lets one pass for a success (ServeProxy).
CountedOrFailed ==
  \A r \in Requests :
    (req[r].pc = "return" /\ "proxied" \in req[r].flags /\ "observed" \notin req[r].flags)
      => req[r].logged = 500

\* GoneClientReleases.  A request whose client has gone ends, and with it ends its
\* hold on the semaphore, even if the origin stalls (the request's context
\* reaches the transport).
GoneClientReleases ==
  \A r \in Requests : req[r].ctx = "done" ~> req[r].pc = "idle"

-----------------------------------------------------------------------------
(* The inductive invariant behind the properties above. *)

Before == {"idle", "lstat", "open", "serve", "proxy", "upstream"}

\* what is known of a request at each point of serveHTTP
RequestInv(q) ==
  /\ q.fd <= ino
  /\ q.pc \in Before =>
       /\ q.sent = 0 /\ q.read = 0 /\ q.status = 0
       /\ "overflow" \notin q.flags /\ "limited" \notin q.flags
  /\ q.pc \in Before \ {"upstream"} => "proxied" \notin q.flags
  /\ q.pc \in {"upstream", "copy", "panic"} => "proxied" \in q.flags
  /\ q.pc \in {"open", "serve"} => q.fd # 0
  /\ q.pc = "serve" => ~TooLarge(q, q.checked)
  /\ q.pc = "copy" =>
       /\ "overflow" \notin q.flags => q.sent + q.left = q.size
       /\ "limited" \in q.flags => q.sent = q.read /\ q.read <= MaxSegmentBytes
       /\ "limited" \notin q.flags => "overflow" \notin q.flags /\ ~TooLarge(q, q.size)
  /\ "proxied" \in q.flags => ~TooLarge(q, q.sent)
  /\ ("steady" \in q.flags /\ Mode # "proxy") =>
       /\ name = "file"
       /\ q.pc \in {"open", "serve"} => q.fd = ino
       /\ q.pc \notin {"proxy", "upstream", "copy", "panic"}

\* ServerInv.  The inductive invariant: at each point of serveHTTP the counts of
\* maxBytesReadCloser match what has been read and sent, and the file a request
\* holds is the one it looked at.
ServerInv ==
  /\ TypeOK
  /\ UpstreamBounded
  /\ \A r \in Requests : RequestInv(req[r])
  /\ LimitRespected
  /\ LoggedOkIsWhole
  /\ SteadyFileServed

-----------------------------------------------------------------------------
(* What documents say and the code does not do. *)

\* OversizeRejected.  The API description: a segment too large is answered 413, so one
\* that maxBytesReadCloser finds to be longer than the limit, for a client that is
\* still there, is never answered 200 (ModifyResponse, and the 413 of ErrorHandler for
\* errProxyBodyTooLarge).
OversizeRejected ==
  \A r \in Requests :
    (req[r].pc = "return" /\ "overflow" \in req[r].flags /\ req[r].ctx = "live")
      => req[r].status # 200
=============================================================================
