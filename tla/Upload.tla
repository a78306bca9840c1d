------------------------------- MODULE Upload -------------------------------
(***************************************************************************)
(* The multipart upload fan-out of HTTPTransport.handleUpload             *)
(* (src/internal/svc/imagesvc/http_transport.go).                          *)
(*                                                                         *)
(*   manager    processMultipartFormFiles' goroutine: spawns one           *)
(*              processFile per file, checking ctx before each; on a       *)
(*              cancelled ctx it sends ctx.Err() once and returns early;   *)
(*              otherwise wg.Wait().  Its defers close errCh, then mediaCh.*)
(*   worker f   processFile: ctx check, constraint check, read, re-check,  *)
(*              imageSvc.Store, then select { mediaCh <- media; ctx.Done }.*)
(*              A constraint error is sent but does not return.  A panic   *)
(*              is recovered by a defer that sends ErrPanic on errCh.      *)
(*   listener   ranges over errCh, records each error and cancels ctx.     *)
(*   consumer   ranges over mediaCh, collecting the response ids.          *)
(*   handler    waits for listener and consumer, answers 400 or 200.       *)
(*                                                                         *)
(* errCh is buffered with capacity Cap = len(fileHeaders), the number of   *)
(* form fields; mediaCh is unbuffered and the consumer is always ready to  *)
(* receive until it is closed.  Go semantics: a send on a closed channel   *)
(* panics, and so does a sender blocked on a channel that gets closed; a   *)
(* panic inside a deferred recover handler is not recovered and ends the   *)
(* process.  Error contents are abstracted to their number.               *)
(***************************************************************************)
EXTENDS Naturals, Sequences, FiniteSets

CONSTANTS
    Files,       \* the uploaded files
    Order,       \* Seq(Files): the order the manager's range visits them
    Outcomes,    \* what processing a file may meet: subset of Kinds
    Cap,         \* cap(errCh) = number of multipart form fields
    FormParses   \* FALSE: ParseMultipartForm fails

\* ok; size over MaxSize or an extension outside the type table (both fail
\* every check, the first one included: ImageFiletypes); magic bytes not
\* matching the extension; an I/O error in the store; a panic inside
\* imageSvc.Store.
Kinds == {"ok", "toolarge", "mismatch", "storeerr", "panic"}

ASSUME Outcomes \subseteq Kinds
ASSUME Order \in Seq(Files) /\ Len(Order) = Cardinality(Files) /\ Cap \in Nat

VARIABLES
    outcome,      \* [Files -> Outcomes]: the uploaded content, fixed per request
    wpc,          \* [Files -> worker step]
    mpc,          \* manager step
    next,         \* index in Order of the next file the manager visits
    errBuf,       \* errors buffered in errCh
    errClosed,    \* close(errCh) has run
    mediaClosed,  \* close(mediaCh) has run
    cancelled,    \* ctx cancelled
    listener,     \* "recv" | "done"
    consumer,     \* "recv" | "done"
    uploadErrors, \* errors the listener recorded
    stored,       \* files imageSvc.Store persisted
    reported,     \* files whose id the consumer collected
    status,       \* 0 (no reply yet) | 200 | 400
    crashed       \* an unrecovered panic ended the process

vars == <<outcome, wpc, mpc, next, errBuf, errClosed, mediaClosed, cancelled, listener,
          consumer, uploadErrors, stored, reported, status, crashed>>

WSteps == {"unspawned", "start", "pre", "post", "store", "emit", "panic", "done"}

\* Errors one upload can produce: three per file and the manager's one.
MaxErrors == 3 * Cardinality(Files) + 1

TypeOK ==
    /\ outcome \in [Files -> Outcomes]
    /\ wpc \in [Files -> WSteps]
    /\ mpc \in {"loop", "once", "closeErr", "closeMedia", "exit"}
    /\ next \in 1..Len(Order) + 1 /\ errBuf \in 0..Cap
    /\ {errClosed, mediaClosed, cancelled, crashed} \subseteq BOOLEAN
    /\ listener \in {"recv", "done"} /\ consumer \in {"recv", "done"}
    /\ uploadErrors \in 0..MaxErrors
    /\ stored \subseteq Files /\ reported \subseteq Files
    /\ status \in {0, 200, 400}

\* processMultipartForm: a parse error yields a closed errCh holding that
\* error and a nil mediaCh; otherwise the fan-out starts.
Init ==
    /\ outcome \in [Files -> Outcomes]
    /\ wpc = [f \in Files |-> "unspawned"]
    /\ next = 1 /\ cancelled = FALSE
    /\ listener = "recv" /\ consumer = "recv"
    /\ uploadErrors = 0 /\ stored = {} /\ reported = {}
    /\ status = 0 /\ crashed = FALSE
    /\ IF FormParses
         THEN mpc = "loop" /\ errBuf = 0 /\ errClosed = FALSE /\ mediaClosed = FALSE
         ELSE mpc = "exit" /\ errBuf = 1 /\ errClosed = TRUE /\ mediaClosed = FALSE

MediaNil == ~FormParses

Running == ~crashed

SetW(f, s) == wpc' = [wpc EXCEPT ![f] = s]

-----------------------------------------------------------------------------
(* Worker f: processFile *)

\* errCh <- err: blocks while the buffer is full; panics once closed.
ErrSend(f, to) ==
    \/ /\ ~errClosed /\ errBuf < Cap /\ errBuf' = errBuf + 1 /\ SetW(f, to)
    \/ /\ errClosed /\ SetW(f, "panic") /\ UNCHANGED errBuf

WStart(f) ==
    /\ wpc[f] = "start"
    /\ SetW(f, IF cancelled THEN "done" ELSE "pre")
    /\ UNCHANGED errBuf

\* CheckUploadConstraints without the body: the size or the extension can
\* fail, the magic bytes are not looked at; the error is sent and
\* processing goes on.
WPre(f) ==
    /\ wpc[f] = "pre"
    /\ IF outcome[f] = "toolarge" THEN ErrSend(f, "post")
                                  ELSE SetW(f, "post") /\ UNCHANGED errBuf

\* Open, ReadAll, then CheckUploadConstraints with the body: size or magic
\* bytes fail; again the error is sent and processing goes on.
WPost(f) ==
    /\ wpc[f] = "post"
    /\ IF outcome[f] \in {"toolarge", "mismatch"} THEN ErrSend(f, "store")
                                                  ELSE SetW(f, "store") /\ UNCHANGED errBuf

\* Mutant of WStore: a failed Store returns without reporting the error.
WStoreDropError(f) ==
    /\ wpc[f] = "store"
    /\ IF outcome[f] = "ok" THEN stored' = stored \cup {f} ELSE UNCHANGED stored
    /\ SetW(f, CASE outcome[f] = "ok" -> "emit" [] outcome[f] = "panic" -> "panic"
                  [] OTHER -> "done")
    /\ UNCHANGED errBuf

\* imageSvc.Store re-checks the constraints and stores through the media
\* service; its error is sent and the worker returns.  An image library
\* panic inside it unwinds to the recover handler.
WStore(f) ==
    /\ wpc[f] = "store"
    /\ CASE outcome[f] = "ok" ->
              stored' = stored \cup {f} /\ SetW(f, "emit") /\ UNCHANGED errBuf
          [] outcome[f] = "panic" -> SetW(f, "panic") /\ UNCHANGED <<errBuf, stored>>
          [] OTHER -> ErrSend(f, "done") /\ UNCHANGED stored

\* select { case mediaCh <- media: case <-ctx.Done(): }.  Go picks any
\* ready case; a send on the closed mediaCh is ready and panics.
WEmit(f) ==
    /\ wpc[f] = "emit"
    /\ \/ ~mediaClosed /\ reported' = reported \cup {f} /\ SetW(f, "done")
       \/ cancelled /\ SetW(f, "done") /\ UNCHANGED reported
       \/ mediaClosed /\ SetW(f, "panic") /\ UNCHANGED reported

\* The deferred recover sends ErrPanic; on the closed errCh that send
\* panics inside the defer, which nothing recovers.
WRecover(f) ==
    /\ wpc[f] = "panic"
    /\ \/ /\ ~errClosed /\ errBuf < Cap
          /\ errBuf' = errBuf + 1 /\ SetW(f, "done") /\ UNCHANGED crashed
       \/ errClosed /\ crashed' = TRUE /\ UNCHANGED <<wpc, errBuf>>

Worker(f) ==
    /\ Running
    /\ \/ WStart(f) /\ UNCHANGED <<stored, reported, crashed>>
       \/ WPre(f) /\ UNCHANGED <<stored, reported, crashed>>
       \/ WPost(f) /\ UNCHANGED <<stored, reported, crashed>>
       \/ WStore(f) /\ UNCHANGED <<reported, crashed>>
       \/ WEmit(f) /\ UNCHANGED <<errBuf, stored, crashed>>
       \/ WRecover(f) /\ UNCHANGED <<stored, reported>>
    /\ UNCHANGED <<outcome, mpc, next, errClosed, mediaClosed, cancelled, listener,
                   consumer, uploadErrors, status>>

-----------------------------------------------------------------------------
(* The manager goroutine of processMultipartFormFiles *)

MSpawn ==
    /\ mpc = "loop" /\ next <= Len(Order) /\ ~cancelled
    /\ wpc' = [wpc EXCEPT ![Order[next]] = "start"]
    /\ next' = next + 1
    /\ UNCHANGED <<mpc, errBuf, errClosed, mediaClosed>>

\* ctx.Done() seen before a file: once.Do(errCh <- ctx.Err()), return.
MCancelled ==
    /\ mpc = "loop" /\ next <= Len(Order) /\ cancelled
    /\ mpc' = "once"
    /\ UNCHANGED <<wpc, next, errBuf, errClosed, mediaClosed>>

MOnceSend ==
    /\ mpc = "once" /\ errBuf < Cap
    /\ errBuf' = errBuf + 1 /\ mpc' = "closeErr"
    /\ UNCHANGED <<wpc, next, errClosed, mediaClosed>>

\* Every file spawned: wg.Wait() returns once every worker has returned.
MWaited ==
    /\ mpc = "loop" /\ next > Len(Order)
    /\ \A f \in Files : wpc[f] = "done"
    /\ mpc' = "closeErr"
    /\ UNCHANGED <<wpc, next, errBuf, errClosed, mediaClosed>>

MCloseErr ==
    /\ mpc = "closeErr"
    /\ errClosed' = TRUE /\ mpc' = "closeMedia"
    /\ UNCHANGED <<wpc, next, errBuf, mediaClosed>>

MCloseMedia ==
    /\ mpc = "closeMedia"
    /\ mediaClosed' = TRUE /\ mpc' = "exit"
    /\ UNCHANGED <<wpc, next, errBuf, errClosed>>

Manager ==
    /\ Running
    /\ MSpawn \/ MCancelled \/ MOnceSend \/ MWaited \/ MCloseErr \/ MCloseMedia
    /\ UNCHANGED <<outcome, cancelled, listener, consumer, uploadErrors, stored, reported,
                   status, crashed>>

-----------------------------------------------------------------------------
(* The handler's two goroutines and its reply *)

\* Mutant of ListenerRecv: the listener stops after the first error.
ListenerStopsEarly ==
    /\ Running /\ listener = "recv" /\ errBuf > 0
    /\ errBuf' = errBuf - 1 /\ uploadErrors' = uploadErrors + 1
    /\ cancelled' = TRUE /\ listener' = "done"
    /\ UNCHANGED <<outcome, wpc, mpc, next, errClosed, mediaClosed, consumer, stored,
                   reported, status, crashed>>

\* for err := range errCh: record the error, cancel().
ListenerRecv ==
    /\ Running /\ listener = "recv" /\ errBuf > 0
    /\ errBuf' = errBuf - 1 /\ uploadErrors' = uploadErrors + 1
    /\ cancelled' = TRUE
    /\ UNCHANGED <<outcome, wpc, mpc, next, errClosed, mediaClosed, listener, consumer,
                   stored, reported, status, crashed>>

ListenerExit ==
    /\ Running /\ listener = "recv" /\ errClosed /\ errBuf = 0
    /\ listener' = "done"
    /\ UNCHANGED <<outcome, wpc, mpc, next, errBuf, errClosed, mediaClosed, cancelled,
                   consumer, uploadErrors, stored, reported, status, crashed>>

\* for media := range mediaCh ends when mediaCh is closed; a range over a
\* nil channel never ends.
ConsumerExit ==
    /\ Running /\ consumer = "recv" /\ mediaClosed /\ ~MediaNil
    /\ consumer' = "done"
    /\ UNCHANGED <<outcome, wpc, mpc, next, errBuf, errClosed, mediaClosed, cancelled,
                   listener, uploadErrors, stored, reported, status, crashed>>

\* errGroup.Wait(), then 400 if any error was recorded, else the ids.
Respond ==
    /\ Running /\ status = 0 /\ listener = "done" /\ consumer = "done"
    /\ status' = IF uploadErrors > 0 THEN 400 ELSE 200
    /\ UNCHANGED <<outcome, wpc, mpc, next, errBuf, errClosed, mediaClosed, cancelled,
                   listener, consumer, uploadErrors, stored, reported, crashed>>

\* Nothing is left to run: the reply is out and every goroutine returned,
\* or the process is gone.
Terminated ==
    /\ crashed \/ (status # 0 /\ \A f \in Files : wpc[f] \in {"unspawned", "done"})
    /\ UNCHANGED vars

Next ==
    \/ \E f \in Files : Worker(f)
    \/ Manager \/ ListenerRecv \/ ListenerExit \/ ConsumerExit \/ Respond
    \/ Terminated

(* The Go scheduler runs every runnable goroutine: each one keeps taking *)
(* its next step while it has one.                                         *)
Fairness ==
    /\ \A f \in Files : WF_vars(Worker(f))
    /\ WF_vars(Manager) /\ WF_vars(ListenerRecv) /\ WF_vars(ListenerExit)
    /\ WF_vars(ConsumerExit) /\ WF_vars(Respond)

Spec == Init /\ [][Next]_vars /\ Fairness

-----------------------------------------------------------------------------
(* Properties *)

(* The reply tells the truth (spec 5, cancellation): 200 only when every *)
(* file was stored and its id is in the body, 400 only when some file or  *)
(* the form failed.  The listener, consumer and workers race; the reply   *)
(* is read after the errGroup wait.                                        *)
ResponseMatchesOutcome ==
    /\ status = 200 => reported = Files /\ \A f \in Files : outcome[f] = "ok"
    /\ status = 400 => ~FormParses \/ \E f \in Files : outcome[f] # "ok"

(* Every upload request is answered, unless the process died: no         *)
(* goroutine of the fan-out waits forever on a channel.                   *)
UploadCompletes == <>(status # 0 \/ crashed)

(* A failing upload never takes the server down: every panic in a worker *)
(* is recovered (spec 7: panics in request tasks become 500).             *)
NoUnrecoveredPanic == ~crashed
=============================================================================
