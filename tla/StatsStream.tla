----------------------------- MODULE StatsStream -----------------------------
(***************************************************************************)
(* Reading one container's statistics.  The thread of the cycle pulls      *)
(* lines out of a generator (read_stats), which reads chunks from a        *)
(* response that Docker never ends by itself.  A timer thread, the         *)
(* watchdog, shuts the transport down under the reader when the body takes *)
(* too long, as a read that is fed slowly does not time out.  Two samples  *)
(* taken at different times are needed to measure anything.                *)
(* Sources: adapters/stats.py; _collect_stats in adapters/docker.py.       *)
(***************************************************************************)
EXTENDS Naturals, Sequences, SequencesExt

CONSTANTS Stamps,      \* times at which the daemon takes samples
          MaxSamples,  \* MAX_STATS_SAMPLES
          MaxChunks    \* MAX_STATS_BYTES, in chunks

ASSUME StampsAssumption == Stamps \subseteq Nat \ {0}
ASSUME SizesAssumption == MaxSamples \in Nat \ {0} /\ MaxChunks \in Nat \ {0}

VARIABLES reader,     \* where the thread of the cycle is
          timer,      \* the watchdog
          response,   \* the response body
          transport,  \* what a read of an empty wire meets
          wire,       \* chunks that have arrived and are not read
          received,   \* chunks read
          lines,      \* complete lines of pending, not yet taken
          rest,       \* whether pending ends with an incomplete one
          samples,    \* previous and current of _collect_stats
          count,      \* lines taken
          result      \* what _collect_stats returns or raises

body == <<wire, received, lines, rest>>
taken == <<samples, count>>
streamVars == <<reader, timer, response, transport, body, taken, result>>

NoSample == 0
Failures == {"timed out", "refused", "failed", "too large", "no progress", "incomplete"}

(* What one chunk may bring: the end of a line, which is longer than a     *)
(* chunk, and the beginning of another one.  Empty lines are skipped.      *)
Chunks == [lines : {<<>>} \cup {<<s>> : s \in Stamps}, rest : BOOLEAN]

StreamTypeOK ==
  /\ reader \in {"idle", "requested", "reading", "lines", "last", "raised", "join", "close", "end"}
  /\ timer \in {"none", "armed", "expired", "shut", "cancelled"}
  /\ response \in {"none", "open", "closed"}
  /\ transport \in {"up", "ended", "broken", "shut"}
  /\ wire \in Seq(Chunks) /\ Len(wire) <= 1
  /\ received \in 0 .. MaxChunks + 1
  /\ lines \in Seq(Stamps) /\ Len(lines) <= 1
  /\ rest \in BOOLEAN
  /\ samples \in [previous : Stamps \cup {NoSample}, current : Stamps \cup {NoSample}]
  /\ count \in 0 .. MaxSamples + 1
  /\ result \in Failures \cup {"none", "values"}

NoSamples == [previous |-> NoSample, current |-> NoSample]

StreamInit ==
  /\ reader = "idle" /\ timer = "none" /\ response = "none" /\ transport = "up"
  /\ wire = <<>> /\ received = 0 /\ lines = <<>> /\ rest = FALSE
  /\ samples = NoSamples /\ count = 0 /\ result = "none"

-----------------------------------------------------------------------------
(***************************************************************************)
(* The daemon and the network, as long as somebody reads.                  *)
(***************************************************************************)
Listening == reader \in {"requested", "reading", "lines", "last"}

Send(chunk) ==
  /\ Listening
  /\ response = "open" /\ transport = "up"
  /\ wire = <<>>
  /\ wire' = <<chunk>>
  /\ UNCHANGED <<reader, timer, response, transport, received, lines, rest, taken, result>>

Disconnect(how) ==
  /\ Listening
  /\ response = "open" /\ transport = "up"
  /\ how \in {"ended", "broken"}
  /\ transport' = how
  /\ UNCHANGED <<reader, timer, response, body, taken, result>>

-----------------------------------------------------------------------------
(***************************************************************************)
(* The watchdog: interrupt sets expired, then shuts the transport down.    *)
(***************************************************************************)
Expired == timer \in {"expired", "shut"}

Fire ==
  /\ timer = "armed"
  /\ timer' = "expired"
  /\ UNCHANGED <<reader, response, transport, body, taken, result>>

Shutdown ==
  /\ timer = "expired"
  /\ timer' = "shut"
  /\ transport' = IF response = "open" THEN "shut" ELSE transport
  /\ UNCHANGED <<reader, response, body, taken, result>>

-----------------------------------------------------------------------------
(***************************************************************************)
(* The reader.                                                             *)
(***************************************************************************)
Raises(failure) == reader' = "raised" /\ result' = failure

(* The connection and the headers have a timeout of their own; without a   *)
(* response there is nothing to close.                                     *)
Request ==
  /\ reader = "idle"
  /\ \/ reader' = "requested" /\ response' = "open" /\ result' = "none"
     \/ /\ reader' = "end" /\ response' = "none"
        /\ result' \in {"timed out", "failed"}
  /\ transport' = "up" /\ timer' = "none"
  /\ wire' = <<>> /\ received' = 0 /\ lines' = <<>> /\ rest' = FALSE
  /\ samples' = NoSamples /\ count' = 0

Rejected ==
  /\ reader = "requested"
  /\ Raises("refused")
  /\ UNCHANGED <<timer, response, transport, body, taken>>

Watch ==
  /\ reader = "requested"
  /\ timer' = "armed"
  /\ reader' = "reading"
  /\ UNCHANGED <<response, transport, body, taken, result>>

ReadChunk ==
  /\ reader = "reading" /\ wire # <<>>
  /\ wire' = <<>>
  /\ received' = received + 1
  /\ \/ Expired /\ Raises("timed out") /\ UNCHANGED <<lines, rest>>
     \/ /\ ~Expired /\ received = MaxChunks
        /\ Raises("too large") /\ UNCHANGED <<lines, rest>>
     \/ /\ ~Expired /\ received < MaxChunks
        /\ lines' = Head(wire).lines
        /\ rest' = (Head(wire).rest \/ (rest /\ Head(wire).lines = <<>>))
        /\ reader' = "lines" /\ UNCHANGED result
  /\ UNCHANGED <<timer, response, transport, taken>>

(* A read that fails: whatever it says, a timeout if the watchdog did it.  *)
ReadFails ==
  /\ reader = "reading" /\ transport \in {"broken", "shut"}
  /\ Raises(IF Expired THEN "timed out" ELSE "failed")
  /\ UNCHANGED <<timer, response, transport, body, taken>>

(* Nothing has arrived for as long as a single read may take. *)
ReadIdle ==
  /\ reader = "reading" /\ wire = <<>> /\ transport = "up"
  /\ Raises("timed out")
  /\ UNCHANGED <<timer, response, transport, body, taken>>

(* The body has ended; a last line without its end of line is still taken. *)
ReadEnd ==
  /\ reader = "reading" /\ wire = <<>> /\ transport \in {"ended", "shut"}
  /\ \/ Expired /\ Raises("timed out") /\ UNCHANGED <<lines, rest>>
     \/ ~Expired /\ ~rest /\ Raises("incomplete") /\ UNCHANGED <<lines, rest>>
     \/ /\ ~Expired /\ rest
        /\ \E s \in Stamps : lines' = <<s>>
        /\ rest' = FALSE
        /\ reader' = "last" /\ UNCHANGED result
  /\ UNCHANGED <<timer, response, transport, wire, received, taken>>

(* One turn of the loop of _collect_stats. *)
TakeLine ==
  /\ reader \in {"lines", "last"} /\ lines # <<>>
  /\ lines' = Tail(lines)
  /\ count' = count + 1
  /\ LET line == Head(lines) IN
     \/ count = MaxSamples /\ Raises("no progress") /\ UNCHANGED samples
     \/ /\ count < MaxSamples   \* not JSON, or a field is missing
        /\ Raises("failed") /\ UNCHANGED samples
     \/ /\ count < MaxSamples /\ samples.previous = NoSample
        /\ samples' = [samples EXCEPT !.previous = line]
        /\ UNCHANGED <<reader, result>>
     \/ /\ count < MaxSamples /\ samples.previous = line
        /\ UNCHANGED <<reader, result, samples>>
     \/ /\ count < MaxSamples /\ samples.previous \notin {NoSample, line}
        /\ samples' = [samples EXCEPT !.current = line]
        /\ Raises("values")
  /\ UNCHANGED <<timer, response, transport, wire, received, rest>>

MoreChunks ==
  /\ reader = "lines" /\ lines = <<>>
  /\ reader' = "reading"
  /\ UNCHANGED <<timer, response, transport, body, taken, result>>

NoMoreLines ==
  /\ reader = "last" /\ lines = <<>>
  /\ Raises("incomplete")
  /\ UNCHANGED <<timer, response, transport, body, taken>>

(* The finally clauses, also when the consumer closes the generator:       *)
(* nothing more is read, and cancelling has no effect on a watchdog that   *)
(* has fired.                                                              *)
Cancel ==
  /\ reader = "raised"
  /\ timer' = IF timer = "armed" THEN "cancelled" ELSE timer
  /\ reader' = "join"
  /\ wire' = <<>> /\ received' = 0 /\ lines' = <<>> /\ rest' = FALSE /\ count' = 0
  /\ UNCHANGED <<response, transport, samples, result>>

(* Mutant: the watchdog is cancelled but not waited for. *)
NoJoin ==
  /\ reader = "join"
  /\ reader' = "close"
  /\ UNCHANGED <<timer, response, transport, body, taken, result>>

Join ==
  /\ reader = "join"
  /\ timer \in {"none", "shut", "cancelled"}
  /\ reader' = "close"
  /\ UNCHANGED <<timer, response, transport, body, taken, result>>

(* An error of close is raised, unless another one is on its way. *)
Close ==
  /\ reader = "close"
  /\ response' = "closed"
  /\ reader' = "end"
  /\ \/ UNCHANGED result
     \/ result \in {"values", "incomplete"} /\ result' = "failed"
  /\ UNCHANGED <<timer, transport, body, taken>>

ReadStep ==
  \/ Rejected \/ Watch \/ ReadChunk \/ ReadFails \/ ReadEnd
  \/ TakeLine \/ MoreChunks \/ NoMoreLines \/ Cancel \/ Join \/ Close

WatchdogStep == Fire \/ Shutdown

Network ==
  \/ \E chunk \in Chunks : Send(chunk)
  \/ \E how \in {"ended", "broken"} : Disconnect(how)
=============================================================================
