-------------------------------- MODULE OtaCheck ---------------------------------
(***************************************************************************)
(* ota_check_latest_release: the body of GitHub's answer is collected in a *)
(* buffer of OtaBufferSize bytes, chunk by chunk, terminated and parsed.   *)
(* What it says only reaches the log.                                      *)
(***************************************************************************)
EXTENDS Naturals

CONSTANTS
  OtaBufferSize,  \* OTA_BUFFER_SIZE
  MaxChunk,       \* bound: the largest chunk
  MaxBody         \* bound: the longest body

ASSUME OtaAssumption == OtaBufferSize \in Nat \ {0} /\ MaxChunk \in Nat /\ MaxBody \in Nat

VARIABLES
  otaPc,   \* the check is pending, receiving, done
  otaSent, \* bytes of the body that arrived
  otaLen,  \* resp->len
  otaNul   \* where the terminator was written, 0 if none was

otaVars == <<otaPc, otaSent, otaLen, otaNul>>

OtaInitial == otaPc = "pending" /\ otaSent = 0 /\ otaLen = 0 /\ otaNul = 0

OtaLost == otaPc' = "pending" /\ otaSent' = 0 /\ otaLen' = 0 /\ otaNul' = 0

\* The last byte is kept for the terminator.
Exactly(n) == otaLen + n <= OtaBufferSize   \* mutant: no byte left

HasSpace(n) == otaLen + n < OtaBufferSize

OtaBegins ==
  /\ otaPc = "pending" /\ otaPc' = "receiving"
  /\ UNCHANGED <<otaSent, otaLen, otaNul>>

\* A chunk that does not fit is left out; a smaller one after it is not.
OtaReceives ==
  \E n \in 1..MaxChunk :
    /\ otaPc = "receiving" /\ otaSent + n <= MaxBody
    /\ otaSent' = otaSent + n
    /\ otaLen' = IF HasSpace(n) THEN otaLen + n ELSE otaLen
    /\ UNCHANGED <<otaPc, otaNul>>

\* The client, the request or its status fails.
OtaFails ==
  /\ otaPc \in {"pending", "receiving"} /\ otaPc' = "done"
  /\ UNCHANGED <<otaSent, otaLen, otaNul>>

OtaParses ==
  /\ otaPc = "receiving" /\ otaLen > 0
  /\ otaPc' = "done" /\ otaNul' = otaLen
  /\ UNCHANGED <<otaSent, otaLen>>

OtaWorks == OtaBegins \/ OtaReceives \/ OtaFails \/ OtaParses

-------------------------------------------------------------------------------
\* Nothing is written past the buffer, the terminator included.
OtaTypeOK ==
  /\ otaPc \in {"pending", "receiving", "done"} /\ otaSent \in 0..MaxBody
  /\ otaLen \in 0..OtaBufferSize - 1 /\ otaNul \in 0..OtaBufferSize - 1

\* ota.c:32, "truncating": once a chunk was left out nothing more is collected.  TLC
\* refutes it: a smaller chunk that arrives later is put behind the hole.
OtaTruncates == [][otaLen < otaSent => otaLen' <= otaLen]_otaVars
===============================================================================
