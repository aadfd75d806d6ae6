---------------------------- MODULE AsciiUpload ----------------------------
(***************************************************************************)
(* Text transfer in PuttyLib/putty/psftp.c: an upload turns CR LF into LF, *)
(* in place, in one buffer after the other; a download turns LF into CR LF *)
(* in each block it writes.  A CR at the end of a buffer is held back in   *)
(* lastIs0D until the next byte is seen.                                   *)
(***************************************************************************)
EXTENDS Naturals, Sequences, SequencesExt

CONSTANTS
  BufferSize,    \* bytes of a buffer (4096)
  MaxLength      \* bounds the length of a local file

ASSUME AsciiAssumption == BufferSize \in Nat \ {0} /\ MaxLength \in Nat

CR == 13
LF == 10
Bytes == {CR, LF, 65, 66}
Texts == UNION { [1 .. n -> Bytes] : n \in 0 .. MaxLength }

VARIABLES
  file,          \* the local file
  pos,           \* bytes read from it
  buffer,
  p, q,          \* where the next byte is read, and written
  lastIs0D,
  sent,          \* what xfer_upload_data has been given
  state          \* "reading", "converting" or "sent"

ascii == <<file, pos, buffer, p, q, lastIs0D, sent, state>>

AsciiInit ==
  /\ file \in Texts
  /\ pos = 0 /\ buffer = <<>>
  /\ p = 1 /\ q = 1
  /\ lastIs0D = FALSE
  /\ sent = <<>>
  /\ state = "reading"

LeastOf(m, n) == IF m < n THEN m ELSE n

ReadBuffer ==
  /\ state = "reading" /\ pos < Len(file)
  /\ pos' = LeastOf(pos + BufferSize, Len(file))
  /\ buffer' = SubSeq(file, pos + 1, pos')
  /\ p' = 1 /\ q' = 1
  /\ state' = "converting"
  /\ UNCHANGED <<file, lastIs0D, sent>>

(* At the end of the file the CR that is held back is put into the buffer, *)
(* but not handed to xfer_upload_data, and the file is read once more.     *)
ReadEnd ==
  /\ state = "reading" /\ pos = Len(file)
  /\ lastIs0D' = FALSE
  /\ state' = IF lastIs0D THEN "reading" ELSE "sent"
  /\ UNCHANGED <<file, pos, buffer, p, q, sent>>

MoreBytes == state = "converting" /\ p <= Len(buffer)
Advance == p' = p + 1 /\ UNCHANGED <<file, pos, sent, state>>

LineEnd ==
  /\ MoreBytes /\ lastIs0D /\ buffer[p] = LF
  /\ buffer' = [buffer EXCEPT ![q] = LF]
  /\ q' = q + 1
  /\ lastIs0D' = FALSE
  /\ Advance

(* The CR that was held back is written first: into the byte at p itself,  *)
(* if none of this buffer has been held back yet.                          *)
Released == IF lastIs0D THEN [buffer EXCEPT ![q] = CR] ELSE buffer

AfterReleased == IF lastIs0D THEN q + 1 ELSE q

(* Slip: the test for CR comes before the one for lastIs0D. *)
HoldBack_Merges ==
  /\ MoreBytes /\ ~(lastIs0D /\ buffer[p] = LF)
  /\ Released[p] = CR
  /\ lastIs0D' = TRUE
  /\ UNCHANGED <<buffer, q>>
  /\ Advance

HoldBack ==
  /\ MoreBytes /\ ~(lastIs0D /\ buffer[p] = LF)
  /\ Released[p] = CR
  /\ buffer' = Released
  /\ q' = AfterReleased
  /\ lastIs0D' = TRUE
  /\ Advance

CopyByte ==
  /\ MoreBytes /\ ~(lastIs0D /\ buffer[p] = LF)
  /\ Released[p] # CR
  /\ buffer' = [Released EXCEPT ![AfterReleased] = Released[p]]
  /\ q' = AfterReleased + 1
  /\ lastIs0D' = FALSE
  /\ Advance

SendBuffer ==
  /\ state = "converting" /\ p > Len(buffer)
  /\ sent' = sent \o SubSeq(buffer, 1, q - 1)
  /\ state' = "reading"
  /\ UNCHANGED <<file, pos, buffer, p, q, lastIs0D>>

AsciiNext ==
  \/ ReadBuffer \/ ReadEnd \/ LineEnd \/ HoldBack \/ CopyByte \/ SendBuffer

AsciiDone == state = "sent"

AsciiSpec == AsciiInit /\ [][AsciiNext \/ (AsciiDone /\ UNCHANGED ascii)]_ascii

(* What a download writes for a block of the remote file. *)
ToDos(block) ==
  FlattenSeq([i \in DOMAIN block |->
                IF block[i] = LF THEN <<CR, LF>> ELSE <<block[i]>>])

-----------------------------------------------------------------------------
EndsLine(f, i) == i < Len(f) /\ f[i] = CR /\ f[i + 1] = LF
LoneCR(f, i) == f[i] = CR /\ ~EndsLine(f, i)

(* The text of a file with its line ends as Unix has them. *)
UnixText(f) ==
  FlattenSeq([i \in DOMAIN f |-> IF EndsLine(f, i) THEN <<>> ELSE <<f[i]>>])

(* The conversion writes into the buffer that it reads from.  In every     *)
(* file it leaves alone what it has not come to: up to the byte at p, the  *)
(* buffer is as it was read.  A CR that is held back may still be written  *)
(* over the byte at p, in the step that reads that byte (see TextIsKept).  *)
UnreadIsUntouched ==
  state = "converting" =>
    \A k \in p .. Len(buffer) : buffer[k] = file[(pos - Len(buffer)) + k]

(* All bytes but the CRs of line ends arrive, in order. *)
TextIsKept == AsciiDone => sent = UnixText(file)

(* A file whose lines end in CR LF, with no other CR or LF, comes back     *)
(* from the server as it was.                                              *)
TextComesBack ==
  /\ AsciiDone
  /\ \A i \in DOMAIN file : ~LoneCR(file, i)
  /\ \A i \in DOMAIN file : file[i] = LF => i > 1 /\ file[i - 1] = CR
  => ToDos(sent) = file

(* The text arrives, and would come back, if no CR is the last byte of a   *)
(* buffer or of the file without being part of a line end.                 *)
TextIsKeptInBuffers ==
  (\A i \in DOMAIN file : LoneCR(file, i) => i # Len(file) /\ i % BufferSize # 0)
    => TextIsKept /\ TextComesBack
=============================================================================
