---- MODULE LanReceive ----
(***************************************************************************)
(* One streamed multipart upload to the LAN console: _receive_upload and    *)
(* its parser callbacks (cms/app/routes/web.py), as library_upload uses it  *)
(* from the browser, with a form token, and _receive_jpeg (api.py) from a   *)
(* device, without one.  The body is a sequence of parts and file blocks;   *)
(* the network cuts it into chunks anywhere, and may end it early.  The     *)
(* parser's callbacks run event by event, the handler's checks between      *)
(* chunks.                                                                  *)
(***************************************************************************)
EXTENDS Integers, Sequences, FiniteSets

CONSTANTS Bodies,     \* bodies a client may send: sequences of Events
          MaxBytes,   \* the size cap, in blocks
          FlushAt     \* blocks kept in memory before they are written (1 MiB)

Events == {"token", "badToken", "file", "badFile", "data", "end"}

\* A block belongs to the file part before it; the bytes of text fields are not events.
InFile(s) == \A i \in 1..Len(s) : s[i] = "data" => i > 1 /\ s[i - 1] \in {"file", "badFile", "data"}

VARIABLES body, mode,  \* what the client sends, and where its token is
          at,          \* events of the body received
          parsing,     \* inside a chunk: the handler has not looked yet
          recv,        \* the _UploadReceiver
          checked,     \* csrf_checked
          written,     \* blocks in the temporary file
          tmp,         \* the temporary file exists
          result       \* "none" | "refused" | "stored"

vars == <<body, mode, at, parsing, recv, checked, written, tmp, result>>

New == [token |-> "none", files |-> 0, inFile |-> FALSE, size |-> 0, pending |-> 0,
        ended |-> FALSE, error |-> FALSE]

\* "header": a valid X-CSRF-Token, checked before the handler; "device": a bearer
\* token instead; "form": the token is a field of the body.
Modes == {"form", "header", "device"}

Init ==
  /\ body \in Bodies /\ mode \in Modes /\ checked = (mode # "form")
  /\ at = 0 /\ parsing = FALSE /\ recv = New /\ written = 0 /\ tmp = TRUE /\ result = "none"

TypeOK ==
  /\ at \in 0..Len(body) /\ parsing \in BOOLEAN /\ written \in 0..at
  /\ recv.token \in {"none", "token", "badToken"} /\ recv.size \in 0..at
  /\ result \in {"none", "refused", "stored"}

----------------------------------------------------------------------------
TooLargeLater(r) == r.size > MaxBytes
\* Over the cap: the block is not even kept.
TooLarge(r) == r.size + 1 > MaxBytes

Block(r) ==
  IF ~r.inFile THEN r                        \* a text field's bytes
  ELSE IF TooLarge(r) THEN [r EXCEPT !.size = @ + 1, !.error = TRUE]
  ELSE [r EXCEPT !.size = @ + 1, !.pending = @ + 1]

Parsed(r, e) ==
  IF r.error THEN r
  ELSE CASE e \in {"token", "badToken"} ->   \* a second field of the name is appended to it
              [r EXCEPT !.token = IF @ = "none" THEN e ELSE "badToken", !.inFile = FALSE]
         [] e \in {"file", "badFile"} ->
              IF e = "badFile" \/ r.files > 0 THEN [r EXCEPT !.error = TRUE, !.files = 1]
              ELSE [r EXCEPT !.files = 1, !.inFile = TRUE]
         [] e = "data" -> Block(r)
         [] e = "end"  -> [r EXCEPT !.ended = TRUE]

Flush == written' = written + recv.pending /\ recv' = [recv EXCEPT !.pending = 0]

Close(how) == tmp' = FALSE /\ result' = how

\* parser.write: one event of a chunk.
Feed ==
  /\ result = "none" /\ at < Len(body)
  /\ at' = at + 1 /\ recv' = Parsed(recv, body[at + 1]) /\ parsing' = TRUE
  /\ UNCHANGED <<body, mode, checked, written, tmp, result>>

\* The chunk is parsed: refuse what failed, look at the form token as soon as its part
\* is whole, refuse a file that comes before it, write what piled up.
Refused ==
  \/ recv.error
  \/ ~checked /\ (recv.token = "badToken" \/ (recv.token = "none" /\ recv.files > 0))

EndChunk ==
  /\ parsing /\ result = "none" /\ parsing' = FALSE
  /\ \/ Refused /\ Close("refused") /\ UNCHANGED <<recv, checked, written>>
     \/ /\ ~Refused
        /\ checked' = (checked \/ recv.token = "token")
        /\ \/ recv.pending < FlushAt /\ UNCHANGED <<recv, written>>
           \/ recv.pending >= FlushAt /\ Flush
        /\ UNCHANGED <<tmp, result>>
  /\ UNCHANGED <<body, mode, at>>

\* The stream is over, at the end of the body or before it (a client that stops
\* without a closing boundary); then the checks on the whole upload.
Complete == recv.files > 0 /\ recv.ended /\ recv.size > 0

Finish ==
  /\ ~parsing /\ result = "none"
  /\ Flush
  /\ Close(IF checked /\ Complete THEN "stored" ELSE "refused")
  /\ UNCHANGED <<body, mode, at, parsing, checked>>

Next == Feed \/ EndChunk \/ Finish

Spec == Init /\ [][Next]_vars

----------------------------------------------------------------------------
\* The places of an event in what has arrived.
Received(e) == {k \in 1..at : body[k] = e}

(* A browser upload that has no token in its header writes no block of its   *)
(* file to disk before a valid token field has arrived, however the body is  *)
(* cut into chunks and whatever order its parts come in.                     *)
BytesNeedToken == written > 0 /\ mode = "form" => Received("token") # {}

(* What is stored is one file, whole: its blocks are all the blocks the       *)
(* client sent before the closing boundary, not more than the cap.            *)
StoredIsWhole ==
  result = "stored" =>
    /\ Received("end") # {} /\ Received("badFile") = {}
    /\ Cardinality(Received("file")) = 1
    /\ written = Cardinality(Received("data"))
    /\ written \in 1..MaxBytes
====
