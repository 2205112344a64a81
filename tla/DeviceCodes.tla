---- MODULE DeviceCodes ----
(***************************************************************************)
(* The flasher's sign-in codes (cloud/src/device_codes.js) of one address:  *)
(* codes are made, approved or denied in the browser, polled for and pruned *)
(* by requests that interleave between their awaits.                        *)
(***************************************************************************)
EXTENDS Integers, Sequences, FiniteSets

CONSTANTS Workers,       \* requests under way at once
          Codes, NULL,
          MaxPerHour,    \* MAX_CODES_PER_IP_HOUR
          MaxMinted      \* bound: tokens ever minted

VARIABLES rows,          \* device_codes: denied, approved (approved_at), token; NULL: no row
          age,           \* a code's age: "none", "live" (EXPIRES_IN), "expired", "old" (an hour)
          tokens,        \* api_tokens
          minted,        \* history: the code each token was minted for
          req,           \* a request's locals and the await it is at
          taken,         \* history: the tokens answered to polls for a code, and how often
          late,          \* history: codes that expired or grew old under a request about them, or lost
                         \* their approval's Worker, or were denied after an approval
          rushed         \* history: two requests for a new code have overlapped

vars == <<rows, age, tokens, minted, req, taken, late, rushed>>

Idle == [at |-> "idle"]
Token == 1..Len(minted)
Made == {c \in Codes : rows[c] # NULL}
Under(w, step) == req[w].at = step
Same == UNCHANGED <<age, late, rushed>>

TypeOK ==
  /\ \A c \in Made : rows[c].denied \in BOOLEAN /\ rows[c].approved \in BOOLEAN /\ rows[c].token \in Token \cup {NULL}
  /\ age \in [Codes -> {"none", "live", "expired", "old"}]
  /\ tokens \subseteq Token /\ \A t \in Token : minted[t] \in Codes
  /\ \A w \in Workers : req[w].at \in {"idle", "count", "insert", "claim", "discard", "mint", "set", "undo", "deny", "prune"}
  /\ late \subseteq Codes /\ rushed \in BOOLEAN

Init ==
  /\ rows = [c \in Codes |-> NULL] /\ age = [c \in Codes |-> "none"]
  /\ tokens = {} /\ minted = <<>> /\ req = [w \in Workers |-> Idle]
  /\ taken = [c \in Codes |-> [by |-> {}, times |-> 0]] /\ late = {} /\ rushed = FALSE

Goes(w, r) == req' = [req EXCEPT ![w] = r]

----------------------------------------------------------------------------
\* prune: the tokens of old codes are read, and deleted in a batch that deletes the rows
\* that are old by then.  Also the daily housekeeping.
Old == {c \in Made : age[c] = "old"}

AsksCode(w) == req[w].at \in {"count", "insert"} \/ (req[w].at = "prune" /\ req[w].then = "count")

AskPrune(w, then) ==
  /\ Under(w, "idle")
  /\ Goes(w, [at |-> "prune", dead |-> {rows[c].token : c \in Old} \ {NULL}, then |-> then])
  /\ rushed' = (rushed \/ (then = "count" /\ \E v \in Workers : AsksCode(v)))
  /\ UNCHANGED <<rows, age, tokens, minted, taken, late>>

Prune(w) ==
  /\ Under(w, "prune")
  /\ tokens' = tokens \ req[w].dead
  /\ rows' = [c \in Codes |-> IF c \in Old THEN NULL ELSE rows[c]]
  /\ Goes(w, [at |-> req[w].then])
  /\ Same /\ UNCHANGED <<minted, taken>>

\* deviceCode: prune, count the rows of the last hour, insert.
Count(w) ==
  /\ Under(w, "count")
  /\ Goes(w, IF Cardinality(Made \ Old) >= MaxPerHour THEN Idle ELSE [at |-> "insert"])
  /\ Same /\ UNCHANGED <<rows, tokens, minted, taken>>

Insert(w, c) ==
  /\ Under(w, "insert") /\ age[c] = "none"
  /\ rows' = [rows EXCEPT ![c] = [denied |-> FALSE, approved |-> FALSE, token |-> NULL]]
  /\ age' = [age EXCEPT ![c] = "live"]
  /\ Goes(w, Idle)
  /\ UNCHANGED <<tokens, minted, taken, late, rushed>>

\* deviceToken: read the row, then answer, discard or claim.
Answer(c) ==
  IF rows[c] = NULL THEN "idle"
  ELSE IF age[c] # "live" \/ rows[c].denied THEN "discard"
  ELSE IF rows[c].approved THEN "claim" ELSE "idle"

Poll(w, c) ==
  /\ Under(w, "idle") /\ Answer(c) # "idle"
  /\ Goes(w, [at |-> Answer(c), code |-> c, token |-> rows[c].token])
  /\ Same /\ UNCHANGED <<rows, tokens, minted, taken>>

Discard(w) ==
  LET c == req[w].code
  IN  /\ Under(w, "discard")
      /\ rows' = IF rows[c] = NULL THEN rows ELSE [rows EXCEPT ![c].token = NULL]
      /\ tokens' = tokens \ {req[w].token}
      /\ Goes(w, Idle)
      /\ Same /\ UNCHANGED <<minted, taken>>

\* One shot: the UPDATE's row count decides.
ClaimableRow(c) == rows[c] # NULL
Claimable(c) == rows[c] # NULL /\ rows[c].token # NULL

Claim(w) ==
  LET c == req[w].code
  IN  /\ Under(w, "claim")
      /\ IF Claimable(c)
         THEN /\ rows' = [rows EXCEPT ![c].token = NULL]
              /\ taken' = [taken EXCEPT ![c] = [by |-> @.by \cup {req[w].token}, times |-> @.times + 1]]
         ELSE UNCHANGED <<rows, taken>>
      /\ Goes(w, Idle)
      /\ Same /\ UNCHANGED <<tokens, minted>>

\* authorizeSubmit: a live code nobody answered, then deny it or mint a token and set it.
Pending(c) == rows[c] # NULL /\ ~rows[c].approved /\ ~rows[c].denied /\ age[c] = "live"

\* The approving UPDATE's own WHERE: no look at the age.
SettableOnceMore(c) == rows[c] # NULL /\ ~rows[c].denied
Settable(c) == rows[c] # NULL /\ ~rows[c].approved /\ ~rows[c].denied

Submit(w, c, step) ==
  /\ Under(w, "idle") /\ Pending(c)
  /\ Goes(w, [at |-> step, code |-> c])
  /\ Same /\ UNCHANGED <<rows, tokens, minted, taken>>

Deny(w) ==
  LET c == req[w].code
  IN  /\ Under(w, "deny")
      /\ rows' = IF rows[c] = NULL THEN rows ELSE [rows EXCEPT ![c].denied = TRUE]
      /\ late' = IF Settable(c) THEN late ELSE late \cup {c}
      /\ Goes(w, Idle)
      /\ UNCHANGED <<age, tokens, minted, taken, rushed>>

Mint(w) ==
  /\ Under(w, "mint") /\ Len(minted) < MaxMinted
  /\ minted' = Append(minted, req[w].code)
  /\ tokens' = tokens \cup {Len(minted) + 1}
  /\ Goes(w, [at |-> "set", code |-> req[w].code, token |-> Len(minted) + 1])
  /\ Same /\ UNCHANGED <<rows, taken>>

Set(w) ==
  LET c == req[w].code
  IN  /\ Under(w, "set")
      /\ IF Settable(c)
         THEN /\ rows' = [rows EXCEPT ![c].approved = TRUE, ![c].token = req[w].token]
              /\ Goes(w, Idle)
         ELSE Goes(w, [req[w] EXCEPT !.at = "undo"]) /\ UNCHANGED rows
      /\ Same /\ UNCHANGED <<tokens, minted, taken>>

Undo(w) ==
  /\ Under(w, "undo")
  /\ tokens' = tokens \ {req[w].token}
  /\ Goes(w, Idle)
  /\ Same /\ UNCHANGED <<rows, minted, taken>>

\* Time passes.  A request lasts less than the 50 minutes between expired and old, so none
\* that read the code live is still under way when it is old.
About(w, c) == req[w].at = "prune" \/ (req[w].at \notin {"idle", "count", "insert", "prune"} /\ req[w].code = c)
Under50(c) == \A w \in Workers : About(w, c) => req[w].at \in {"prune", "discard"}

Ages(c) ==
  /\ \/ age[c] = "live" /\ age' = [age EXCEPT ![c] = "expired"]
     \/ age[c] = "expired" /\ Under50(c) /\ age' = [age EXCEPT ![c] = "old"]
  /\ late' = IF \E w \in Workers : About(w, c) THEN late \cup {c} ELSE late
  /\ UNCHANGED <<rows, tokens, minted, req, taken, rushed>>

\* The Worker is gone between the mint and the UPDATE.
Die(w) ==
  /\ req[w].at \in {"set", "undo"}
  /\ late' = late \cup {req[w].code}
  /\ Goes(w, Idle)
  /\ UNCHANGED <<rows, age, tokens, minted, taken, rushed>>

Next ==
  \/ \E c \in Codes : Ages(c)
  \/ \E w \in Workers :
       \/ AskPrune(w, "count") \/ (Old # {} /\ AskPrune(w, "idle"))
       \/ Prune(w) \/ Count(w) \/ Discard(w) \/ Claim(w) \/ Deny(w) \/ Mint(w) \/ Set(w) \/ Undo(w) \/ Die(w)
       \/ \E c \in Codes : Insert(w, c) \/ Poll(w, c) \/ Submit(w, c, "mint") \/ Submit(w, c, "deny")

Spec == Init /\ [][Next]_vars

----------------------------------------------------------------------------
(* An approved code signs in one poll, whatever polls, answers and prunes    *)
(* cross (deviceToken's UPDATE).                                              *)
OneTaker == \A c \in Codes : taken[c].times <= 1

(* The flasher's token goes on working: nobody deletes it as unclaimed, unless *)
(* the code expired, or was denied after all, under the poll that took it.     *)
TakenWorks == \A c \in Codes \ late : taken[c].by \subseteq tokens

(* No token is left that nobody holds: each was taken, waits in its row or is  *)
(* in the hands of the approval that minted it; excepted are codes whose time  *)
(* ran out under a request about them (the header of device_codes.js).         *)
NoStrayToken ==
  \A t \in tokens :
    LET c == minted[t]
    IN  \/ c \in late \/ t \in taken[c].by
        \/ rows[c] # NULL /\ rows[c].token = t
        \/ \E w \in Workers : req[w].at \in {"set", "undo", "discard"} /\ req[w].token = t

(* An address gets MAX_CODES_PER_IP_HOUR codes an hour, whatever became of     *)
(* them; two requests that count at the same time both pass.                   *)
HourlyBound == rushed \/ Cardinality({c \in Codes : age[c] \in {"live", "expired"}}) <= MaxPerHour
====
