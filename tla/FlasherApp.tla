---- MODULE FlasherApp ----
(***************************************************************************)
(* The flasher's window (class App of tools/flasher/flasher.py): sign-in,   *)
(* FLASH, and the program's own updates (its updater.py).  Threads never    *)
(* touch the window: they post callbacks, which _pump runs in order on the  *)
(* Tk thread every 50 ms, sooner than the user can click again.  A question *)
(* box holds the handler that opened it: if a click opened it the pump goes *)
(* on under it, if the pump did nothing else runs until it is answered.     *)
(***************************************************************************)
EXTENDS Integers, Sequences

CONSTANTS MaxTokens, MaxStarts    \* bounds: sign-ins, starts of the program

VARIABLES up,       \* the program runs
          ui,       \* the window and App's fields
          worker,   \* flash threads alive: a sequence of "running" and "ending"
          posts,    \* App.q
          check,    \* the token check_token is asking about, or 0
          upd,      \* the update thread: "none" | "auto" | "manual"
          saved, st,  \* on disk: the sign-in; update.json
          version,  \* "old" | "new"
          tokens, revoked,   \* the console: tokens issued, tokens revoked
          starts, fetches    \* history: starts; downloads nobody asked for

volatile == <<ui, worker, posts, check, upd>>
stored == <<saved, st, version>>
world == <<tokens, revoked, starts>>
vars == <<up, volatile, stored, world, fetches>>

Closed == [op |-> 0, box |-> FALSE, then |-> FALSE, req |-> "none", flash |-> TRUE,
           asking |-> "no", with |-> 0, installing |-> "no"]

TypeOK ==
  /\ ui.op \in 0..MaxTokens /\ ui.asking \in {"no", "click", "pump"} /\ ui.req \in {"none", "sent", "answered"}
  /\ ui.installing \in {"no", "handed", "told"} /\ upd \in {"none", "auto", "manual"}
  /\ version \in {"old", "new"} /\ saved \in 0..tokens /\ Len(worker) <= 1

Init ==
  /\ up = FALSE /\ ui = Closed /\ worker = <<>> /\ posts = <<>> /\ check = 0 /\ upd = "none"
  /\ saved = 0 /\ version = "old" /\ tokens = 0 /\ revoked = {} /\ starts = 0 /\ fetches = 0
  /\ st = [downloaded |-> FALSE, to |-> FALSE, failed |-> FALSE, skip |-> FALSE, due |-> TRUE]

Busy == worker # <<>>
Connected(u) == u.op # 0

----------------------------------------------------------------------------
(* The parts of the handlers: what each does to the window and to the file.  *)
SignIn(u, then) ==
  IF Busy THEN u ELSE [u EXCEPT !.then = then, !.flash = FALSE, !.box = TRUE]

FreeToFlash(u) == ~Busy /\ u.installing = "no"

SignInDoneOnly(u) == [u EXCEPT !.then = FALSE, !.box = FALSE, !.req = "none"]
SignInDone(u) ==
  [u EXCEPT !.then = FALSE, !.box = FALSE, !.req = "none", !.flash = @ \/ FreeToFlash(u)]

Ask(u, how) == [u EXCEPT !.asking = how, !.with = u.op]

OnFlashAtOnce(u, how) == IF ~Connected(u) THEN SignIn(u, TRUE) ELSE Ask(u, how)
OnFlash(u, how) ==
  CASE Busy \/ u.installing # "no" -> u
    [] ~Busy /\ u.installing = "no" /\ ~Connected(u) -> SignIn(u, TRUE)
    [] OTHER -> Ask(u, how)

\* An update that did not go in is looked for once more; the second time it is left
\* to the button.
DueAgain(s) == [s EXCEPT !.due = TRUE, !.failed = TRUE]
NotedFailure(s) ==
  IF s.failed THEN [s EXCEPT !.skip = TRUE] ELSE [s EXCEPT !.due = TRUE, !.failed = TRUE]

SayUpdated(s, u) ==
  CASE ~s.to \/ (version = "new" /\ u.box) -> s
    [] s.to /\ version = "new" /\ ~u.box -> [s EXCEPT !.to = FALSE]
    [] s.to /\ version = "old" -> [NotedFailure(s) EXCEPT !.to = FALSE]

Install(u) == [u EXCEPT !.installing = "handed", !.flash = FALSE]
HandedOver(s) == [s EXCEPT !.downloaded = FALSE, !.to = TRUE]

----------------------------------------------------------------------------
(* Starting and closing.                                                     *)
Start ==
  /\ ~up /\ starts < MaxStarts
  /\ up' = TRUE /\ starts' = starts + 1
  /\ check' = saved
  /\ LET u == [Closed EXCEPT !.op = saved]
         shown == IF Connected(u) THEN u ELSE SignIn(u, FALSE) IN
     IF st.downloaded /\ version = "old"
     THEN ui' = Install(u) /\ st' = HandedOver(st) /\ UNCHANGED upd
     ELSE /\ ui' = shown /\ st' = SayUpdated(st, shown)
          /\ upd' = IF st'.due THEN "auto" ELSE "none"
  /\ UNCHANGED <<worker, posts, saved, version, tokens, revoked, fetches>>

Gone == /\ up' = FALSE /\ ui' = Closed /\ worker' = <<>> /\ posts' = <<>> /\ check' = 0 /\ upd' = "none"

\* Closed, killed, or shut down by the installer, which may or may not succeed.
Quit ==
  /\ up /\ Gone
  /\ version' \in IF ui.installing = "no" THEN {version} ELSE {version, "new"}
  /\ UNCHANGED <<saved, st, world, fetches>>

WeekPasses ==
  /\ ~up /\ st' = [st EXCEPT !.due = TRUE]
  /\ UNCHANGED <<up, volatile, saved, version, world, fetches>>

Revoke(t) ==
  /\ revoked' = revoked \cup {t}
  /\ UNCHANGED <<up, volatile, stored, tokens, starts, fetches>>

----------------------------------------------------------------------------
(* The user.                                                                 *)
Click == up /\ ui.asking = "no" /\ posts = <<>>

ClickFlash ==
  /\ Click /\ ui.flash /\ ui' = OnFlash(ui, "click")
  /\ UNCHANGED <<up, worker, posts, check, upd, stored, world, fetches>>

\* The answer to "Everything on that card will be erased. Continue?"
Answer(yes) ==
  /\ ui.asking # "no"
  /\ ui' = [ui EXCEPT !.asking = "no", !.flash = @ /\ ~yes]
  /\ worker' = IF yes THEN Append(worker, "running") ELSE worker
  /\ UNCHANGED <<up, posts, check, upd, stored, world, fetches>>

Submit ==
  /\ Click /\ ui.box /\ ui.req = "none" /\ ui' = [ui EXCEPT !.req = "sent"]
  /\ UNCHANGED <<up, worker, posts, check, upd, stored, world, fetches>>

CancelSignIn ==
  /\ Click /\ ui.box
  /\ ui' = IF Connected(ui) THEN SignInDone(ui) ELSE [ui EXCEPT !.req = "none"]
  /\ UNCHANGED <<up, worker, posts, check, upd, stored, world, fetches>>

SignOut ==
  /\ Click /\ ~Busy /\ Connected(ui)
  /\ ui' = SignIn([ui EXCEPT !.op = 0], FALSE) /\ saved' = 0
  /\ UNCHANGED <<up, worker, posts, check, upd, st, version, world, fetches>>

CheckForUpdates ==
  /\ Click /\ ~Busy /\ upd = "none" /\ ui.installing = "no"
  /\ upd' = "manual"
  /\ UNCHANGED <<up, ui, worker, posts, check, stored, world, fetches>>

----------------------------------------------------------------------------
(* The threads.                                                              *)
Post(p) == posts' = Append(posts, p)

LoginAnswers ==
  /\ ui.req = "sent" /\ ui' = [ui EXCEPT !.req = "answered"]
  /\ \/ /\ tokens < MaxTokens /\ tokens' = tokens + 1
        /\ Post([do |-> "signedIn", token |-> tokens + 1, then |-> ui.then])
     \/ UNCHANGED tokens /\ Post([do |-> "signInFailed"])
  /\ UNCHANGED <<up, worker, check, upd, stored, revoked, starts, fetches>>

CheckAnswers ==
  /\ check # 0 /\ check' = 0
  /\ IF check \in revoked THEN Post([do |-> "rejected", token |-> check]) ELSE UNCHANGED posts
  /\ UNCHANGED <<up, ui, worker, upd, stored, world, fetches>>

\* run_flash returns or raises; 401 for a token revoked since.
FlashEnds ==
  /\ worker # <<>> /\ worker[1] = "running" /\ worker' = [worker EXCEPT ![1] = "ending"]
  /\ LET last == <<[do |-> "finished"]>> IN
       posts' = posts \o IF ui.with \in revoked
                         THEN <<[do |-> "rejected", token |-> ui.with]>> \o last ELSE last
  /\ UNCHANGED <<up, ui, check, upd, stored, world, fetches>>

ThreadEnds ==
  /\ worker # <<>> /\ worker[1] = "ending" /\ worker' = Tail(worker)
  /\ UNCHANGED <<up, ui, posts, check, upd, stored, world, fetches>>

Wanted == version = "old" /\ ~(upd = "auto" /\ st.skip)

UpdateThread ==
  /\ upd # "none" /\ upd' = "none"
  /\ \/ /\ Wanted
        /\ st' = [st EXCEPT !.due = FALSE, !.downloaded = TRUE]
        /\ Post([do |-> "ready"])
        /\ fetches' = IF upd = "auto" THEN fetches + 1 ELSE fetches
     \/ st' = [st EXCEPT !.due = FALSE] /\ UNCHANGED <<posts, fetches>>   \* failed, or nothing to fetch
  /\ UNCHANGED <<up, ui, worker, check, saved, version, world>>

InstallAnswers ==
  /\ ui.installing = "handed" /\ ui' = [ui EXCEPT !.installing = "told"]
  /\ \E q \in BOOLEAN : Post([do |-> "installed", quits |-> q])
  /\ UNCHANGED <<up, worker, check, upd, stored, world, fetches>>

----------------------------------------------------------------------------
(* _pump: one callback.                                                      *)
Callback(do) ==
  /\ up /\ ui.asking # "pump" /\ posts # <<>> /\ Head(posts).do = do
  /\ posts' = Tail(posts)

\* A sign-in that cannot be saved lasts until the program is closed.
SignedIn ==
  /\ Callback("signedIn")
  /\ LET p == Head(posts)
         u == SignInDone([ui EXCEPT !.op = p.token]) IN
       /\ ui' = IF p.then THEN OnFlash(u, "pump") ELSE u
       /\ saved' \in {p.token, saved}
       /\ st' = SayUpdated(st, u)
  /\ UNCHANGED <<up, worker, check, upd, version, world, fetches>>

SignInFailed ==
  /\ Callback("signInFailed") /\ ui' = [ui EXCEPT !.req = "none"]
  /\ UNCHANGED <<up, worker, check, upd, stored, world, fetches>>

AnySignIn(t) == TRUE
SameSignIn(t) == ui.op = t

TokenRejected ==
  /\ Callback("rejected")
  /\ IF SameSignIn(Head(posts).token) THEN ui' = SignIn([ui EXCEPT !.op = 0], FALSE) /\ saved' = 0
                                      ELSE UNCHANGED <<ui, saved>>
  /\ UNCHANGED <<up, worker, check, upd, st, version, world, fetches>>

\* The thread is gone by the time its last callback runs.
Finished ==
  /\ Callback("finished") /\ ~Busy
  /\ ui' = [ui EXCEPT !.flash = ~ui.box]
  /\ UNCHANGED <<up, worker, check, upd, stored, world, fetches>>

UpdateReady ==
  /\ Callback("ready")
  /\ IF Busy THEN UNCHANGED <<ui, st>>
             ELSE ui' = Install(ui) /\ st' = HandedOver(st)
  /\ UNCHANGED <<up, worker, check, upd, saved, version, world, fetches>>

InstallDone ==
  /\ Callback("installed") /\ ~Head(posts).quits
  /\ LET u == [ui EXCEPT !.installing = "no", !.flash = @ \/ ~ui.box] IN
       ui' = IF Connected(u) THEN u ELSE SignIn(u, FALSE)
  /\ UNCHANGED <<up, worker, check, upd, stored, world, fetches>>

----------------------------------------------------------------------------
Next ==
  \/ Start \/ Quit \/ WeekPasses \/ \E t \in 1..tokens : Revoke(t)
  \/ ClickFlash \/ \E yes \in BOOLEAN : Answer(yes)
  \/ Submit \/ CancelSignIn \/ SignOut \/ CheckForUpdates
  \/ LoginAnswers \/ CheckAnswers \/ FlashEnds \/ ThreadEnds \/ UpdateThread \/ InstallAnswers
  \/ SignedIn \/ SignInFailed \/ TokenRejected \/ Finished \/ UpdateReady \/ InstallDone

Spec == Init /\ [][Next]_vars

----------------------------------------------------------------------------
(* When nothing is under way there is a way on: FLASH can be pressed, or the  *)
(* sign-in box is up and answers.  However sign-ins, rejected tokens, flashes *)
(* and updates cross, no button is left off for good.                         *)
AlwaysAWayOn ==
  up /\ ui.asking = "no" /\ posts = <<>> /\ ~Busy /\ ui.installing = "no" /\ ui.req = "none" =>
    ui.flash \/ ui.box

(* The sign-in in hand is forgotten only by the user, or because the console  *)
(* rejected that very token: a late answer about an older one does not.       *)
FreshTokenKeptStep == up' /\ ui.op # 0 /\ ui'.op # ui.op => ui.op \in revoked \/ SignOut

(* An update that does not go in is fetched twice by itself, not at every      *)
(* start ("or every start would fetch 531 MB and quit").                      *)
FetchesBounded == fetches <= 2

(* Once an update is being installed no card is being written: the installer  *)
(* closes this program whatever it is doing.                                  *)
NoFlashUnderInstall == ~(ui.installing # "no" /\ Busy)
====
