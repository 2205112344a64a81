---- MODULE MCConsole ----
(***************************************************************************)
(* Small instances of the LAN console's modules and of three of the         *)
(* Worker's, one of them per behaviour: `part` says which.  Modules that    *)
(* use the same name share the variable; those of the others stay Off.      *)
(***************************************************************************)
EXTENDS Integers, Sequences, FiniteSets, TLC

CONSTANTS Workers, Lists, Files, Stored, ThreeFiles, MaxMedia, MaxItems, MaxBytes, FlushAt, Serials, Groups,
          NULL, Off, MaxRows, MaxTokens, Devices, IrNames, MaxDeliveries, MaxCommands, Browsers,
          MaxUsers, MaxFailures, LockSeconds, MaxTime, Fallbacks, DayLength, WeekLength,
          LeadMinutes, IdleMinutes, LastDay, Bodies, RuleSets,
          Runs, RepeatAfter, MaxAlertTime, MaxDeaths, Kinds, FewAlerts, ManyAlerts,
          Codes, OneCode, FewTokens, ManyTokens, MaxPerHour,
          TwoAccounts, ThreeAccounts, AdminAccounts, SiteAdmin

VARIABLES part,
          lists, req, devs, raced, rules, now, rows, users, card,   \* in more than one module
          media, items, disk, nextMedia, nextItem,          \* LanContent
          body, mode, at, parsing, recv, checked, written, tmp, result,   \* LanReceive
          groups, defaults, nextRow, nextToken,             \* LanDevices
          codes, cmds, nextCmd, acked,                      \* LanCommands
          nextUser, sess, who,                              \* LanAccess
          stamps, checking, failed,                         \* LanThrottle
          fallback,                                         \* Schedules
          run, told, crossed, lost, early, deaths,          \* Alerts
          age, tokens, minted, taken, late, rushed,         \* DeviceCodes
          dev                                               \* Ownership

\* Uploads into the library of Stored; a library of three files to put in order.
Stock(p) == IF p = "content" THEN Stored ELSE ThreeFiles
LibraryParts == {"content", "orders"}
FilesOf(p) == IF p = "content" THEN Files ELSE {ThreeFiles[i] : i \in 1..Len(ThreeFiles)}
Library(p) == INSTANCE LanContent WITH Stored <- Stock(p), Files <- FilesOf(p)
Receive == INSTANCE LanReceive
Table == INSTANCE LanDevices
Remote == INSTANCE LanCommands
Access == INSTANCE LanAccess
Throttle == INSTANCE LanThrottle
Times == INSTANCE Schedules
\* Two overlapping runs over one alert; one run at a time over several.
AlertParts == {"crossing", "cron"}
RunsOf(p) == IF p = "crossing" THEN Runs ELSE {"c"}
Told(p) == INSTANCE Alerts WITH Runs <- RunsOf(p), MaxTime <- MaxAlertTime,
                              MaxAlerts <- (IF p = "crossing" THEN FewAlerts ELSE ManyAlerts)
\* Several tokens for one code; several codes.
CodeParts == {"oneCode", "twoCodes"}
CodesOf(p) == IF p = "oneCode" THEN OneCode ELSE Codes
MintedOf(p) == IF p = "oneCode" THEN ManyTokens ELSE FewTokens
SignIn(p) == INSTANCE DeviceCodes WITH Codes <- CodesOf(p), MaxMinted <- MintedOf(p)
\* Two requests between two accounts; one at a time between three, groups included.
OwnerParts == {"hands", "moves"}
CrewOf(p) == IF p = "hands" THEN Workers ELSE {"w"}
AccountsOf(p) == IF p = "hands" THEN TwoAccounts ELSE ThreeAccounts
Owners(p) == INSTANCE Ownership WITH
  Workers <- CrewOf(p),
  Accounts <- AccountsOf(p), Admins <- AdminAccounts \cap AccountsOf(p),
  Picks <- {"list", "rule", "drop"} \cup (IF p = "hands" THEN {} ELSE {"group"})

\* A library to begin with has one row per content.
OneOfEach(files) == \A i, j \in 1..Len(files) : files[i][1] = files[j][1] => i = j
ASSUME LibraryBounds ==
  /\ MaxMedia \in Nat /\ MaxItems \in Nat
  /\ \A files \in {Stored, ThreeFiles} : Len(files) \in 0..MaxMedia /\ OneOfEach(files)
  /\ \A i \in 1..Len(Stored) : Stored[i] \in Files
ASSUME ReceiveBounds == /\ MaxBytes \in Nat /\ FlushAt \in Nat
                        /\ \A b \in Bodies : b \in Seq(Receive!Events) /\ Receive!InFile(b)
ASSUME TableBounds == MaxRows \in Nat /\ MaxTokens \in Nat
ASSUME RemoteBounds == /\ IsFiniteSet(Workers) /\ IsFiniteSet(Devices) /\ NULL \notin IrNames
                       /\ MaxDeliveries \in Nat \ {0} /\ MaxCommands \in Nat
ASSUME ThrottleBounds == MaxFailures \in Nat \ {0} /\ LockSeconds \in Nat \ {0} /\ MaxTime \in Nat
\* The rules a form accepts; config.py clamps PROJECTOR_LEAD_MINUTES to a day.
ASSUME ScheduleBounds ==
  /\ DayLength \in Nat \ {0} /\ WeekLength \in Nat \ {0} /\ LastDay \in Nat \ {0} /\ NULL \notin Nat
  /\ LeadMinutes \in 0..DayLength /\ IdleMinutes \in Nat
  /\ \A rs \in RuleSets :
       /\ IsFiniteSet(rs) /\ NULL \notin rs /\ \A r, q \in rs : r.id = q.id => r = q
       /\ \A r \in rs :
            /\ r.id \in Int /\ r.prio \in Int /\ r.list # NULL
            /\ r.start \in 0..DayLength - 1 \cup {NULL} /\ r.end \in 0..DayLength - 1 \cup {NULL}
            /\ r.start # NULL => r.start # r.end
ASSUME OwnerNames == /\ NULL \notin TwoAccounts \cup ThreeAccounts
                     /\ SiteAdmin \in TwoAccounts \cap ThreeAccounts
ASSUME AlertBounds == /\ MaxAlertTime \in Nat /\ MaxDeaths \in Nat /\ RepeatAfter \in Nat
                      /\ NULL \notin 0..MaxAlertTime
                      /\ Len(Kinds) \in Nat /\ \E k \in 1..Len(Kinds) : Kinds[k] = "offline"
ASSUME CodeBounds ==
  /\ IsFiniteSet(Codes) /\ IsFiniteSet(OneCode) /\ MaxPerHour \in Nat
  /\ \A n \in {FewTokens, ManyTokens} :
       n \in Nat /\ NULL \notin 1..n /\ NULL \notin [denied : BOOLEAN, approved : BOOLEAN, token : 1..n \cup {NULL}]
ASSUME AccountBound == MaxUsers \in Nat \ {0}

shared == <<lists, req, devs, raced, rules, now, rows, users, card>>
content == <<media, items, disk, nextMedia, nextItem>>
receive == <<body, mode, at, parsing, recv, checked, written, tmp, result>>
table == <<groups, defaults, nextRow, nextToken>>
remote == <<codes, cmds, nextCmd, acked>>
access == <<nextUser, sess, who>>
throttle == <<stamps, checking, failed>>
alerts == <<run, told, crossed, lost, early, deaths>>
signin == <<age, tokens, minted, taken, late, rushed>>
lan == <<content, receive, table, remote, access, throttle, fallback>>
worker == <<alerts, signin, dev>>
vars == <<part, shared, lan, worker>>

NoContent == media = Off /\ items = Off /\ disk = Off /\ nextMedia = Off /\ nextItem = Off
NoReceive == /\ body = Off /\ mode = Off /\ at = Off /\ parsing = Off /\ recv = Off
             /\ checked = Off /\ written = Off /\ tmp = Off /\ result = Off
NoTable == groups = Off /\ defaults = Off /\ nextRow = Off /\ nextToken = Off
NoRemote == codes = Off /\ cmds = Off /\ nextCmd = Off /\ acked = Off
NoAccess == nextUser = Off /\ sess = Off /\ who = Off
NoThrottle == stamps = Off /\ checking = Off /\ failed = Off
NoAlerts == /\ run = Off /\ told = Off /\ crossed = Off
            /\ lost = Off /\ early = Off /\ deaths = Off
NoSignin == /\ age = Off /\ tokens = Off /\ minted = Off
            /\ taken = Off /\ late = Off /\ rushed = Off
NoLan == NoContent /\ NoReceive /\ NoTable /\ NoRemote /\ NoAccess /\ NoThrottle /\ fallback = Off
NoWorker == NoAlerts /\ NoSignin /\ dev = Off

Init ==
  \/ /\ \E p \in LibraryParts : part = p /\ Library(p)!Init
     /\ NoReceive /\ NoTable /\ NoRemote /\ NoAccess /\ NoThrottle /\ fallback = Off /\ NoWorker
     /\ devs = Off /\ raced = Off /\ rules = Off /\ now = Off /\ rows = Off /\ users = Off /\ card = Off
  \/ /\ part = "receive" /\ Receive!Init
     /\ NoContent /\ NoTable /\ NoRemote /\ NoAccess /\ NoThrottle /\ fallback = Off /\ NoWorker
     /\ lists = Off /\ req = Off /\ devs = Off /\ raced = Off /\ rules = Off /\ now = Off /\ rows = Off /\ users = Off /\ card = Off
  \/ /\ part = "devices" /\ Table!Init
     /\ NoContent /\ NoReceive /\ NoRemote /\ NoAccess /\ NoThrottle /\ fallback = Off /\ NoWorker
     /\ raced = Off /\ now = Off /\ rows = Off /\ users = Off
  \/ /\ part = "commands" /\ Remote!Init
     /\ NoContent /\ NoReceive /\ NoTable /\ NoAccess /\ NoThrottle /\ fallback = Off /\ NoWorker
     /\ lists = Off /\ rules = Off /\ now = Off /\ rows = Off /\ users = Off /\ card = Off
  \/ /\ part = "access" /\ Access!Init
     /\ NoContent /\ NoReceive /\ NoTable /\ NoRemote /\ NoThrottle /\ fallback = Off /\ NoWorker
     /\ lists = Off /\ devs = Off /\ rules = Off /\ now = Off /\ rows = Off /\ card = Off
  \/ /\ part = "throttle" /\ Throttle!Init
     /\ NoContent /\ NoReceive /\ NoTable /\ NoRemote /\ NoAccess /\ fallback = Off /\ NoWorker
     /\ lists = Off /\ req = Off /\ devs = Off /\ raced = Off /\ rules = Off /\ rows = Off /\ users = Off /\ card = Off
  \/ /\ part = "schedules" /\ Times!Init
     /\ NoContent /\ NoReceive /\ NoTable /\ NoRemote /\ NoAccess /\ NoThrottle /\ NoWorker
     /\ lists = Off /\ req = Off /\ devs = Off /\ raced = Off /\ rows = Off /\ users = Off /\ card = Off
  \/ /\ \E p \in AlertParts : part = p /\ Told(p)!Init
     /\ NoLan /\ NoSignin /\ dev = Off
     /\ lists = Off /\ req = Off /\ devs = Off /\ raced = Off /\ rules = Off /\ users = Off /\ card = Off
  \/ /\ \E p \in CodeParts : part = p /\ SignIn(p)!Init
     /\ NoLan /\ NoAlerts /\ dev = Off
     /\ lists = Off /\ devs = Off /\ raced = Off /\ rules = Off /\ now = Off /\ users = Off /\ card = Off
  \/ /\ \E p \in OwnerParts : part = p /\ Owners(p)!Init
     /\ NoLan /\ NoAlerts /\ NoSignin
     /\ lists = Off /\ devs = Off /\ rules = Off /\ now = Off /\ rows = Off

Next ==
  /\ UNCHANGED part
  /\ \/ /\ \E p \in LibraryParts : part = p /\ Library(p)!Next
        /\ UNCHANGED <<devs, raced, rules, now, rows, users, card, receive, table, remote, access, throttle, fallback, worker>>
     \/ /\ part = "receive" /\ Receive!Next
        /\ UNCHANGED <<shared, content, table, remote, access, throttle, fallback, worker>>
     \/ /\ part = "devices" /\ Table!Next
        /\ UNCHANGED <<raced, now, rows, users, content, receive, remote, access, throttle, fallback, worker>>
     \/ /\ part = "commands" /\ Remote!Next
        /\ UNCHANGED <<lists, rules, now, rows, users, card, content, receive, table, access, throttle, fallback, worker>>
     \/ /\ part = "access" /\ Access!Next
        /\ UNCHANGED <<lists, devs, rules, now, rows, card, content, receive, table, remote, throttle, fallback, worker>>
     \/ /\ part = "throttle" /\ Throttle!Next
        /\ UNCHANGED <<lists, req, devs, raced, rules, rows, users, card, content, receive, table, remote, access, fallback, worker>>
     \/ /\ part = "schedules" /\ Times!Next
        /\ UNCHANGED <<lists, req, devs, raced, rows, users, card, content, receive, table, remote, access, throttle, worker>>
     \/ /\ \E p \in AlertParts : part = p /\ Told(p)!Next
        /\ UNCHANGED <<lists, req, devs, raced, rules, users, card, lan, signin, dev>>
     \/ /\ \E p \in CodeParts : part = p /\ SignIn(p)!Next
        /\ UNCHANGED <<lists, devs, raced, rules, now, users, card, lan, alerts, dev>>
     \/ /\ \E p \in OwnerParts : part = p /\ Owners(p)!Next
        /\ UNCHANGED <<lists, devs, rules, now, rows, lan, alerts, signin>>

Spec == Init /\ [][Next]_vars

----------------------------------------------------------------------------
(* Inputs.                                                                   *)
\* One content under two names, and another one; a library of three files to put in order.
MCFiles == {<<"a", "x">>, <<"a", "y">>, <<"b", "x">>}
MCStored == <<>>
MCThree == <<<<"a", "x">>, <<"b", "x">>, <<"c", "x">>>>
MCKinds == <<"offline", "mpv-down">>

\* Up to four parts and blocks, a block only inside a file part, and the closing
\* boundary or not.
Parts == {"token", "badToken", "file", "badFile", "data"}
Unclosed == {s \in UNION {[1..n -> Parts] : n \in 0..4} :
               \A i \in 1..Len(s) : s[i] = "data" => i > 1 /\ s[i - 1] \in {"file", "badFile", "data"}}
MCBodies == Unclosed \cup {Append(s, "end") : s \in Unclosed}

Rule(i, p, s, e, ds, f, t) ==
  [id |-> i, list |-> "p1", prio |-> p, start |-> s, end |-> e, days |-> ds, from |-> f, to |-> t]

\* One rule of every shape a form accepts (start # end), and pairs that overlap or tie.
Alone == {{Rule(1, 0, s, e, ds, f, t)} :
            s \in {NULL, 0, 1, 2, 3}, e \in {NULL, 0, 1, 2, 3}, ds \in {{}, {0}, {1, 2}},
            f \in {NULL, 1, 2}, t \in {NULL, 2, 3}}
Accepted(r) == /\ r.start # NULL => r.start # r.end
               /\ r.from # NULL /\ r.to # NULL => r.from <= r.to
MCRuleSets ==
  {rs \in Alone : \A r \in rs : Accepted(r)}
  \cup {{Rule(1, 1, s, e, ds, NULL, NULL), Rule(2, p, u, v, {}, NULL, NULL)} :
          s \in {NULL, 3}, e \in {1, 2}, ds \in {{}, {2}}, p \in 0..2, u \in {NULL, 1, 2}, v \in {0, 3}}
MCFallbacks == {[list |-> l, groupList |-> g] : l \in {NULL, "d"}, g \in {NULL, "g"}}

\* The parts share the values they permute: Runs are Workers; Codes and Browsers, Devices.
MCSymmetry == Permutations(Workers) \cup Permutations(Devices) \cup Permutations(IrNames)

----------------------------------------------------------------------------
(* What the run checks.                                                      *)

(* The type invariant of every part.                                        *)
TypeOK ==
  /\ \A p \in LibraryParts : part = p => Library(p)!TypeOK
  /\ part = "receive" => Receive!TypeOK
  /\ part = "devices" => Table!TypeOK
  /\ part = "commands" => Remote!TypeOK
  /\ part = "access" => Access!TypeOK
  /\ part = "throttle" => Throttle!TypeOK
  /\ part = "schedules" => Times!TypeOK
  /\ \A p \in AlertParts : part = p => Told(p)!TypeOK
  /\ \A p \in CodeParts : part = p => SignIn(p)!TypeOK
  /\ \A p \in OwnerParts : part = p => Owners(p)!TypeOK

(* Whatever overlaps, the rows agree with each other: one media row per       *)
(* content, no file twice in a playlist, no reference to a row that is gone  *)
(* (web.py's checks outside the write lock, db.py's constraints).            *)
TablesAgree ==
  /\ \A p \in LibraryParts : part = p => Library(p)!OneRowPerContent /\ Library(p)!ItemsResolve
  /\ part = "devices" => Table!ReferencesResolve

(* Only a reorder changes the order of two items (_renumber_playlist).        *)
OrderKept == [][\A p \in LibraryParts : part = p => Library(p)!OrderKeptStep]_vars

(* No byte of a browser's file reaches the disk before a valid form token,    *)
(* and what is stored is one whole file (_receive_upload).                    *)
ReceivedWhole == part = "receive" => Receive!BytesNeedToken /\ Receive!StoredIsWhole

(* The token a Pi was given works until somebody ends it (api.enroll).        *)
CardTokenWorks == part = "devices" => Table!CardTokenWorks

(* Deliveries are bounded, no device has two open updates, and a learned      *)
(* code stays (_pending_commands, update-all, report_command_result).        *)
CommandsKept ==
  part = "commands" => Remote!DeliveriesBounded /\ Remote!OneOpenUpdate /\ Remote!LearnedCodesStay

(* A sign-in code gives one token that works to one taker and leaves none     *)
(* behind, and an address gets a few an hour (device_codes.js).               *)
CodesHold ==
  \A p \in CodeParts : part = p =>
    SignIn(p)!OneTaker /\ SignIn(p)!TakenWorks /\ SignIn(p)!NoStrayToken /\ SignIn(p)!HourlyBound

(* An admin is left, a session is its own account's, wrong passwords are      *)
(* bounded (users pages, current_user, login_locked_for), and sign-in codes   *)
(* hold.                                                                      *)
AccessHolds ==
  /\ part = "access" => Access!AdminLeft /\ Access!SessionIsOwn
  /\ part = "throttle" => Throttle!GuessesBounded
  /\ CodesHold

(* Alerts are stamped after they are told, told once and again only when due, *)
(* and their end is told, however runs overlap or die (alerts.evaluate).      *)
AlertsTold ==
  \A p \in AlertParts : part = p =>
    Told(p)!StampedWasTold /\ Told(p)!ToldOnce /\ Told(p)!RecoveryTold

(* A projector plays what its account owns, points at nothing else, and the   *)
(* card that syncs as it is its account's (accounts.js, device_content).      *)
OwnersKept ==
  \A p \in OwnerParts : part = p =>
    Owners(p)!PlaysOwn /\ Owners(p)!CardOfOwner /\ Owners(p)!RefsOfOwner

(* Rules match in their windows, the announced start is the next one and the  *)
(* projector follows (schedules.py, resolve_active_playlist_id,               *)
(* projector_want).                                                          *)
ScheduleRight ==
  part = "schedules" => Times!MatchesItsWindows /\ Times!AnnouncedStartIsNext /\ Times!ProjectorFollows
====
