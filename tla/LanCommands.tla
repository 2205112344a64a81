---- MODULE LanCommands ----
(***************************************************************************)
(* Remote commands on the LAN console, and the infrared codes a projector   *)
(* learns by them: cms/app/routes/web.py queues, api.py hands out with the  *)
(* manifest (_pending_commands) and takes results (report_command_result,   *)
(* _store_learned_code).  Unlike the cloud's, a poll does not claim the     *)
(* rows: it reads them, then adds one delivery to each.                     *)
(***************************************************************************)
EXTENDS Integers, FiniteSets

CONSTANTS Workers,        \* threads of the request pool
          Devices,        \* ids of device rows
          IrNames,        \* db.IR_CODE_NAMES
          NULL,           \* an update command, not ir-learn
          MaxDeliveries,  \* MAX_COMMAND_DELIVERIES
          MaxCommands     \* bound: commands ever queued

VARIABLES devs,     \* device rows that exist
          codes,    \* projector_ir_codes of each
          cmds,     \* device_commands: set of [id, dev, learn, count, end]
          nextCmd,
          req,      \* what each request has read
          acked,    \* history: <<device, name>> answered as learned
          raced     \* history: devices with two results under way at once

vars == <<devs, codes, cmds, nextCmd, req, acked, raced>>

Idle == [op |-> "idle"]
Open(d) == {c \in cmds : c.dev = d /\ c.end = "open"}
Command(id, d, name) == [id |-> id, dev |-> d, learn |-> name, count |-> 0, end |-> "open"]
Becomes(w, r) == req[w] = Idle /\ req' = [req EXCEPT ![w] = r]
Ends(w) == req' = [req EXCEPT ![w] = Idle]

TypeOK ==
  /\ devs \subseteq Devices /\ codes \in [Devices -> SUBSET IrNames]
  /\ cmds \subseteq [id : 1..MaxCommands, dev : devs, learn : IrNames \cup {NULL},
                     count : 0..MaxDeliveries + Cardinality(Workers), 
                     end : {"open", "reported", "undeliverable"}]

Init ==
  /\ devs = Devices /\ codes = [d \in Devices |-> {}]
  /\ cmds = {} /\ nextCmd = 1 /\ req = [w \in Workers |-> Idle]
  /\ acked = {} /\ raced = {}

SendCommand(d, name) ==
  /\ d \in devs /\ nextCmd <= MaxCommands
  /\ cmds' = cmds \cup {Command(nextCmd, d, name)} /\ nextCmd' = nextCmd + 1
  /\ UNCHANGED <<devs, codes, req, acked, raced>>

EveryDevice == devs
\* One INSERT .. SELECT: every device without an open update gets one.
WithoutUpdate == {d \in devs : \A c \in Open(d) : c.learn # NULL}

UpdateAll ==
  LET n == Cardinality(WithoutUpdate) IN
  /\ n > 0 /\ nextCmd + n <= MaxCommands + 1
  /\ \E rank \in [WithoutUpdate -> 0..n - 1] :
       /\ \A d, e \in WithoutUpdate : d # e => rank[d] # rank[e]
       /\ cmds' = cmds \cup {Command(nextCmd + rank[d], d, NULL) : d \in WithoutUpdate}
  /\ nextCmd' = nextCmd + n
  /\ UNCHANGED <<devs, codes, req, acked, raced>>

DeleteDevice(d) ==
  /\ devs' = devs \ {d} /\ cmds' = {c \in cmds : c.dev # d}
  /\ UNCHANGED <<codes, nextCmd, req, acked, raced>>

----------------------------------------------------------------------------
PollRead(w, d) ==
  /\ Open(d) # {}
  /\ Becomes(w, [op |-> "poll", open |-> {[id |-> c.id, count |-> c.count] : c \in Open(d)}])
  /\ UNCHANGED <<devs, codes, cmds, nextCmd, acked, raced>>

\* The cap is compared with the count that was read; the count added to is the row's.
SpentNever(o) == FALSE
Spent(o) == o.count >= MaxDeliveries

HandOut(c, o) ==
  IF Spent(o) THEN IF c.end = "open" THEN [c EXCEPT !.end = "undeliverable"] ELSE c
              ELSE [c EXCEPT !.count = @ + 1]

PollWrite(w) ==
  /\ req[w].op = "poll"
  /\ cmds' = {IF \E o \in req[w].open : o.id = c.id
              THEN HandOut(c, CHOOSE o \in req[w].open : o.id = c.id) ELSE c : c \in cmds}
  /\ Ends(w)
  /\ UNCHANGED <<devs, codes, nextCmd, acked, raced>>

----------------------------------------------------------------------------
\* A result: the codes the device has are read, one is added, all are written back.
\* `code`: the answer holds a learned packet.
ReportRead(w, c, code) ==
  /\ c.count > 0 /\ code => c.learn # NULL
  /\ Becomes(w, [op |-> "report", cmd |-> c.id, dev |-> c.dev,
                 name |-> IF code THEN c.learn ELSE NULL, codes |-> codes[c.dev]])
  /\ raced' = IF \E v \in Workers : req[v].op = "report" /\ req[v].dev = c.dev
              THEN raced \cup {c.dev} ELSE raced
  /\ UNCHANGED <<devs, codes, cmds, nextCmd, acked>>

NewCodes(r) == r.codes \cup {r.name}

ReportWrite(w) ==
  /\ req[w].op = "report"
  /\ LET r == req[w] IN
       /\ IF r.name # NULL /\ r.dev \in devs
          THEN codes' = [codes EXCEPT ![r.dev] = NewCodes(r)] /\ acked' = acked \cup {<<r.dev, r.name>>}
          ELSE UNCHANGED <<codes, acked>>
       /\ cmds' = {IF c.id = r.cmd THEN [c EXCEPT !.end = "reported"] ELSE c : c \in cmds}
  /\ Ends(w)
  /\ UNCHANGED <<devs, nextCmd, raced>>

Next ==
  \/ UpdateAll
  \/ \E d \in devs :
       \/ DeleteDevice(d)
       \/ \E name \in IrNames : SendCommand(d, name)
       \/ \E w \in Workers : PollRead(w, d)
  \/ \E w \in Workers :
       \/ PollWrite(w) \/ ReportWrite(w)
       \/ \E c \in cmds, code \in BOOLEAN : ReportRead(w, c, code)

Spec == Init /\ [][Next]_vars

----------------------------------------------------------------------------
(* A command is handed out MAX_COMMAND_DELIVERIES times, and once more for    *)
(* every other poll of the device that was being answered at the same time;  *)
(* it is closed as undeliverable only after all the deliveries it has.       *)
DeliveriesBounded ==
  \A c \in cmds : /\ c.count <= MaxDeliveries + Cardinality(Workers) - 1
                  /\ c.end = "undeliverable" => c.count >= MaxDeliveries

(* The fleet button leaves every device with at most one open update,         *)
(* whatever results and deletions are under way.                             *)
OneOpenUpdate == \A d \in devs : Cardinality({c \in Open(d) : c.learn = NULL}) <= 1

(* A code the console acknowledged stays with the device, later results and   *)
(* failures notwithstanding, unless two results of that device overlapped.   *)
LearnedCodesStay ==
  \A k \in acked : k[1] \in devs \ raced => k[2] \in codes[k[1]]
====
