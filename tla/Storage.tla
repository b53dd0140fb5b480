------------------------------ MODULE Storage ------------------------------
(***************************************************************************)
(* What the device keeps in its flash: the name and the frame windows.     *)
(* SID_Storage.c writes them through Memory.c, which waits in the main     *)
(* loop for the event of the file system (fds.c); ES_Commands.c            *)
(* and the entry of INIT are its callers.  The Peer Manager uses the same  *)
(* file system, and every user of it gets every event.  A reset may come   *)
(* between any two steps.                                                  *)
(*                                                                         *)
(* A step of the main loop is a piece of code between two accesses to what *)
(* an interrupt may change; a step of the file system is an interrupt at   *)
(* the end of a flash operation.                                           *)
(*                                                                         *)
(* What a command carries is its number.  A call to the file system is one *)
(* step here (FdsQueue has its interrupts) and a record is in the flash or *)
(* not (FdsPages has the pages, their collection, and the gap that hides   *)
(* what is written behind it).  Deletion and the deep sleep are not        *)
(* modelled; a configuration names at most four windows (vES_Slave_Init    *)
(* reads five into a buffer that they overflow).                           *)
(***************************************************************************)
EXTENDS Advertising, Sequences

CONSTANTS
  Window,                  \* 0 .. FRAME_CFG_NUMBER - 1
  Choice,                  \* the sets of windows that a command may configure
  QueueSize,               \* FDS_OP_QUEUE_SIZE
  \* Bounds of the model:
  MaxInputs,               \* commands that write, and entries to OPERATIONAL
  MaxFaults                \* resets, failed operations, writes of other users

ASSUME StorageAssumption ==
  /\ Choice \subseteq SUBSET Window
  /\ QueueSize \in Nat \ {0}
  /\ MaxInputs \in Nat /\ MaxFaults \in Nat

Key == {"name", "cfg"}

\* What a record or the static buffer holds: the data of command number n (0:
\* DEFAULT_NAME, or the zeros of the start), for the windows win.  "mixed": a
\* record written from a buffer that changed meanwhile.
Data == [of : Key \union {"mixed"}, n : Nat, win : SUBSET Window]
NameData(n) == [of |-> "name", n |-> n, win |-> {}]
CfgData(n, win) == [of |-> "cfg", n |-> n, win |-> win]
Mixed == [of |-> "mixed", n |-> 0, win |-> {}]
NoData == [of |-> "mixed", n |-> 1, win |-> {}]

Strange == -1              \* a window configured from other data

VARIABLES
  job,                     \* what eMemory_Write writes, and for whom
  g_u8IsMemInitialized, g_u8PendingWrite,
  g_acu32Data,             \* the static buffer of SID_Storage.c
  g_asCfgFrame,            \* the command that configured each window, 0: none
  fdsReady,                \* FDS_FLAG_INITIALIZED
  m_op_queue,              \* the operations of the file system, oldest first
  step, taken,             \* of the oldest: how far it is, the data it took
  flash,                   \* the valid records of each key
  m_latest_rec_id,
  commands, faults,        \* for the bounds
  \* History, read by no action of the code:
  acked,                   \* the last data of each key that were acknowledged
  tried,                   \* those a later command brought, without success
  hit                      \* mishaps

fdsVars == <<fdsReady, m_op_queue, step, taken, flash, m_latest_rec_id>>
ramVars == <<job, g_u8IsMemInitialized, g_u8PendingWrite, g_acu32Data,
             g_asCfgFrame>>
bounds == <<commands, faults>>
history == <<acked, tried, hit>>
vars == <<pc, ramVars, fdsVars, bounds, history, advVars>>

\* "late": the time limit passes while the operation waits or runs.
\* "foreign": an event of the Peer Manager ends the wait.
\* "cut": a reset or an error leaves the record that an update replaces.
\* "init": the name is not found only because the file system is not ready.
\* "partial": a configuration leaves out windows that an earlier one set.
Mishap == {"late", "foreign", "cut", "init", "partial"}

-----------------------------------------------------------------------------
Op(key, id, old) == [key |-> key, id |-> id, old |-> old]
Record(id, data) == [id |-> id, data |-> data]
Idle == [key |-> "none", data |-> NoData, boot |-> FALSE]

\* fds_record_find: the identity of a record of the key, 0 if it has none.  Of
\* two records the one in the lower place is found: which, the model leaves open.
Found(key) ==
  IF flash[key] = {} THEN {0} ELSE {record.id : record \in flash[key]}

Outstanding(key) == \E i \in 1..Len(m_op_queue) : m_op_queue[i].key = key

\* u8ModeMngt_BleFrameCfg.
Configured(cfg, data) ==
  [w \in Window |-> IF w \in data.win THEN data.n ELSE cfg[w]]
NoWindows == [w \in Window |-> 0]

RamInit ==
  /\ pc = "init" /\ job = Idle
  /\ g_u8IsMemInitialized = 0 /\ g_u8PendingWrite = 0
  /\ g_acu32Data = NoData
  /\ g_asCfgFrame = NoWindows

\* A device that never ran: the file system has its pages still to tag.
Init ==
  /\ RamInit
  /\ fdsReady = FALSE
  /\ m_op_queue = <<>> /\ step = "none" /\ taken = NoData
  /\ flash = [k \in Key |-> {}] /\ m_latest_rec_id = 0
  /\ commands = 0 /\ faults = 0
  /\ acked = [k \in Key |-> NoData] /\ tried = [k \in Key |-> {}]
  /\ hit = {}
  /\ AdvInit /\ entries = 0

(***************************************************************************)
(* Memory.c and SID_Storage.c in the main loop.                            *)
(***************************************************************************)
\* eMemory_Init waits for the file system and reports no error at its time
\* limit either.
eMemory_Init ==
  /\ pc = "init"
  /\ pc' = "nameRead"
  /\ g_u8IsMemInitialized' = 1
  /\ UNCHANGED <<job, g_u8PendingWrite, g_acu32Data, g_asCfgFrame, fdsVars,
                 bounds, history, advVars>>

\* eStorage_Init reads the name, and writes the default one if eMemory_Read
\* finds none, for whatever reason.
eStorage_Init ==
  /\ pc = "nameRead"
  /\ IF fdsReady /\ flash["name"] # {}
     THEN /\ pc' = "load"
          /\ \E record \in flash["name"] : g_acu32Data' = record.data
          /\ UNCHANGED <<job, hit>>
     ELSE /\ pc' = "issue"
          /\ g_acu32Data' = NameData(0)
          /\ job' = [key |-> "name", data |-> NameData(0), boot |-> TRUE]
          /\ hit' = IF flash["name"] = {} THEN hit ELSE hit \union {"init"}
  /\ UNCHANGED <<g_u8IsMemInitialized, g_u8PendingWrite, g_asCfgFrame, fdsVars,
                 bounds, acked, tried, advVars>>

\* Mutant of vES_Slave_Init: the configuration is not loaded.
vES_Slave_InitNone ==
  /\ pc = "load" /\ pc' = "idle"
  /\ UNCHANGED <<ramVars, fdsVars, bounds, history, advVars>>

\* vES_Slave_Init, with eStorage_FrameConfigRead.
vES_Slave_Init ==
  /\ pc = "load"
  /\ pc' = "idle"
  /\ IF g_u8IsMemInitialized = 1 /\ fdsReady /\ flash["cfg"] # {}
     THEN \E record \in flash["cfg"] :
          /\ g_acu32Data' = record.data
          /\ IF record.data.of = "cfg"
             THEN g_asCfgFrame' = Configured(g_asCfgFrame, record.data)
             ELSE g_asCfgFrame' \in [Window -> {0, Strange}]
     ELSE UNCHANGED <<g_acu32Data, g_asCfgFrame>>
  /\ UNCHANGED <<job, g_u8IsMemInitialized, g_u8PendingWrite, fdsVars, bounds,
                 history, advVars>>

\* What follows a write, and the answer to the phone.
Acknowledged(data) ==
  /\ acked' = [acked EXCEPT ![data.of] = data]
  /\ tried' = [tried EXCEPT ![data.of] = {}]

Answer(ok) ==
  /\ job' = Idle
  /\ IF job.boot
     THEN /\ pc' = "load"
          /\ g_u8IsMemInitialized' = IF ok THEN 1 ELSE 0
          /\ UNCHANGED <<acked, tried, advVars>>
     ELSE /\ pc' = "idle"
          /\ IF ok THEN Acknowledged(job.data) ELSE UNCHANGED <<acked, tried>>
          /\ IF ok /\ job.key = "name" THEN vBLE_UpdateName(job.data.n)
             ELSE UNCHANGED advVars
          /\ UNCHANGED g_u8IsMemInitialized

\* eMemory_Write as far as the operation is in the queue of the file system:
\* an update of the record found, or a new record.
Enqueue ==
  /\ pc = "issue"
  /\ fdsReady /\ Len(m_op_queue) < QueueSize
  /\ pc' = "flag"
  /\ m_latest_rec_id' = m_latest_rec_id + 1
  /\ \E old \in Found(job.key) :
       m_op_queue' = Append(m_op_queue, Op(job.key, m_latest_rec_id + 1, old))
  /\ UNCHANGED <<ramVars, fdsReady, step, taken, flash, bounds, history,
                 advVars>>

\* It refuses: not ready, its queue is full, no room in its pages.
Refuse ==
  /\ pc = "issue"
  /\ Answer(FALSE)
  /\ UNCHANGED <<g_u8PendingWrite, g_acu32Data, g_asCfgFrame, fdsVars, bounds,
                 hit>>

\* Mutant of PendingSet: the flag is cleared.
PendingSetNot ==
  /\ pc = "flag"
  /\ pc' = "wait"
  /\ g_u8PendingWrite' = 0
  /\ UNCHANGED <<job, g_u8IsMemInitialized, g_acu32Data, g_asCfgFrame, fdsVars,
                 bounds, history, advVars>>

PendingSet ==
  /\ pc = "flag"
  /\ pc' = "wait"
  /\ g_u8PendingWrite' = 1
  /\ UNCHANGED <<job, g_u8IsMemInitialized, g_acu32Data, g_asCfgFrame, fdsVars,
                 bounds, history, advVars>>

WaitOver ==
  /\ pc = "wait" /\ g_u8PendingWrite = 0
  /\ Answer(TRUE)
  /\ UNCHANGED <<g_u8PendingWrite, g_acu32Data, g_asCfgFrame, fdsVars, bounds,
                 hit>>

\* Mutant of TimeLimit: the wait has none.
NoTimeLimit == FALSE /\ UNCHANGED vars

\* HW_TIMEOUT.
TimeLimit ==
  /\ pc = "wait"
  /\ Answer(FALSE)
  /\ hit' = IF Outstanding(job.key) THEN hit \union {"late"} ELSE hit
  /\ UNCHANGED <<g_u8PendingWrite, g_acu32Data, g_asCfgFrame, fdsVars, bounds>>

(***************************************************************************)
(* ES_Commands.c between two jobs.                                         *)
(***************************************************************************)
Command(data) ==
  /\ pc = "idle" /\ commands + entries < MaxInputs
  /\ commands' = commands + 1
  /\ tried' = [tried EXCEPT ![data.of] = @ \union {data}]

\* eStorage_DeviceNameWrite and eStorage_FrameConfigWrite as far as the call of
\* eMemory_Write; without the memory the answer is negative at once.
WriteBegin(data) ==
  IF g_u8IsMemInitialized = 1
  THEN /\ pc' = "issue"
       /\ g_acu32Data' = data
       /\ job' = [key |-> data.of, data |-> data, boot |-> FALSE]
  ELSE UNCHANGED <<pc, g_acu32Data, job>>

CmdBleName ==
  LET data == NameData(commands + 1)
  IN /\ Command(data)
     /\ WriteBegin(data)
     /\ UNCHANGED <<g_u8IsMemInitialized, g_u8PendingWrite, g_asCfgFrame,
                    fdsVars, faults, acked, hit, advVars>>

\* The windows are configured before they are stored, and stay so whatever
\* comes of it.
CmdFrameCfgSet(win) ==
  LET data == CfgData(commands + 1, win)
  IN /\ Command(data)
     /\ WriteBegin(data)
     /\ g_asCfgFrame' = Configured(g_asCfgFrame, data)
     /\ hit' = IF \E w \in Window \ win : g_asCfgFrame[w] # 0
               THEN hit \union {"partial"} ELSE hit \ {"partial"}
     /\ UNCHANGED <<g_u8IsMemInitialized, g_u8PendingWrite, fdsVars, faults,
                    acked, advVars>>

\* It reads into the buffer that a write hands to the file system.
CmdFrameCfgGet ==
  /\ pc = "idle"
  /\ g_u8IsMemInitialized = 1 /\ fdsReady
  /\ \E record \in flash["cfg"] : g_acu32Data' = record.data
  /\ UNCHANGED <<pc, job, g_u8IsMemInitialized, g_u8PendingWrite, g_asCfgFrame,
                 fdsVars, bounds, history, advVars>>

(***************************************************************************)
(* fds.c, and vMemoryEventHandler.                                         *)
(***************************************************************************)
fdsInit ==
  /\ ~fdsReady
  /\ fdsReady' = TRUE
  /\ UNCHANGED <<pc, ramVars, m_op_queue, step, taken, flash, m_latest_rec_id,
                 bounds, history, advVars>>

Fault == faults < MaxFaults /\ faults' = faults + 1

Pop == m_op_queue' = Tail(m_op_queue) /\ step' = "none" /\ taken' = NoData

\* Mutant of vMemoryEventHandler: any end of an operation is a success.
vMemoryEventHandlerAny(success) == g_u8PendingWrite' = 0

\* Whose operation ended is not asked.
vMemoryEventHandler(success) ==
  g_u8PendingWrite' = IF success THEN 0 ELSE g_u8PendingWrite

\* The record an update replaces is looked for first; the data are read from
\* the buffer of the caller, now.
WriteStart ==
  /\ m_op_queue # <<>> /\ step = "none"
  /\ LET op == Head(m_op_queue) IN
     /\ op.key \in Key
     /\ op.old = 0 \/ \E record \in flash[op.key] : record.id = op.old
  /\ step' = "data" /\ taken' = g_acu32Data
  /\ UNCHANGED <<pc, ramVars, fdsReady, m_op_queue, flash, m_latest_rec_id,
                 bounds, history, advVars>>

\* The header makes the record valid.  A new record ends the operation.
HeaderFinalize ==
  /\ step = "data"
  /\ LET op == Head(m_op_queue) IN
     /\ \E data \in {taken, g_acu32Data} \union
                    (IF taken = g_acu32Data THEN {} ELSE {Mixed}) :
          flash' = [flash EXCEPT ![op.key] = @ \union {Record(op.id, data)}]
     /\ IF op.old = 0
        THEN Pop /\ vMemoryEventHandler(TRUE)
        ELSE /\ step' = "written"
             /\ UNCHANGED <<m_op_queue, taken, g_u8PendingWrite>>
  /\ UNCHANGED <<pc, job, g_u8IsMemInitialized, g_acu32Data, g_asCfgFrame,
                 fdsReady, m_latest_rec_id, bounds, history, advVars>>

\* The record replaced is no longer valid.
FlagDirty ==
  /\ step = "written"
  /\ LET op == Head(m_op_queue) IN
     flash' = [flash EXCEPT ![op.key] = {record \in @ : record.id # op.old}]
  /\ Pop /\ vMemoryEventHandler(TRUE)
  /\ UNCHANGED <<pc, job, g_u8IsMemInitialized, g_acu32Data, g_asCfgFrame,
                 fdsReady, m_latest_rec_id, bounds, history, advVars>>

\* A flash operation fails, or the record to replace is gone.
OperationFails ==
  /\ Fault
  /\ m_op_queue # <<>>
  /\ Pop /\ vMemoryEventHandler(FALSE)
  /\ hit' = IF step = "written" THEN hit \union {"cut"} ELSE hit
  /\ UNCHANGED <<pc, job, g_u8IsMemInitialized, g_acu32Data, g_asCfgFrame,
                 fdsReady, flash, m_latest_rec_id, commands, acked, tried,
                 advVars>>

\* The Peer Manager stores a bond.
PeerWrite ==
  /\ Fault
  /\ fdsReady /\ Len(m_op_queue) < QueueSize
  /\ m_op_queue' = Append(m_op_queue, Op("peer", 0, 0))
  /\ UNCHANGED <<pc, ramVars, fdsReady, step, taken, flash, m_latest_rec_id,
                 commands, history, advVars>>

PeerWritten ==
  /\ m_op_queue # <<>> /\ Head(m_op_queue).key = "peer"
  /\ Pop /\ vMemoryEventHandler(TRUE)
  /\ hit' = IF pc = "wait" /\ g_u8PendingWrite = 1
            THEN hit \union {"foreign"} ELSE hit
  /\ UNCHANGED <<pc, job, g_u8IsMemInitialized, g_acu32Data, g_asCfgFrame,
                 fdsReady, flash, m_latest_rec_id, bounds, acked, tried, advVars>>

\* A reset, or a loss of power.  fds_init may have work to do or none.
Reset ==
  /\ Fault
  /\ pc' = "init" /\ job' = Idle
  /\ g_u8IsMemInitialized' = 0 /\ g_u8PendingWrite' = 0
  /\ g_acu32Data' = NoData
  /\ g_asCfgFrame' = NoWindows
  /\ fdsReady' \in BOOLEAN
  /\ m_op_queue' = <<>> /\ step' = "none" /\ taken' = NoData
  /\ hit' = (IF step = "written" THEN hit \union {"cut"} ELSE hit) \ {"partial"}
  /\ AdvReset
  /\ UNCHANGED <<flash, m_latest_rec_id, commands, acked, tried>>

-----------------------------------------------------------------------------
MainLoop ==
  \/ eMemory_Init \/ eStorage_Init \/ vES_Slave_Init
  \/ Enqueue \/ Refuse \/ PendingSet \/ WaitOver \/ TimeLimit
  \/ AdvDataFill /\ UNCHANGED <<ramVars, fdsVars, bounds, history>>

Inputs ==
  \/ CmdBleName \/ CmdFrameCfgGet
  \/ \E win \in Choice : CmdFrameCfgSet(win)
  \/ /\ commands + entries < MaxInputs
     /\ vBLE_AdvDataUpdate
     /\ UNCHANGED <<ramVars, fdsVars, bounds, history>>
  \/ Reset

Interrupts ==
  \/ fdsInit \/ WriteStart \/ HeaderFinalize \/ FlagDirty \/ OperationFails
  \/ PeerWrite \/ PeerWritten
  \/ vBleNotificationRadio /\ UNCHANGED <<ramVars, fdsVars, bounds, history>>

Next == MainLoop \/ Inputs \/ Interrupts

Spec == Init /\ [][Next]_vars

\* Only the main loop is fair: flash operations may take as long as they like,
\* fail, or never end.
FairSpec == Spec /\ WF_vars(MainLoop)

-----------------------------------------------------------------------------
TypeOK ==
  /\ AdvTypeOK
  /\ pc \in {"init", "nameRead", "load", "idle", "issue", "flag", "wait",
             "advFill"}
  /\ job \in [key : Key \union {"none"}, data : Data, boot : BOOLEAN]
  /\ g_u8IsMemInitialized \in {0, 1} /\ g_u8PendingWrite \in {0, 1}
  /\ g_acu32Data \in Data
  /\ g_asCfgFrame \in [Window -> Int]
  /\ fdsReady \in BOOLEAN
  /\ m_op_queue \in Seq([key : Key \union {"peer"}, id : Nat, old : Nat])
  /\ step \in {"none", "data", "written"} /\ taken \in Data
  /\ flash \in [Key -> SUBSET [id : Nat, data : Data]]
  /\ m_latest_rec_id \in Nat
  /\ {commands, faults} \subseteq Nat
  /\ acked \in [Key -> Data] /\ tried \in [Key -> SUBSET Data]
  /\ hit \subseteq Mishap

OnTime == hit \intersect {"late", "foreign"} = {}
Tidy == hit \intersect {"late", "foreign", "cut"} = {}
Clean == hit \intersect {"late", "foreign", "cut", "init"} = {}

Writing == pc \in {"issue", "flag", "wait"}

\* A job is under way exactly while the main loop is in eMemory_Write.
JobOk ==
  /\ Writing => job.key \in Key /\ job.data.of = job.key
  /\ job.boot => Writing /\ job.data = NameData(0) /\ job.key = "name"
  /\ pc # "init" /\ (Writing \/ pc = "nameRead") => g_u8IsMemInitialized = 1

\* Only the oldest operation runs, and no operation is older than its record.
QueueOk ==
  /\ step # "none" => m_op_queue # <<>> /\ m_op_queue[1].key \in Key
  /\ step = "written" => m_op_queue[1].old # 0
  /\ \A i \in 1..Len(m_op_queue) :
       m_op_queue[i].key \in Key => /\ m_op_queue[i].id <= m_latest_rec_id
                                   /\ m_op_queue[i].id # m_op_queue[i].old
                                   /\ m_op_queue[i].id # 0
  /\ \A k \in Key : \A record \in flash[k] :
       record.id # 0 /\ record.id <= m_latest_rec_id

\* While the main loop waits in time, its operation is the only one of its own,
\* and the buffer is as it was filled.
WaitOk ==
  OnTime =>
    /\ \A i \in 1..Len(m_op_queue) : m_op_queue[i].key \in Key =>
         /\ pc = "flag" \/ (pc = "wait" /\ g_u8PendingWrite = 1)
         /\ m_op_queue[i].key = job.key
         /\ \A j \in 1..Len(m_op_queue) : m_op_queue[j].key \in Key => i = j
    /\ Writing => g_acu32Data = job.data
    /\ step = "data" => taken = job.data

\* What the records of a key are beside the operation on it.
RecordsOk ==
  /\ Tidy => \A i \in 1..Len(m_op_queue) :
       LET op == m_op_queue[i] IN
       op.key \in Key =>
         IF step = "written" /\ i = 1
         THEN \A record \in flash[op.key] :
                \/ record.id = op.old
                \/ record = Record(op.id, job.data)
         ELSE /\ \A record \in flash[op.key] : record.id = op.old
              /\ op.old # 0 => flash[op.key] # {}
              /\ \A record \in flash[op.key] : record.id # op.id
  /\ Tidy /\ step = "written" =>
       Record(m_op_queue[1].id, job.data) \in flash[m_op_queue[1].key]

\* A wait that ended well ended with the record in its place.
EndOk ==
  Tidy /\ pc = "wait" /\ g_u8PendingWrite = 0 =>
    /\ flash[job.key] # {}
    /\ \A record \in flash[job.key] : record.data = job.data

\* What a command brought is remembered until it is acknowledged, and the
\* default name is written only where none was acknowledged.
HistoryOk ==
  Clean =>
    /\ Writing /\ ~job.boot => job.data \in tried[job.key]
    /\ job.boot => acked["name"] = NoData
    /\ \A k \in Key : acked[k] # NoData => acked[k].of = k

\* "Do not do loop since we use unique key" (Memory.c:202): a key has one record
\* at most, two while an update is between its last two steps.  "cut" leaves the
\* two for ever, for the next update replaces one of them; so do two first writes
\* that are in the queue at once.
KeysUnique ==
  hit \intersect {"cut", "late", "foreign"} = {} =>
    \A k \in Key : \A r1, r2 \in flash[k] :
      r1 = r2 \/ (step = "written" /\ Head(m_op_queue).key = k)

\* A record holds the data of one write of its key: the static buffer that the
\* file system reads when it comes to it is not used for anything else until
\* then, unless the main loop stopped waiting too early.
RecordsWhole ==
  hit \intersect {"late", "foreign"} = {} =>
    \A k \in Key : \A record \in flash[k] : record.data.of = k

\* What was acknowledged to the phone is what eMemory_Read finds, at any moment
\* and after any reset, unless a later command brought other data and was not
\* acknowledged.
AckedSurvives ==
  Clean => \A k \in Key :
    acked[k] # NoData =>
      /\ flash[k] # {}
      /\ \A record \in flash[k] : record.data \in {acked[k]} \union tried[k]

StorageInv ==
  /\ TypeOK /\ AdvBufferReady
  /\ JobOk /\ QueueOk /\ WaitOk /\ RecordsOk /\ EndOk /\ HistoryOk
  /\ KeysUnique /\ RecordsWhole /\ AckedSurvives

\* The windows that run are those of the configuration last acknowledged,
\* before and after a reset.  "partial": a command that leaves out a window
\* keeps it running, and its record forgets it.
ConfigAgrees ==
  /\ Clean /\ "partial" \notin hit
  /\ pc = "idle" /\ acked["cfg"] # NoData /\ tried["cfg"] = {}
  => g_asCfgFrame = Configured(NoWindows, acked["cfg"])

\* The main loop comes back to the phone from every write, whatever becomes of
\* the flash operation and of its event.
EveryCommandAnswered == (pc # "idle") ~> (pc = "idle")
=============================================================================
