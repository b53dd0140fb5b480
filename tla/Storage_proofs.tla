--------------------------- MODULE Storage_proofs ---------------------------
(***************************************************************************)
(* What the flash holds is what was acknowledged, outside of the mishaps   *)
(* that the invariants name, for every set of windows, every length of the *)
(* queue of the file system and every number of commands and faults.       *)
(*                                                                         *)
(* StorageInv is inductive: that a record holds what its command brought   *)
(* follows from WaitOk (while the main loop waits in time, its operation   *)
(* is the only one of its own and the static buffer is as it was filled),  *)
(* and what becomes of the record replaced from RecordsOk.  The main loop  *)
(* learns of it by EndOk, and HistoryOk says that the default name is      *)
(* written only where none was acknowledged.  One lemma per action says    *)
(* that it keeps StorageInv.  What is on air needs a second, small         *)
(* invariant beside it.                                                    *)
(***************************************************************************)
EXTENDS Storage, TLAPS

Operation == [key : Key \union {"peer"}, id : Nat, old : Nat]
Job == [key : Key \union {"none"}, data : Data, boot : BOOLEAN]

\* The data that commands bring, and the constants beside them.
LEMMA Datas ==
  /\ \A n \in Nat : NameData(n) \in Data /\ NameData(n).of = "name"
  /\ \A n \in Nat : \A win \in SUBSET Window :
       CfgData(n, win) \in Data /\ CfgData(n, win).of = "cfg"
  /\ NoData \in Data /\ Mixed \in Data
  /\ Idle \in Job /\ ~Idle.boot
BY DEF NameData, CfgData, Data, Key, NoData, Mixed, Idle, Job

\* A record of flash.
LEMMA Keys ==
  ASSUME TypeOK, NEW k \in Key, NEW record \in flash[k]
  PROVE  record.id \in Nat /\ record.data \in Data
BY DEF TypeOK

\* What the first operation and the rest of the queue are.
LEMMA Queue ==
  ASSUME TypeOK
  PROVE  /\ m_op_queue \in Seq(Operation)
         /\ \A i \in 1..Len(m_op_queue) : m_op_queue[i] \in Operation
<1>1. m_op_queue \in Seq(Operation)
  BY DEF TypeOK, Operation
<1>2. QED BY <1>1

\* The queue without its oldest operation.
LEMMA Shorter ==
  ASSUME TypeOK, m_op_queue # <<>>
  PROVE  /\ 1 \in 1..Len(m_op_queue)
         /\ Head(m_op_queue) = m_op_queue[1]
         /\ Tail(m_op_queue) \in Seq(Operation)
         /\ \A i \in 1..Len(Tail(m_op_queue)) :
              /\ i + 1 \in 1..Len(m_op_queue)
              /\ Tail(m_op_queue)[i] = m_op_queue[i + 1]
<1>1. m_op_queue \in Seq(Operation)
  BY Queue
<1>2. QED BY <1>1

\* The queue with an operation more.
LEMMA Longer ==
  ASSUME TypeOK, NEW op \in Operation
  PROVE  /\ Append(m_op_queue, op) \in Seq(Operation)
         /\ Append(m_op_queue, op) # <<>>
         /\ Len(m_op_queue) \in Nat
         /\ Len(Append(m_op_queue, op)) = Len(m_op_queue) + 1
         /\ \A i \in 1..Len(m_op_queue) : Append(m_op_queue, op)[i] = m_op_queue[i]
         /\ Append(m_op_queue, op)[Len(m_op_queue) + 1] = op
<1>1. m_op_queue \in Seq(Operation)
  BY Queue
<1>2. QED BY <1>1

\* No operation of the main loop is under way while it does not wait for one.
LEMMA NoOperation ==
  ASSUME StorageInv, OnTime, pc \notin {"flag", "wait"}
  PROVE  /\ step = "none"
         /\ \A i \in 1..Len(m_op_queue) : m_op_queue[i].key \notin Key
<1>1. TypeOK /\ QueueOk /\ WaitOk
  BY DEF StorageInv
<1>2. \A i \in 1..Len(m_op_queue) : m_op_queue[i].key \notin Key
  BY <1>1 DEF WaitOk
<1>3. m_op_queue # <<>> => 1 \in 1..Len(m_op_queue)
  BY <1>1, Shorter
<1>4. QED BY <1>1, <1>2, <1>3 DEF QueueOk, TypeOK

\* eMemory_Init touches neither flash nor queue.
LEMMA eMemory_InitKeeps ==
  ASSUME StorageInv, eMemory_Init
  PROVE  StorageInv'
<1>0. /\ TypeOK /\ AdvBufferReady /\ JobOk /\ QueueOk /\ WaitOk /\ RecordsOk
      /\ EndOk /\ HistoryOk /\ KeysUnique /\ RecordsWhole /\ AckedSurvives
  BY DEF StorageInv
<1>1. QueueOk' /\ RecordsOk' /\ KeysUnique' /\ RecordsWhole' /\ AckedSurvives'
  BY <1>0 DEF QueueOk, RecordsOk, Tidy, KeysUnique, RecordsWhole,
     AckedSurvives, Clean, eMemory_Init, fdsVars, bounds, history, advVars
<1>2. TypeOK'
  BY <1>0 DEF TypeOK, AdvTypeOK, Key, Mishap, eMemory_Init, fdsVars, bounds,
     history, advVars
<1>3. AdvBufferReady'
  BY <1>0 DEF AdvBufferReady, eMemory_Init, fdsVars, bounds, history, advVars
<1>4. JobOk'
  BY <1>0 DEF JobOk, Writing, eMemory_Init, fdsVars, bounds, history, advVars
<1>5. WaitOk'
  BY <1>0 DEF WaitOk, OnTime, Writing, eMemory_Init, fdsVars, bounds, history,
     advVars
<1>6. EndOk'
  BY <1>0 DEF EndOk, Tidy, eMemory_Init, fdsVars, bounds, history, advVars
<1>7. HistoryOk'
  BY <1>0 DEF HistoryOk, Clean, Writing, eMemory_Init, fdsVars, bounds,
     history, advVars
<1>8. QED BY <1>1, <1>2, <1>3, <1>4, <1>5, <1>6, <1>7 DEF StorageInv

\* eStorage_Init writes the default name only if there is none, but for "init".
LEMMA eStorage_InitKeeps ==
  ASSUME StorageInv, eStorage_Init
  PROVE  StorageInv'
<1>0. /\ TypeOK /\ AdvBufferReady /\ JobOk /\ QueueOk /\ WaitOk /\ RecordsOk
      /\ EndOk /\ HistoryOk /\ KeysUnique /\ RecordsWhole /\ AckedSurvives
  BY DEF StorageInv
<1>1. QueueOk'
  BY <1>0 DEF QueueOk, eStorage_Init, fdsVars, bounds, advVars
<1>2. TypeOK'
  <2>1. job' \in Job
    <3>1. job \in Job
      BY <1>0 DEF TypeOK, Job
    <3>2. [key |-> "name", data |-> NameData(0), boot |-> TRUE] \in Job
      BY Datas DEF Job, Key
    <3>3. QED BY <3>1, <3>2 DEF eStorage_Init
  <2>2. g_acu32Data' \in Data
    BY <1>0, Datas, Keys DEF eStorage_Init, Key
  <2>3. hit' \subseteq Mishap
    BY <1>0 DEF eStorage_Init, TypeOK, Mishap
  <2>4. QED
    BY <1>0, <2>1, <2>2, <2>3 DEF TypeOK, AdvTypeOK, eStorage_Init, Job,
       fdsVars, bounds, advVars
<1>3. AdvBufferReady'
  BY <1>0 DEF AdvBufferReady, eStorage_Init, NameData, fdsVars, bounds, advVars
<1>4. JobOk'
  BY <1>0 DEF JobOk, Writing, Key, eStorage_Init, NameData, fdsVars, bounds,
     advVars
<1>5. WaitOk'
  <2>1. OnTime => /\ step = "none"
                  /\ \A i \in 1..Len(m_op_queue) : m_op_queue[i].key \notin Key
    BY NoOperation DEF eStorage_Init, StorageInv
  <2>2. OnTime' => OnTime
    BY DEF eStorage_Init, OnTime
  <2>3. pc' = "issue" => g_acu32Data' = job'.data
    BY DEF eStorage_Init
  <2>4. pc' \in {"load", "issue"} /\ UNCHANGED <<m_op_queue, step>>
    BY DEF eStorage_Init, fdsVars
  <2>5. QED BY <2>1, <2>2, <2>3, <2>4 DEF WaitOk, Writing
<1>6. RecordsOk'
  BY <1>0 DEF RecordsOk, WaitOk, QueueOk, JobOk, KeysUnique, OnTime, Tidy,
     Writing, Key, Record, eStorage_Init, NameData, fdsVars, bounds, advVars
<1>7. EndOk'
  BY <1>0 DEF EndOk, Tidy, eStorage_Init, NameData, fdsVars, bounds, advVars
<1>8. HistoryOk'
  <2>1. CASE fdsReady /\ flash["name"] # {}
    BY <1>0, <2>1 DEF HistoryOk, eStorage_Init, JobOk, Writing, Clean
  <2>2. CASE ~(fdsReady /\ flash["name"] # {}) /\ flash["name"] # {}
    BY <2>2 DEF HistoryOk, eStorage_Init, Clean
  <2>3. CASE flash["name"] = {}
    <3>1. Clean => acked["name"] = NoData
      BY <1>0, <2>3 DEF AckedSurvives, Key
    <3>2. /\ job'.boot /\ hit' = hit
          /\ UNCHANGED <<acked, tried>>
      BY <2>3 DEF eStorage_Init
    <3>3. QED BY <1>0, <3>1, <3>2 DEF HistoryOk, Clean
  <2>4. QED BY <2>1, <2>2, <2>3
<1>9. KeysUnique'
  BY <1>0 DEF KeysUnique, eStorage_Init, NameData, fdsVars, bounds, advVars
<1>10. RecordsWhole'
  BY <1>0 DEF RecordsWhole, eStorage_Init, NameData, fdsVars, bounds, advVars
<1>11. AckedSurvives'
  BY <1>0 DEF AckedSurvives, Clean, eStorage_Init, NameData, fdsVars, bounds,
     advVars
<1>12. QED BY <1>1, <1>2, <1>3, <1>4, <1>5, <1>6, <1>7, <1>8, <1>9, <1>10,
      <1>11 DEF StorageInv

\* vES_Slave_Init only reads.
LEMMA vES_Slave_InitKeeps ==
  ASSUME StorageInv, vES_Slave_Init
  PROVE  StorageInv'
<1>0. /\ TypeOK /\ AdvBufferReady /\ JobOk /\ QueueOk /\ WaitOk /\ RecordsOk
      /\ EndOk /\ HistoryOk /\ KeysUnique /\ RecordsWhole /\ AckedSurvives
  BY DEF StorageInv
<1>1. QueueOk' /\ RecordsOk' /\ KeysUnique' /\ RecordsWhole' /\ AckedSurvives'
  BY <1>0 DEF QueueOk, RecordsOk, Tidy, KeysUnique, RecordsWhole,
     AckedSurvives, Clean, vES_Slave_Init, fdsVars, bounds, history, advVars
<1>2. TypeOK'
  <2>1. g_acu32Data' \in Data
    BY <1>0, Keys DEF vES_Slave_Init, TypeOK, Key
  <2>2. \A k \in Key : \A record \in flash[k] :
          Configured(g_asCfgFrame, record.data) \in [Window -> Int]
    BY <1>0, Keys DEF Configured, TypeOK, Data
  <2>3. g_asCfgFrame' \in [Window -> Int]
    BY <1>0, <2>2 DEF vES_Slave_Init, TypeOK, Key, Strange
  <2>4. QED
    BY <1>0, <2>1, <2>3 DEF TypeOK, AdvTypeOK, vES_Slave_Init, ramVars,
       fdsVars, bounds, history, advVars
<1>3. AdvBufferReady'
  BY <1>0 DEF AdvBufferReady, vES_Slave_Init, Configured, NoWindows, fdsVars,
     bounds, history, advVars
<1>4. JobOk'
  BY <1>0 DEF JobOk, Writing, vES_Slave_Init, Configured, NoWindows, fdsVars,
     bounds, history, advVars
<1>5. WaitOk'
  BY <1>0 DEF WaitOk, OnTime, Writing, vES_Slave_Init, Configured, NoWindows,
     fdsVars, bounds, history, advVars
<1>6. EndOk'
  BY <1>0 DEF EndOk, Tidy, vES_Slave_Init, Configured, NoWindows, fdsVars,
     bounds, history, advVars
<1>7. HistoryOk'
  BY <1>0 DEF HistoryOk, Clean, Writing, vES_Slave_Init, Configured, NoWindows,
     fdsVars, bounds, history, advVars
<1>8. QED BY <1>1, <1>2, <1>3, <1>4, <1>5, <1>6, <1>7 DEF StorageInv

\* eMemory_Write: the operation is the only one of its own, and replaces the record of
\* its key.
LEMMA EnqueueKeeps ==
  ASSUME StorageInv, Enqueue
  PROVE  StorageInv'
<1>0. /\ TypeOK /\ AdvBufferReady /\ JobOk /\ QueueOk /\ WaitOk /\ RecordsOk
      /\ EndOk /\ HistoryOk /\ KeysUnique /\ RecordsWhole /\ AckedSurvives
  BY DEF StorageInv
<1>a. PICK old \in Found(job.key) :
        m_op_queue' = Append(m_op_queue, Op(job.key, m_latest_rec_id + 1, old))
  BY DEF Enqueue
<1> DEFINE op == Op(job.key, m_latest_rec_id + 1, old)
<1>c. op \in Operation
  BY <1>0, <1>a, Keys DEF Enqueue, JobOk, Writing, Op, Operation, Found, TypeOK
<1>b. /\ Len(m_op_queue) \in Nat
      /\ m_op_queue' # <<>> /\ Len(m_op_queue') = Len(m_op_queue) + 1
      /\ \A i \in 1..Len(m_op_queue) : m_op_queue'[i] = m_op_queue[i]
      /\ m_op_queue'[Len(m_op_queue) + 1] = op
      /\ m_op_queue' \in Seq(Operation)
  BY <1>0, <1>a, <1>c, Longer
<1> HIDE DEF op
<1>1. RecordsWhole' /\ AckedSurvives'
  BY <1>0 DEF RecordsWhole, AckedSurvives, Clean, Enqueue, ramVars, bounds,
     history, advVars
<1>2. TypeOK'
  <2>1. m_op_queue' \in Seq(Operation) /\ m_latest_rec_id' \in Nat
    BY <1>0, <1>b DEF Enqueue, TypeOK
  <2>2. QED
    BY <1>0, <2>1 DEF TypeOK, AdvTypeOK, Enqueue, Operation, ramVars, bounds,
       history, advVars
<1>3. AdvBufferReady'
  BY <1>0 DEF AdvBufferReady, Enqueue, Op, ramVars, bounds, history, advVars
<1>4. JobOk'
  BY <1>0 DEF JobOk, Writing, Enqueue, Op, ramVars, bounds, history, advVars
<1>5. QueueOk'
  <2>1. /\ op.key \in Key /\ op.id = m_latest_rec_id + 1 /\ op.id # 0
        /\ op.id # op.old /\ m_latest_rec_id \in Nat
    BY <1>0, <1>a, Keys DEF op, Op, Found, Enqueue, JobOk, Writing, QueueOk, TypeOK
  <2>2. \A i \in 1..Len(m_op_queue) : m_op_queue[i].id \in Nat
    BY Queue, <1>0 DEF Operation
  <2>3. \A i \in 1..Len(m_op_queue') :
          m_op_queue'[i].key \in Key => /\ m_op_queue'[i].id <= m_latest_rec_id'
                                        /\ m_op_queue'[i].id # m_op_queue'[i].old
                                        /\ m_op_queue'[i].id # 0
    BY <1>0, <1>a, <1>b, <2>1, <2>2 DEF QueueOk, Enqueue
  <2>4. step # "none" => m_op_queue'[1] = m_op_queue[1] /\ m_op_queue' # <<>>
    BY <1>0, <1>b, Shorter DEF QueueOk
  <2>5. \A k \in Key : \A record \in flash[k] :
          record.id # 0 /\ record.id <= m_latest_rec_id'
    BY <1>0, <2>1, Keys DEF QueueOk, Enqueue
  <2>6. QED BY <1>0, <2>3, <2>4, <2>5 DEF QueueOk, Enqueue
<1>6. WaitOk'
  <2>1. ASSUME OnTime
        PROVE  /\ step = "none"
               /\ \A i \in 1..Len(m_op_queue) : m_op_queue[i].key \notin Key
    BY <2>1, NoOperation DEF Enqueue
  <2>2. /\ job.key \in Key /\ op.key = job.key
        /\ OnTime => g_acu32Data = job.data
    BY <1>0 DEF Enqueue, JobOk, WaitOk, Writing, op, Op
  <2>3. OnTime' = OnTime /\ pc' = "flag"
        /\ UNCHANGED <<step, job, g_acu32Data>>
    BY DEF Enqueue, OnTime, history, ramVars
  <2>4. QED BY <1>b, <2>1, <2>2, <2>3 DEF WaitOk
<1>7. RecordsOk'
  <2>1. ASSUME Tidy
        PROVE  /\ step = "none"
               /\ \A i \in 1..Len(m_op_queue) : m_op_queue[i].key \notin Key
    BY <2>1, NoOperation DEF Enqueue, Tidy, OnTime
  <2>2. /\ /\ job.key \in Key /\ op.key = job.key
        /\ op.old = old /\ op.id = m_latest_rec_id + 1
    BY <1>0, <1>a DEF Enqueue, JobOk, Writing, op, Op
  <2>3. ASSUME Tidy
        PROVE  /\ \A record \in flash[job.key] : record.id = old
               /\ old # 0 => flash[job.key] # {}
    <3>1. \A r1, r2 \in flash[job.key] : r1 = r2
      BY <1>0, <2>1, <2>2, <2>3 DEF KeysUnique, Tidy
    <3>2. QED BY <1>a, <3>1 DEF Found
  <2>4. \A record \in flash[job.key] : record.id # op.id
    BY <1>0, <2>2, Keys DEF QueueOk, TypeOK
  <2>5. Tidy' = Tidy /\ UNCHANGED <<step, job, flash>>
    BY DEF Enqueue, Tidy, history, ramVars
  <2>6. QED BY <1>b, <2>1, <2>2, <2>3, <2>4, <2>5 DEF RecordsOk
<1>8. EndOk'
  BY <1>0 DEF EndOk, Tidy, Enqueue, Op, ramVars, bounds, history, advVars
<1>9. HistoryOk'
  BY <1>0 DEF HistoryOk, Clean, Writing, Enqueue, Op, ramVars, bounds, history,
     advVars
<1>10. KeysUnique'
  BY <1>0, Queue DEF KeysUnique, RecordsOk, WaitOk, QueueOk, JobOk, OnTime,
     Tidy, Writing, Key, Record, Enqueue, Op, ramVars, bounds, history, advVars
<1>11. QED BY <1>1, <1>2, <1>3, <1>4, <1>5, <1>6, <1>7, <1>8, <1>9, <1>10 DEF
      StorageInv

\* A write that is refused leaves flash as it is.
LEMMA RefuseKeeps ==
  ASSUME StorageInv, Refuse
  PROVE  StorageInv'
<1>0. /\ TypeOK /\ AdvBufferReady /\ JobOk /\ QueueOk /\ WaitOk /\ RecordsOk
      /\ EndOk /\ HistoryOk /\ KeysUnique /\ RecordsWhole /\ AckedSurvives
  BY DEF StorageInv
<1>1. QueueOk' /\ KeysUnique' /\ RecordsWhole'
  BY <1>0 DEF QueueOk, KeysUnique, RecordsWhole, Refuse, fdsVars, bounds,
     advVars
<1>2. TypeOK'
  <2>1. job' \in Job
    BY Datas DEF Refuse, Answer
  <2>2. acked' \in [Key -> Data] /\ tried' \in [Key -> SUBSET Data]
    BY <1>0 DEF Refuse, Answer, Acknowledged, TypeOK
  <2>3. /\ AdvTypeOK' /\ pc' \in {"load", "idle"}
        /\ g_u8IsMemInitialized' \in {0, 1}
    BY <1>0 DEF Refuse, Answer, vBLE_UpdateName, TypeOK, AdvTypeOK, Data,
       AdvMishap, AdvData, Name, advVars
  <2>4. QED
    BY <1>0, <2>1, <2>2, <2>3 DEF TypeOK, Refuse, Job, fdsVars, bounds
<1>3. AdvBufferReady'
  BY <1>0 DEF AdvBufferReady, Refuse, Answer, Acknowledged, vBLE_UpdateName,
     Idle, NoData, fdsVars, bounds, advVars
<1>4. JobOk'
  BY <1>0 DEF JobOk, Writing, Refuse, Answer, Acknowledged, vBLE_UpdateName,
     Idle, NoData, fdsVars, bounds, advVars
<1>5. WaitOk'
  BY <1>0 DEF WaitOk, QueueOk, JobOk, OnTime, Writing, Key, Refuse, Answer,
     Acknowledged, vBLE_UpdateName, Idle, NoData, fdsVars, bounds, advVars
<1>6. RecordsOk'
  BY <1>0 DEF RecordsOk, WaitOk, QueueOk, JobOk, KeysUnique, OnTime, Tidy,
     Writing, Key, Record, Refuse, Answer, Acknowledged, vBLE_UpdateName, Idle,
     NoData, fdsVars, bounds, advVars
<1>7. EndOk'
  BY <1>0 DEF EndOk, Tidy, Refuse, Answer, Acknowledged, vBLE_UpdateName, Idle,
     NoData, fdsVars, bounds, advVars
<1>8. HistoryOk'
  BY <1>0 DEF HistoryOk, Clean, Writing, Refuse, Answer, Acknowledged,
     vBLE_UpdateName, Idle, NoData, fdsVars, bounds, advVars
<1>9. AckedSurvives'
  BY <1>0 DEF AckedSurvives, Clean, Refuse, Answer, Acknowledged,
     vBLE_UpdateName, Idle, NoData, fdsVars, bounds, advVars
<1>10. QED BY <1>1, <1>2, <1>3, <1>4, <1>5, <1>6, <1>7, <1>8, <1>9 DEF
      StorageInv

\* The flag is set too late only when the operation already ended.
LEMMA PendingSetKeeps ==
  ASSUME StorageInv, PendingSet
  PROVE  StorageInv'
<1>0. /\ TypeOK /\ AdvBufferReady /\ JobOk /\ QueueOk /\ WaitOk /\ RecordsOk
      /\ EndOk /\ HistoryOk /\ KeysUnique /\ RecordsWhole /\ AckedSurvives
  BY DEF StorageInv
<1>1. QueueOk' /\ RecordsOk' /\ KeysUnique' /\ RecordsWhole' /\ AckedSurvives'
  BY <1>0 DEF QueueOk, RecordsOk, Tidy, KeysUnique, RecordsWhole,
     AckedSurvives, Clean, PendingSet, fdsVars, bounds, history, advVars
<1>2. TypeOK'
  BY <1>0 DEF TypeOK, AdvTypeOK, Key, Mishap, PendingSet, fdsVars, bounds,
     history, advVars
<1>3. AdvBufferReady'
  BY <1>0 DEF AdvBufferReady, PendingSet, fdsVars, bounds, history, advVars
<1>4. JobOk'
  BY <1>0 DEF JobOk, Writing, PendingSet, fdsVars, bounds, history, advVars
<1>5. WaitOk'
  BY <1>0 DEF WaitOk, OnTime, Writing, PendingSet, fdsVars, bounds, history,
     advVars
<1>6. EndOk'
  BY <1>0 DEF EndOk, Tidy, PendingSet, fdsVars, bounds, history, advVars
<1>7. HistoryOk'
  BY <1>0 DEF HistoryOk, Clean, Writing, PendingSet, fdsVars, bounds, history,
     advVars
<1>8. QED BY <1>1, <1>2, <1>3, <1>4, <1>5, <1>6, <1>7 DEF StorageInv

\* The write is acknowledged with its record in flash.
LEMMA WaitOverKeeps ==
  ASSUME StorageInv, WaitOver
  PROVE  StorageInv'
<1>0. /\ TypeOK /\ AdvBufferReady /\ JobOk /\ QueueOk /\ WaitOk /\ RecordsOk
      /\ EndOk /\ HistoryOk /\ KeysUnique /\ RecordsWhole /\ AckedSurvives
  BY DEF StorageInv
<1>1. QueueOk' /\ KeysUnique' /\ RecordsWhole'
  BY <1>0 DEF QueueOk, KeysUnique, RecordsWhole, WaitOver, fdsVars, bounds,
     advVars
<1>2. TypeOK'
  <2>1. job' \in Job
    BY Datas DEF WaitOver, Answer
  <2>2. acked' \in [Key -> Data] /\ tried' \in [Key -> SUBSET Data]
    BY <1>0 DEF WaitOver, Answer, Acknowledged, TypeOK
  <2>3. /\ AdvTypeOK' /\ pc' \in {"load", "idle"}
        /\ g_u8IsMemInitialized' \in {0, 1}
    BY <1>0 DEF WaitOver, Answer, vBLE_UpdateName, TypeOK, AdvTypeOK, Data,
       AdvMishap, AdvData, Name, advVars
  <2>4. QED
    BY <1>0, <2>1, <2>2, <2>3 DEF TypeOK, WaitOver, Job, fdsVars, bounds
<1>3. AdvBufferReady'
  BY <1>0 DEF AdvBufferReady, WaitOver, Answer, Acknowledged, vBLE_UpdateName,
     Idle, NoData, fdsVars, bounds, advVars
<1>4. JobOk'
  BY <1>0 DEF JobOk, Writing, WaitOver, Answer, Acknowledged, vBLE_UpdateName,
     Idle, NoData, fdsVars, bounds, advVars
<1>5. WaitOk'
  BY <1>0 DEF WaitOk, QueueOk, JobOk, OnTime, Writing, Key, WaitOver, Answer,
     Acknowledged, vBLE_UpdateName, Idle, NoData, fdsVars, bounds, advVars
<1>6. RecordsOk'
  BY <1>0 DEF RecordsOk, WaitOk, QueueOk, JobOk, KeysUnique, OnTime, Tidy,
     Writing, Key, Record, WaitOver, Answer, Acknowledged, vBLE_UpdateName,
     Idle, NoData, fdsVars, bounds, advVars
<1>7. EndOk'
  BY <1>0 DEF EndOk, Tidy, WaitOver, Answer, Acknowledged, vBLE_UpdateName,
     Idle, NoData, fdsVars, bounds, advVars
<1>8. HistoryOk'
  <2>1. CASE job.boot
    BY <1>0, <2>1, Datas DEF HistoryOk, WaitOver, Answer, Writing, Clean
  <2>2. CASE ~job.boot
    <3>1. pc' = "idle" /\ ~job'.boot /\ Clean' = Clean
      BY <2>2, Datas DEF WaitOver, Answer, Clean
    <3>2. job.data.of = job.key /\ job.key \in Key
      BY <1>0 DEF JobOk, Writing, WaitOver
    <3>3. acked' = [acked EXCEPT ![job.key] = job.data]
      BY <2>2, <3>2 DEF WaitOver, Answer, Acknowledged
    <3>4. Clean => \A k \in Key : acked'[k] # NoData => acked'[k].of = k
      BY <1>0, <3>2, <3>3 DEF HistoryOk, TypeOK
    <3>5. QED BY <3>1, <3>4 DEF HistoryOk, Writing
  <2>3. QED BY <2>1, <2>2
<1>9. AckedSurvives'
  <2>1. CASE job.boot
    BY <1>0, <2>1 DEF AckedSurvives, WaitOver, Answer, Clean, fdsVars
  <2>2. CASE ~job.boot
    <3>1. job.data.of = job.key /\ job.key \in Key
      BY <1>0 DEF JobOk, Writing, WaitOver
    <3>2. /\ acked' = [acked EXCEPT ![job.key] = job.data]
          /\ tried' = [tried EXCEPT ![job.key] = {}]
      BY <2>2, <3>1 DEF WaitOver, Answer, Acknowledged
    <3>3. Clean => /\ flash[job.key] # {}
                   /\ \A record \in flash[job.key] : record.data = job.data
      BY <1>0 DEF EndOk, WaitOver, Clean, Tidy
    <3>4. \A k \in Key : k # job.key => acked'[k] = acked[k] /\ tried'[k] = tried[k]
      BY <1>0, <3>1, <3>2 DEF TypeOK
    <3>5. acked'[job.key] = job.data
      BY <1>0, <3>1, <3>2 DEF TypeOK
    <3>6. flash' = flash /\ Clean' = Clean
      BY DEF WaitOver, Clean, fdsVars
    <3>7. QED BY <1>0, <3>3, <3>4, <3>5, <3>6 DEF AckedSurvives
  <2>3. QED BY <2>1, <2>2
<1>10. QED BY <1>1, <1>2, <1>3, <1>4, <1>5, <1>6, <1>7, <1>8, <1>9 DEF
      StorageInv

\* The write is given up: "late" if its operation is still there.
LEMMA TimeLimitKeeps ==
  ASSUME StorageInv, TimeLimit
  PROVE  StorageInv'
<1>0. /\ TypeOK /\ AdvBufferReady /\ JobOk /\ QueueOk /\ WaitOk /\ RecordsOk
      /\ EndOk /\ HistoryOk /\ KeysUnique /\ RecordsWhole /\ AckedSurvives
  BY DEF StorageInv
<1>1. QueueOk'
  BY <1>0 DEF QueueOk, TimeLimit, fdsVars, bounds, advVars
<1>2. TypeOK'
  <2>1. job' \in Job
    BY Datas DEF TimeLimit, Answer
  <2>2. acked' \in [Key -> Data] /\ tried' \in [Key -> SUBSET Data]
    BY <1>0 DEF TimeLimit, Answer, Acknowledged, TypeOK
  <2>3. /\ AdvTypeOK' /\ pc' \in {"load", "idle"}
        /\ g_u8IsMemInitialized' \in {0, 1} /\ hit' \subseteq Mishap
    BY <1>0 DEF Mishap, TimeLimit, Answer, vBLE_UpdateName, TypeOK, AdvTypeOK, Data,
       AdvMishap, AdvData, Name, advVars
  <2>4. QED
    BY <1>0, <2>1, <2>2, <2>3 DEF TypeOK, TimeLimit, Job, fdsVars, bounds
<1>3. AdvBufferReady'
  BY <1>0 DEF AdvBufferReady, TimeLimit, Answer, Acknowledged, vBLE_UpdateName,
     Idle, NoData, Outstanding, fdsVars, bounds, advVars
<1>4. JobOk'
  BY <1>0 DEF JobOk, Writing, TimeLimit, Answer, Acknowledged, vBLE_UpdateName,
     Idle, NoData, Outstanding, fdsVars, bounds, advVars
<1>5. WaitOk'
  BY <1>0 DEF WaitOk, QueueOk, JobOk, OnTime, Writing, Key, TimeLimit, Answer,
     Acknowledged, vBLE_UpdateName, Idle, NoData, Outstanding, fdsVars, bounds,
     advVars
<1>6. RecordsOk'
  BY <1>0 DEF RecordsOk, WaitOk, QueueOk, JobOk, KeysUnique, OnTime, Tidy,
     Writing, Key, Record, TimeLimit, Answer, Acknowledged, vBLE_UpdateName,
     Idle, NoData, Outstanding, fdsVars, bounds, advVars
<1>7. EndOk'
  BY <1>0 DEF EndOk, Tidy, TimeLimit, Answer, Acknowledged, vBLE_UpdateName,
     Idle, NoData, Outstanding, fdsVars, bounds, advVars
<1>8. HistoryOk'
  BY <1>0 DEF HistoryOk, Clean, Writing, TimeLimit, Answer, Acknowledged,
     vBLE_UpdateName, Idle, NoData, Outstanding, fdsVars, bounds, advVars
<1>9. KeysUnique'
  BY <1>0 DEF KeysUnique, TimeLimit, Answer, Acknowledged, vBLE_UpdateName,
     Idle, NoData, Outstanding, fdsVars, bounds, advVars
<1>10. RecordsWhole'
  BY <1>0 DEF RecordsWhole, TimeLimit, Answer, Acknowledged, vBLE_UpdateName,
     Idle, NoData, Outstanding, fdsVars, bounds, advVars
<1>11. AckedSurvives'
  BY <1>0 DEF AckedSurvives, Clean, TimeLimit, Answer, Acknowledged,
     vBLE_UpdateName, Idle, NoData, Outstanding, fdsVars, bounds, advVars
<1>12. QED BY <1>1, <1>2, <1>3, <1>4, <1>5, <1>6, <1>7, <1>8, <1>9, <1>10,
      <1>11 DEF StorageInv

\* A command brings a name.
LEMMA CmdBleNameKeeps ==
  ASSUME StorageInv, CmdBleName
  PROVE  StorageInv'
<1>0. /\ TypeOK /\ AdvBufferReady /\ JobOk /\ QueueOk /\ WaitOk /\ RecordsOk
      /\ EndOk /\ HistoryOk /\ KeysUnique /\ RecordsWhole /\ AckedSurvives
  BY DEF StorageInv
<1> DEFINE data == NameData(commands + 1)
<1>a. data \in Data /\ data.of = "name" /\ data # NoData
  BY <1>0, Datas DEF TypeOK, NoData
<1>b. /\ Command(data) /\ WriteBegin(data)
      /\ hit' \ {"partial"} = hit \ {"partial"}
      /\ UNCHANGED <<g_u8IsMemInitialized, g_u8PendingWrite, fdsVars, acked, advVars>>
  BY DEF CmdBleName
<1> HIDE DEF data
<1>1. QueueOk' /\ KeysUnique' /\ RecordsWhole'
  BY <1>0 DEF QueueOk, KeysUnique, RecordsWhole, CmdBleName, fdsVars, advVars
<1>2. TypeOK'
  <2>1. job' \in Job
    <3>1. [key |-> data.of, data |-> data, boot |-> FALSE] \in Job /\ job \in Job
      BY <1>0, <1>a DEF Job, Key, TypeOK
    <3>2. QED BY <1>b, <3>1 DEF WriteBegin
  <2>2. g_acu32Data' \in Data /\ pc' \in {"idle", "issue"}
    BY <1>0, <1>a, <1>b DEF WriteBegin, Command, TypeOK
  <2>3. tried' \in [Key -> SUBSET Data] /\ commands' \in Nat
    BY <1>0, <1>a, <1>b DEF Command, TypeOK, Key
  <2>9. QED
    BY <1>0, <1>b, <2>1, <2>2, <2>3 DEF TypeOK, AdvTypeOK, CmdBleName, Job, fdsVars, advVars
<1>3. AdvBufferReady'
  BY <1>0 DEF AdvBufferReady, CmdBleName, Command, WriteBegin, NameData,
     fdsVars, advVars
<1>4. JobOk'
  BY <1>0 DEF JobOk, Writing, Key, CmdBleName, Command, WriteBegin, NameData,
     fdsVars, advVars
<1>5. WaitOk'
  <2>1. OnTime => /\ step = "none"
                  /\ \A i \in 1..Len(m_op_queue) : m_op_queue[i].key \notin Key
    BY <1>b, NoOperation DEF Command
  <2>2. OnTime' = OnTime
    BY <1>b DEF OnTime
  <2>3. /\ pc' \in {"idle", "issue"} /\ UNCHANGED <<m_op_queue, step>>
        /\ pc' = "issue" => g_acu32Data' = job'.data
    BY <1>b DEF Command, WriteBegin, fdsVars
  <2>4. QED BY <2>1, <2>2, <2>3 DEF WaitOk, Writing
<1>6. RecordsOk'
  BY <1>0 DEF RecordsOk, WaitOk, QueueOk, JobOk, KeysUnique, OnTime, Tidy,
     Writing, Key, Record, CmdBleName, Command, WriteBegin, NameData, fdsVars,
     advVars
<1>7. EndOk'
  BY <1>0 DEF EndOk, Tidy, CmdBleName, Command, WriteBegin, NameData, fdsVars,
     advVars
<1>8. HistoryOk'
  <2>1. tried'[data.of] = tried[data.of] \union {data}
    BY <1>0, <1>a, <1>b DEF Command, TypeOK, Key
  <2>2. /\ pc = "idle" /\ ~job.boot
        /\ \/ pc' = "idle" /\ job' = job
           \/ pc' = "issue" /\ job' = [key |-> data.of, data |-> data, boot |-> FALSE]
    BY <1>0, <1>b DEF Command, WriteBegin, JobOk, Writing
  <2>3. (Clean' => Clean) /\ acked' = acked
    BY <1>b DEF Clean
  <2>4. QED BY <1>0, <2>1, <2>2, <2>3 DEF HistoryOk, Writing
<1>9. AckedSurvives'
  BY <1>0 DEF AckedSurvives, Clean, CmdBleName, Command, WriteBegin, NameData,
     fdsVars, advVars
<1>10. QED BY <1>1, <1>2, <1>3, <1>4, <1>5, <1>6, <1>7, <1>8, <1>9 DEF
      StorageInv

\* A command brings a configuration.
LEMMA CmdFrameCfgSetKeeps ==
  ASSUME StorageInv, NEW win \in Choice, CmdFrameCfgSet(win)
  PROVE  StorageInv'
<1>0. /\ TypeOK /\ AdvBufferReady /\ JobOk /\ QueueOk /\ WaitOk /\ RecordsOk
      /\ EndOk /\ HistoryOk /\ KeysUnique /\ RecordsWhole /\ AckedSurvives
  BY DEF StorageInv
<1> DEFINE data == CfgData(commands + 1, win)
<1>a. data \in Data /\ data.of = "cfg" /\ data # NoData
  <2>1. win \in SUBSET Window /\ commands + 1 \in Nat
    BY <1>0, StorageAssumption DEF TypeOK
  <2>2. data \in Data /\ data.of = "cfg"
    BY <2>1, Datas
  <2>3. QED BY <2>2 DEF NoData
<1>b. /\ Command(data) /\ WriteBegin(data)
      /\ hit' \ {"partial"} = hit \ {"partial"}
      /\ UNCHANGED <<g_u8IsMemInitialized, g_u8PendingWrite, fdsVars, acked, advVars>>
  BY DEF CmdFrameCfgSet
<1> HIDE DEF data
<1>1. QueueOk'
  BY <1>0 DEF QueueOk, CmdFrameCfgSet, fdsVars, advVars
<1>2. TypeOK'
  <2>1. job' \in Job
    <3>1. [key |-> data.of, data |-> data, boot |-> FALSE] \in Job /\ job \in Job
      BY <1>0, <1>a DEF Job, Key, TypeOK
    <3>2. QED BY <1>b, <3>1 DEF WriteBegin
  <2>2. g_acu32Data' \in Data /\ pc' \in {"idle", "issue"}
    BY <1>0, <1>a, <1>b DEF WriteBegin, Command, TypeOK
  <2>3. tried' \in [Key -> SUBSET Data] /\ commands' \in Nat
    BY <1>0, <1>a, <1>b DEF Command, TypeOK, Key
  <2>4. g_asCfgFrame' \in [Window -> Int] /\ hit' \subseteq Mishap
    BY <1>0 DEF CmdFrameCfgSet, Configured, CfgData, TypeOK, Mishap
  <2>9. QED
    BY <1>0, <1>b, <2>1, <2>2, <2>3, <2>4 DEF TypeOK, AdvTypeOK, CmdFrameCfgSet, Job, fdsVars, advVars
<1>3. AdvBufferReady'
  BY <1>0 DEF AdvBufferReady, CmdFrameCfgSet, Command, WriteBegin, CfgData,
     fdsVars, advVars
<1>4. JobOk'
  BY <1>0 DEF JobOk, Writing, Key, CmdFrameCfgSet, Command, WriteBegin,
     CfgData, fdsVars, advVars
<1>5. WaitOk'
  <2>1. OnTime => /\ step = "none"
                  /\ \A i \in 1..Len(m_op_queue) : m_op_queue[i].key \notin Key
    BY <1>b, NoOperation DEF Command
  <2>2. OnTime' = OnTime
    BY <1>b DEF OnTime
  <2>3. /\ pc' \in {"idle", "issue"} /\ UNCHANGED <<m_op_queue, step>>
        /\ pc' = "issue" => g_acu32Data' = job'.data
    BY <1>b DEF Command, WriteBegin, fdsVars
  <2>4. QED BY <2>1, <2>2, <2>3 DEF WaitOk, Writing
<1>6. RecordsOk'
  BY <1>0 DEF RecordsOk, WaitOk, QueueOk, JobOk, KeysUnique, OnTime, Tidy,
     Writing, Key, Record, CmdFrameCfgSet, Command, WriteBegin, CfgData,
     fdsVars, advVars
<1>7. EndOk'
  BY <1>0 DEF EndOk, Tidy, CmdFrameCfgSet, Command, WriteBegin, CfgData,
     fdsVars, advVars
<1>8. HistoryOk'
  <2>1. tried'[data.of] = tried[data.of] \union {data}
    BY <1>0, <1>a, <1>b DEF Command, TypeOK, Key
  <2>2. /\ pc = "idle" /\ ~job.boot
        /\ \/ pc' = "idle" /\ job' = job
           \/ pc' = "issue" /\ job' = [key |-> data.of, data |-> data, boot |-> FALSE]
    BY <1>0, <1>b DEF Command, WriteBegin, JobOk, Writing
  <2>3. (Clean' => Clean) /\ acked' = acked
    BY <1>b DEF Clean
  <2>4. QED BY <1>0, <2>1, <2>2, <2>3 DEF HistoryOk, Writing
<1>9. KeysUnique'
  BY <1>0 DEF KeysUnique, CmdFrameCfgSet, Command, WriteBegin, CfgData,
     fdsVars, advVars
<1>10. RecordsWhole'
  BY <1>0 DEF RecordsWhole, CmdFrameCfgSet, Command, WriteBegin, CfgData,
     fdsVars, advVars
<1>11. AckedSurvives'
  BY <1>0 DEF AckedSurvives, Clean, CmdFrameCfgSet, Command, WriteBegin,
     CfgData, fdsVars, advVars
<1>12. QED BY <1>1, <1>2, <1>3, <1>4, <1>5, <1>6, <1>7, <1>8, <1>9, <1>10,
      <1>11 DEF StorageInv

\* The buffer is read into only while no operation needs it.
LEMMA CmdFrameCfgGetKeeps ==
  ASSUME StorageInv, CmdFrameCfgGet
  PROVE  StorageInv'
<1>0. /\ TypeOK /\ AdvBufferReady /\ JobOk /\ QueueOk /\ WaitOk /\ RecordsOk
      /\ EndOk /\ HistoryOk /\ KeysUnique /\ RecordsWhole /\ AckedSurvives
  BY DEF StorageInv
<1>1. AdvBufferReady' /\ JobOk' /\ QueueOk' /\ RecordsOk' /\ EndOk' /\
      HistoryOk' /\ KeysUnique' /\ RecordsWhole' /\ AckedSurvives'
  BY <1>0 DEF AdvBufferReady, JobOk, Writing, QueueOk, RecordsOk, Tidy, EndOk,
     HistoryOk, Clean, KeysUnique, RecordsWhole, AckedSurvives, CmdFrameCfgGet,
     fdsVars, bounds, history, advVars
<1>2. TypeOK'
  BY <1>0 DEF TypeOK, AdvTypeOK, Key, Mishap, CmdFrameCfgGet, fdsVars, bounds,
     history, advVars
<1>3. WaitOk'
  BY <1>0 DEF WaitOk, OnTime, Writing, CmdFrameCfgGet, fdsVars, bounds,
     history, advVars
<1>4. QED BY <1>1, <1>2, <1>3 DEF StorageInv

\* The data are taken from the buffer.
LEMMA WriteStartKeeps ==
  ASSUME StorageInv, WriteStart
  PROVE  StorageInv'
<1>0. /\ TypeOK /\ AdvBufferReady /\ JobOk /\ QueueOk /\ WaitOk /\ RecordsOk
      /\ EndOk /\ HistoryOk /\ KeysUnique /\ RecordsWhole /\ AckedSurvives
  BY DEF StorageInv
<1>1. AdvBufferReady' /\ JobOk' /\ EndOk' /\ HistoryOk' /\ RecordsWhole' /\
      AckedSurvives'
  BY <1>0 DEF AdvBufferReady, JobOk, Writing, EndOk, Tidy, HistoryOk, Clean,
     RecordsWhole, AckedSurvives, WriteStart, ramVars, bounds, history, advVars
<1>2. TypeOK'
  <2>1. taken' \in Data /\ step' \in {"none", "data", "written"}
    BY <1>0 DEF WriteStart, TypeOK
  <2>2. QED
    BY <1>0, <2>1 DEF TypeOK, AdvTypeOK, WriteStart, ramVars, bounds, history,
       advVars
<1>3. QueueOk'
  BY <1>0, Shorter, Queue DEF QueueOk, WriteStart, ramVars, bounds, history,
     advVars
<1>4. WaitOk'
  BY <1>0, Shorter, Queue DEF WaitOk, OnTime, Writing, WriteStart, ramVars,
     bounds, history, advVars
<1>5. RecordsOk'
  BY <1>0, Shorter, Queue DEF RecordsOk, Tidy, WriteStart, ramVars, bounds,
     history, advVars
<1>6. KeysUnique'
  BY <1>0, Shorter, Queue DEF KeysUnique, WriteStart, ramVars, bounds, history,
     advVars
<1>7. QED BY <1>1, <1>2, <1>3, <1>4, <1>5, <1>6 DEF StorageInv

\* The new record is valid: the only one of its key, or beside the one it replaces.
LEMMA HeaderFinalizeKeeps ==
  ASSUME StorageInv, HeaderFinalize
  PROVE  StorageInv'
<1>0. /\ TypeOK /\ AdvBufferReady /\ JobOk /\ QueueOk /\ WaitOk /\ RecordsOk
      /\ EndOk /\ HistoryOk /\ KeysUnique /\ RecordsWhole /\ AckedSurvives
  BY DEF StorageInv
<1> DEFINE op == m_op_queue[1]
<1>a. /\ m_op_queue # <<>> /\ op.key \in Key /\ op \in Operation
      /\ Head(m_op_queue) = op /\ 1 \in 1..Len(m_op_queue) /\ step = "data"
  BY <1>0, Queue, Shorter DEF HeaderFinalize, QueueOk
<1>b. PICK data \in {taken, g_acu32Data} \union
                    (IF taken = g_acu32Data THEN {} ELSE {Mixed}) :
        flash' = [flash EXCEPT ![op.key] = @ \union {Record(op.id, data)}]
  BY <1>a DEF HeaderFinalize
<1>c. data \in Data
  BY <1>0, Datas DEF TypeOK
<1>d. IF op.old = 0
      THEN Pop /\ vMemoryEventHandler(TRUE)
      ELSE step' = "written" /\ UNCHANGED <<m_op_queue, taken, g_u8PendingWrite>>
  BY <1>a DEF HeaderFinalize
<1>e. flash'[op.key] = flash[op.key] \union {Record(op.id, data)}
      /\ \A k \in Key : k # op.key => flash'[k] = flash[k]
  BY <1>0, <1>a, <1>b DEF TypeOK
<1>f. OnTime => /\ op.key = job.key /\ data = job.data /\ job.data.of = job.key
                /\ pc = "flag" \/ (pc = "wait" /\ g_u8PendingWrite = 1)
  BY <1>0, <1>a DEF WaitOk, Writing, JobOk
<1>g. /\ OnTime' = OnTime /\ Tidy' = Tidy /\ Clean' = Clean
      /\ UNCHANGED <<pc, job, acked, tried, g_acu32Data>> /\ (Tidy => OnTime)
  BY DEF HeaderFinalize, OnTime, Tidy, Clean, history
<1> HIDE DEF op
<1>1. AdvBufferReady' /\ JobOk' /\ HistoryOk'
  BY <1>0 DEF AdvBufferReady, JobOk, Writing, HistoryOk, Clean, HeaderFinalize,
     bounds, history, advVars
<1>2. TypeOK'
  <2>1. flash' \in [Key -> SUBSET [id : Nat, data : Data]]
    <3>1. op.id \in Nat
      BY <1>a DEF Operation
    <3>2. Record(op.id, data) \in [id : Nat, data : Data]
      BY <1>c, <3>1 DEF Record
    <3>3. flash[op.key] \in SUBSET [id : Nat, data : Data]
      BY <1>0, <1>a DEF TypeOK
    <3>4. flash[op.key] \union {Record(op.id, data)} \in SUBSET [id : Nat, data : Data]
      BY <3>2, <3>3
    <3>5. QED BY <1>0, <1>b, <3>4 DEF TypeOK
  <2>2. /\ m_op_queue' \in Seq(Operation) /\ taken' \in Data
        /\ step' \in {"none", "written"} /\ g_u8PendingWrite' \in {0, 1}
    <3>1. m_op_queue \in Seq(Operation) /\ Tail(m_op_queue) \in Seq(Operation)
      BY <1>0, <1>a, Queue, Shorter
    <3>2. NoData \in Data /\ taken \in Data /\ g_u8PendingWrite \in {0, 1}
      BY <1>0, Datas DEF TypeOK
    <3>3. CASE op.old = 0
      BY <1>d, <3>1, <3>2, <3>3 DEF Pop, vMemoryEventHandler
    <3>4. CASE op.old # 0
      BY <1>d, <3>1, <3>2, <3>4
    <3>5. QED BY <3>3, <3>4
  <2>3. QED
    BY <1>0, <2>1, <2>2 DEF TypeOK, AdvTypeOK, HeaderFinalize, Operation,
       bounds, history, advVars
<1>3. QueueOk'
  <2>1. \A k \in Key : \A record \in flash'[k] :
          record.id # 0 /\ record.id <= m_latest_rec_id
    <3>1. op.id # 0 /\ op.id <= m_latest_rec_id
      BY <1>0, <1>a DEF QueueOk, op
    <3>2. \A record \in flash'[op.key] : record.id # 0 /\ record.id <= m_latest_rec_id
      BY <1>0, <1>a, <1>e, <3>1 DEF QueueOk, Record
    <3>3. QED BY <1>0, <1>e, <3>2 DEF QueueOk
  <2>2. m_latest_rec_id' = m_latest_rec_id
    BY DEF HeaderFinalize
  <2>3. CASE op.old = 0
    <3>1. m_op_queue' = Tail(m_op_queue) /\ step' = "none"
      BY <1>d, <2>3 DEF Pop
    <3>2. \A i \in 1..Len(m_op_queue') :
            i + 1 \in 1..Len(m_op_queue) /\ m_op_queue'[i] = m_op_queue[i + 1]
      BY <1>0, <1>a, <3>1, Shorter
    <3>3. QED BY <1>0, <2>1, <2>2, <3>1, <3>2 DEF QueueOk
  <2>4. CASE op.old # 0
    BY <1>0, <1>a, <1>d, <2>1, <2>2, <2>4 DEF QueueOk, op
  <2>5. QED BY <2>3, <2>4
<1>4. WaitOk'
  <2>1. CASE op.old = 0
    <3>1. m_op_queue' = Tail(m_op_queue) /\ step' = "none"
      BY <1>d, <2>1 DEF Pop
    <3>2. OnTime => \A i \in 1..Len(m_op_queue') : m_op_queue'[i].key \notin Key
      BY <1>0, <1>a, <3>1, Shorter DEF WaitOk, op
    <3>3. QED BY <1>0, <1>g, <3>1, <3>2 DEF WaitOk, Writing
  <2>2. CASE op.old # 0
    BY <1>0, <1>d, <1>g, <2>2 DEF WaitOk, Writing
  <2>3. QED BY <2>1, <2>2
<1>5. RecordsOk'
  <2>1. CASE op.old = 0
    <3>1. m_op_queue' = Tail(m_op_queue) /\ step' = "none"
      BY <1>d, <2>1 DEF Pop
    <3>2. OnTime => \A i \in 1..Len(m_op_queue') : m_op_queue'[i].key \notin Key
      BY <1>0, <1>a, <3>1, Shorter DEF WaitOk, op
    <3>3. QED BY <1>g, <3>1, <3>2 DEF RecordsOk
  <2>2. CASE op.old # 0
    <3>1. m_op_queue' = m_op_queue /\ step' = "written"
      BY <1>d, <2>2
    <3>2. ASSUME Tidy, NEW i \in 1..Len(m_op_queue), m_op_queue[i].key \in Key
          PROVE  i = 1
      BY <1>0, <1>a, <1>g, <3>2 DEF WaitOk, op
    <3>3. Tidy => \A record \in flash'[op.key] :
                    record.id = op.old \/ record = Record(op.id, job.data)
      BY <1>0, <1>a, <1>e, <1>f, <1>g DEF RecordsOk, op
    <3>4. Tidy => Record(op.id, job.data) \in flash'[op.key]
      BY <1>e, <1>f, <1>g
    <3>5. QED BY <1>g, <3>1, <3>2, <3>3, <3>4 DEF RecordsOk, op
  <2>3. QED BY <2>1, <2>2
<1>6. EndOk'
  <2>1. SUFFICES ASSUME Tidy, pc = "wait", g_u8PendingWrite' = 0
                 PROVE  /\ flash'[job.key] # {}
                        /\ \A record \in flash'[job.key] : record.data = job.data
    BY <1>g DEF EndOk
  <2>2. OnTime /\ op.key = job.key /\ data = job.data /\ g_u8PendingWrite = 1
    BY <1>f, <1>g, <2>1
  <2>3. op.old = 0
    <3>1. CASE op.old # 0
      <4>1. g_u8PendingWrite' = g_u8PendingWrite
        BY <1>d, <3>1
      <4>2. QED BY <2>1, <2>2, <4>1
    <3>2. QED BY <3>1
  <2>4. flash[op.key] = {}
    BY <1>0, <1>a, <2>1, <2>3 DEF RecordsOk, QueueOk, op
  <2>5. flash'[job.key] = {Record(op.id, job.data)}
    BY <1>a, <1>e, <2>2, <2>4
  <2>6. QED BY <2>5 DEF Record
<1>7. KeysUnique'
  <2>1. CASE op.old = 0
    <3>1. Tidy => flash[op.key] = {}
      BY <1>0, <1>a, <2>1 DEF RecordsOk, QueueOk, op
    <3>2. QED BY <1>0, <1>a, <1>e, <1>g, <3>1 DEF KeysUnique, Tidy
  <2>2. CASE op.old # 0
    <3>1. Head(m_op_queue') = op /\ step' = "written"
      BY <1>a, <1>d, <2>2
    <3>2. QED BY <1>0, <1>a, <1>e, <1>g, <3>1 DEF KeysUnique, Tidy
  <2>3. QED BY <2>1, <2>2
<1>8. RecordsWhole'
  <2>1. OnTime => \A record \in flash'[op.key] : record.data.of = op.key
    BY <1>0, <1>a, <1>e, <1>f DEF RecordsWhole, OnTime, Record
  <2>2. QED BY <1>0, <1>e, <1>g, <2>1 DEF RecordsWhole, OnTime
<1>9. AckedSurvives'
  <2>1. SUFFICES ASSUME Clean, NEW k \in Key, acked[k] # NoData
                 PROVE  /\ flash'[k] # {}
                        /\ \A record \in flash'[k] : record.data \in {acked[k]} \union tried[k]
    BY <1>g DEF AckedSurvives
  <2>2. CASE k # op.key
    BY <1>0, <1>e, <2>1, <2>2 DEF AckedSurvives
  <2>3. CASE k = op.key
    <3>1. job.key = k /\ data = job.data /\ ~job.boot /\ job.data \in tried[k]
      BY <1>0, <1>f, <1>g, <2>1, <2>3 DEF HistoryOk, JobOk, Writing, Clean, Tidy, OnTime
    <3>2. QED BY <1>0, <1>e, <2>1, <2>3, <3>1 DEF AckedSurvives, Record
  <2>4. QED BY <2>2, <2>3
<1>10. QED BY <1>1, <1>2, <1>3, <1>4, <1>5, <1>6, <1>7, <1>8, <1>9 DEF
      StorageInv

\* The record replaced goes; the new one is left.
LEMMA FlagDirtyKeeps ==
  ASSUME StorageInv, FlagDirty
  PROVE  StorageInv'
<1>0. /\ TypeOK /\ AdvBufferReady /\ JobOk /\ QueueOk /\ WaitOk /\ RecordsOk
      /\ EndOk /\ HistoryOk /\ KeysUnique /\ RecordsWhole /\ AckedSurvives
  BY DEF StorageInv
<1> DEFINE op == m_op_queue[1]
<1>a. /\ m_op_queue # <<>> /\ op.key \in Key /\ op \in Operation
      /\ Head(m_op_queue) = op /\ 1 \in 1..Len(m_op_queue) /\ step = "written"
  BY <1>0, Queue, Shorter DEF FlagDirty, QueueOk
<1>b. /\ flash' = [flash EXCEPT ![op.key] = {record \in @ : record.id # op.old}]
      /\ m_op_queue' = Tail(m_op_queue) /\ step' = "none" /\ taken' = NoData
      /\ g_u8PendingWrite' = 0
  BY <1>a DEF FlagDirty, Pop, vMemoryEventHandler
<1>c. /\ flash'[op.key] = {record \in flash[op.key] : record.id # op.old}
      /\ \A k \in Key : k # op.key => flash'[k] = flash[k]
  BY <1>0, <1>a, <1>b DEF TypeOK
<1>d. /\ OnTime' = OnTime /\ Tidy' = Tidy /\ Clean' = Clean
      /\ UNCHANGED <<pc, job, acked, tried, g_acu32Data>>
      /\ (Tidy => OnTime) /\ (Clean => Tidy)
  BY DEF FlagDirty, OnTime, Tidy, Clean, history
<1>e. OnTime => op.key = job.key
  BY <1>0, <1>a DEF WaitOk
<1>f. Tidy => flash'[op.key] = {Record(op.id, job.data)}
  BY <1>0, <1>a, <1>c DEF RecordsOk, QueueOk, op, Record
<1> HIDE DEF op
<1>1. AdvBufferReady' /\ JobOk' /\ HistoryOk'
  BY <1>0 DEF AdvBufferReady, JobOk, Writing, HistoryOk, Clean, FlagDirty,
     bounds, history, advVars
<1>2. TypeOK'
  <2>1. flash' \in [Key -> SUBSET [id : Nat, data : Data]]
    BY <1>0, <1>a, <1>b DEF TypeOK
  <2>2. m_op_queue' \in Seq(Operation) /\ taken' \in Data
    BY <1>0, <1>a, <1>b, Shorter, Datas
  <2>3. QED
    BY <1>0, <1>b, <2>1, <2>2 DEF TypeOK, AdvTypeOK, FlagDirty, Operation,
       bounds, history, advVars
<1>3. QueueOk'
  BY <1>0, Shorter, Queue DEF QueueOk, FlagDirty, Pop, vMemoryEventHandler,
     NoData, bounds, history, advVars
<1>4. WaitOk'
  BY <1>0, Shorter, Queue DEF WaitOk, QueueOk, JobOk, OnTime, Writing, Key,
     FlagDirty, Pop, vMemoryEventHandler, NoData, bounds, history, advVars
<1>5. RecordsOk'
  BY <1>0, Shorter, Queue DEF RecordsOk, WaitOk, QueueOk, JobOk, KeysUnique,
     OnTime, Tidy, Writing, Key, Record, FlagDirty, Pop, vMemoryEventHandler,
     NoData, bounds, history, advVars
<1>6. EndOk'
  <2>1. SUFFICES ASSUME Tidy, pc = "wait"
                 PROVE  /\ flash'[job.key] # {}
                        /\ \A record \in flash'[job.key] : record.data = job.data
    BY <1>d DEF EndOk
  <2>2. job.key = op.key /\ flash'[op.key] = {Record(op.id, job.data)}
    BY <1>d, <1>e, <1>f, <2>1
  <2>3. QED BY <2>2 DEF Record
<1>7. KeysUnique'
  BY <1>0, <1>a, <1>c, <1>d, <1>f DEF KeysUnique, Tidy
<1>8. RecordsWhole'
  BY <1>0 DEF RecordsWhole, FlagDirty, Pop, vMemoryEventHandler, NoData,
     bounds, history, advVars
<1>9. AckedSurvives'
  BY <1>0 DEF AckedSurvives, HistoryOk, EndOk, RecordsOk, WaitOk, QueueOk,
     JobOk, OnTime, Tidy, Clean, Writing, Key, Record, FlagDirty, Pop,
     vMemoryEventHandler, NoData, bounds, history, advVars
<1>10. QED BY <1>1, <1>2, <1>3, <1>4, <1>5, <1>6, <1>7, <1>8, <1>9 DEF
      StorageInv

\* A failure leaves the records; "cut" if both of them.
LEMMA OperationFailsKeeps ==
  ASSUME StorageInv, OperationFails
  PROVE  StorageInv'
<1>0. /\ TypeOK /\ AdvBufferReady /\ JobOk /\ QueueOk /\ WaitOk /\ RecordsOk
      /\ EndOk /\ HistoryOk /\ KeysUnique /\ RecordsWhole /\ AckedSurvives
  BY DEF StorageInv
<1>a. /\ m_op_queue # <<>> /\ m_op_queue' = Tail(m_op_queue)
      /\ step' = "none" /\ taken' = NoData
      /\ g_u8PendingWrite' = g_u8PendingWrite
      /\ hit \subseteq hit' /\ (step = "written" => "cut" \in hit')
      /\ UNCHANGED <<pc, job, g_acu32Data, flash>>
  BY DEF OperationFails, Pop, vMemoryEventHandler
<1>1. AdvBufferReady' /\ JobOk'
  BY <1>0 DEF AdvBufferReady, JobOk, Writing, OperationFails, advVars
<1>2. TypeOK'
  <2>1. m_op_queue' \in Seq(Operation) /\ taken' \in Data
    BY <1>0, <1>a, Shorter, Datas
  <2>2. hit' \subseteq Mishap /\ faults' \in Nat
    BY <1>0 DEF OperationFails, Fault, TypeOK, Mishap
  <2>3. QED
    BY <1>0, <1>a, <2>1, <2>2 DEF TypeOK, AdvTypeOK, OperationFails, Operation,
       advVars
<1>3. QueueOk'
  BY <1>0, Shorter, Queue DEF QueueOk, OperationFails, Fault, Pop,
     vMemoryEventHandler, NoData, advVars
<1>4. WaitOk'
  BY <1>0, Shorter, Queue DEF WaitOk, OnTime, Writing, OperationFails, Fault,
     Pop, vMemoryEventHandler, NoData, advVars
<1>5. RecordsOk'
  <2>1. Tidy' => Tidy
    BY <1>a DEF Tidy
  <2>2. ASSUME Tidy, NEW i \in 1..Len(m_op_queue'), m_op_queue'[i].key \in Key
        PROVE  LET op == m_op_queue'[i] IN
               /\ \A record \in flash[op.key] : record.id = op.old
               /\ op.old # 0 => flash[op.key] # {}
               /\ \A record \in flash[op.key] : record.id # op.id
    <3>1. /\ i + 1 \in 1..Len(m_op_queue) /\ i + 1 # 1
          /\ m_op_queue'[i] = m_op_queue[i + 1]
      BY <1>0, <1>a, <2>2, Shorter
    <3>2. QED BY <1>0, <2>2, <3>1 DEF RecordsOk
  <2>3. QED BY <1>a, <2>1, <2>2 DEF RecordsOk
<1>6. EndOk'
  BY <1>0 DEF EndOk, Tidy, OperationFails, Fault, Pop, vMemoryEventHandler,
     NoData, advVars
<1>7. HistoryOk'
  BY <1>0 DEF HistoryOk, Clean, Writing, OperationFails, Fault, Pop,
     vMemoryEventHandler, NoData, advVars
<1>8. KeysUnique'
  BY <1>0, Shorter, Queue DEF KeysUnique, OperationFails, Fault, Pop,
     vMemoryEventHandler, NoData, advVars
<1>9. RecordsWhole'
  BY <1>0 DEF RecordsWhole, OperationFails, Fault, Pop, vMemoryEventHandler,
     NoData, advVars
<1>10. AckedSurvives'
  BY <1>0 DEF AckedSurvives, Clean, OperationFails, Fault, Pop,
     vMemoryEventHandler, NoData, advVars
<1>11. QED BY <1>1, <1>2, <1>3, <1>4, <1>5, <1>6, <1>7, <1>8, <1>9, <1>10 DEF
      StorageInv

\* An operation of the Peer Manager is of another key.
LEMMA PeerWriteKeeps ==
  ASSUME StorageInv, PeerWrite
  PROVE  StorageInv'
<1>0. /\ TypeOK /\ AdvBufferReady /\ JobOk /\ QueueOk /\ WaitOk /\ RecordsOk
      /\ EndOk /\ HistoryOk /\ KeysUnique /\ RecordsWhole /\ AckedSurvives
  BY DEF StorageInv
<1>a. Op("peer", 0, 0) \in Operation
  BY DEF Op, Operation
<1>b. /\ Len(m_op_queue) \in Nat /\ m_op_queue' \in Seq(Operation)
      /\ m_op_queue' # <<>> /\ Len(m_op_queue') = Len(m_op_queue) + 1
      /\ \A i \in 1..Len(m_op_queue) : m_op_queue'[i] = m_op_queue[i]
      /\ m_op_queue'[Len(m_op_queue) + 1] = Op("peer", 0, 0)
  BY <1>0, <1>a, Longer DEF PeerWrite
<1>c. \A i \in 1..Len(m_op_queue') : m_op_queue'[i].key \in Key =>
        i \in 1..Len(m_op_queue) /\ m_op_queue'[i] = m_op_queue[i]
  BY <1>b DEF Op, Key
<1>d. step # "none" => 1 \in 1..Len(m_op_queue) /\ Head(m_op_queue) = m_op_queue[1]
                       /\ Head(m_op_queue') = Head(m_op_queue)
                       /\ m_op_queue'[1] = m_op_queue[1]
  BY <1>0, <1>b, Shorter DEF QueueOk
<1>e. UNCHANGED <<pc, ramVars, step, taken, flash, m_latest_rec_id, history>>
  BY DEF PeerWrite
<1>1. AdvBufferReady' /\ JobOk' /\ EndOk' /\ HistoryOk' /\ RecordsWhole' /\
      AckedSurvives'
  BY <1>0 DEF AdvBufferReady, JobOk, Writing, EndOk, Tidy, HistoryOk, Clean,
     RecordsWhole, AckedSurvives, PeerWrite, ramVars, history, advVars
<1>2. TypeOK'
  BY <1>0, <1>b DEF TypeOK, AdvTypeOK, PeerWrite, Fault, Operation, ramVars,
     history, advVars
<1>3. QueueOk'
  BY <1>0, <1>b, <1>c, <1>d, <1>e DEF QueueOk
<1>4. WaitOk'
  BY <1>0, <1>c, <1>e DEF WaitOk, OnTime, Writing, ramVars, history
<1>5. RecordsOk'
  BY <1>0, <1>c, <1>d, <1>e DEF RecordsOk, QueueOk, Tidy, ramVars, history
<1>6. KeysUnique'
  BY <1>0, <1>d, <1>e DEF KeysUnique, history
<1>7. QED BY <1>1, <1>2, <1>3, <1>4, <1>5, <1>6 DEF StorageInv

\* Its event ends a wait: "foreign".
LEMMA PeerWrittenKeeps ==
  ASSUME StorageInv, PeerWritten
  PROVE  StorageInv'
<1>0. /\ TypeOK /\ AdvBufferReady /\ JobOk /\ QueueOk /\ WaitOk /\ RecordsOk
      /\ EndOk /\ HistoryOk /\ KeysUnique /\ RecordsWhole /\ AckedSurvives
  BY DEF StorageInv
<1>a. /\ m_op_queue' = Tail(m_op_queue) /\ step' = "none"
      /\ g_u8PendingWrite' = 0 /\ m_op_queue # <<>> /\ m_op_queue[1].key \notin Key
      /\ UNCHANGED <<pc, job, g_acu32Data, flash>>
  BY <1>0, Shorter DEF PeerWritten, Pop, vMemoryEventHandler, Key
<1>b. OnTime' => OnTime /\ ~(pc = "wait" /\ g_u8PendingWrite = 1)
  BY DEF PeerWritten, OnTime
<1>1. AdvBufferReady' /\ JobOk'
  BY <1>0 DEF AdvBufferReady, JobOk, Writing, PeerWritten, bounds, advVars
<1>2. TypeOK'
  <2>1. m_op_queue' \in Seq(Operation) /\ taken' \in Data
    BY <1>0, <1>a, Shorter, Datas DEF PeerWritten, Pop
  <2>2. hit' \subseteq Mishap
    BY <1>0 DEF PeerWritten, TypeOK, Mishap
  <2>3. QED
    BY <1>0, <1>a, <2>1, <2>2 DEF TypeOK, AdvTypeOK, PeerWritten, Operation,
       bounds, advVars
<1>3. QueueOk'
  BY <1>0, Shorter, Queue DEF QueueOk, PeerWritten, Pop, vMemoryEventHandler,
     NoData, bounds, advVars
<1>4. WaitOk'
  <2>1. ASSUME OnTime', NEW i \in 1..Len(m_op_queue'), m_op_queue'[i].key \in Key
        PROVE  /\ pc = "flag" /\ m_op_queue'[i].key = job.key
               /\ \A j \in 1..Len(m_op_queue') : m_op_queue'[j].key \in Key => i = j
    BY <1>0, <1>a, <1>b, <2>1, Shorter DEF WaitOk
  <2>2. QED BY <1>0, <1>a, <1>b, <2>1 DEF WaitOk, Writing
<1>5. RecordsOk'
  <2>1. Tidy' => Tidy
    BY DEF PeerWritten, Tidy
  <2>2. ASSUME Tidy, NEW i \in 1..Len(m_op_queue'), m_op_queue'[i].key \in Key
        PROVE  LET op == m_op_queue'[i] IN
               /\ \A record \in flash[op.key] : record.id = op.old
               /\ op.old # 0 => flash[op.key] # {}
               /\ \A record \in flash[op.key] : record.id # op.id
    <3>1. /\ i + 1 \in 1..Len(m_op_queue) /\ i + 1 # 1
          /\ m_op_queue'[i] = m_op_queue[i + 1]
      BY <1>0, <1>a, <2>2, Shorter
    <3>2. QED BY <1>0, <2>2, <3>1 DEF RecordsOk
  <2>3. QED BY <1>a, <2>1, <2>2 DEF RecordsOk
<1>6. EndOk'
  <2>1. Tidy' => Tidy /\ OnTime'
    BY DEF PeerWritten, Tidy, OnTime
  <2>2. QED BY <1>0, <1>a, <1>b, <2>1 DEF EndOk, TypeOK
<1>7. HistoryOk'
  BY <1>0 DEF HistoryOk, Clean, Writing, PeerWritten, Pop, vMemoryEventHandler,
     NoData, bounds, advVars
<1>8. KeysUnique'
  BY <1>0, Shorter, Queue DEF KeysUnique, RecordsOk, WaitOk, QueueOk, JobOk,
     OnTime, Tidy, Writing, Key, Record, PeerWritten, Pop, vMemoryEventHandler,
     NoData, bounds, advVars
<1>9. RecordsWhole'
  BY <1>0 DEF RecordsWhole, PeerWritten, Pop, vMemoryEventHandler, NoData,
     bounds, advVars
<1>10. AckedSurvives'
  BY <1>0 DEF AckedSurvives, Clean, PeerWritten, Pop, vMemoryEventHandler,
     NoData, bounds, advVars
<1>11. QED BY <1>1, <1>2, <1>3, <1>4, <1>5, <1>6, <1>7, <1>8, <1>9, <1>10 DEF
      StorageInv

\* A reset leaves flash, and no operation.
LEMMA ResetKeeps ==
  ASSUME StorageInv, Reset
  PROVE  StorageInv'
<1>0. /\ TypeOK /\ AdvBufferReady /\ JobOk /\ QueueOk /\ WaitOk /\ RecordsOk
      /\ EndOk /\ HistoryOk /\ KeysUnique /\ RecordsWhole /\ AckedSurvives
  BY DEF StorageInv
<1>1. TypeOK'
  <2>1. job' \in Job /\ g_acu32Data' \in Data /\ taken' \in Data
    BY Datas DEF Reset
  <2>2. m_op_queue' \in Seq(Operation)
    BY DEF Reset
  <2>3. g_asCfgFrame' \in [Window -> Int] /\ hit' \subseteq Mishap /\ faults' \in Nat
    BY <1>0 DEF Reset, Fault, NoWindows, TypeOK, Mishap
  <2>4. AdvTypeOK'
    BY <1>0 DEF Reset, AdvReset, TypeOK, AdvTypeOK, Default, Name, AdvData, AdvMishap
  <2>5. QED
    BY <1>0, <2>1, <2>2, <2>3, <2>4 DEF TypeOK, Reset, Job, Operation
<1>2. AdvBufferReady'
  BY <1>0 DEF AdvBufferReady, Reset, Fault, Idle, NoData, NoWindows, AdvReset
<1>3. JobOk'
  BY <1>0 DEF JobOk, Writing, Reset, Fault, Idle, NoData, NoWindows, AdvReset
<1>4. QueueOk'
  BY <1>0 DEF QueueOk, Reset, Fault, Idle, NoData, NoWindows, AdvReset
<1>5. WaitOk'
  BY <1>0 DEF WaitOk, OnTime, Writing, Reset, Fault, Idle, NoData, NoWindows,
     AdvReset
<1>6. RecordsOk'
  BY <1>0 DEF RecordsOk, Tidy, Reset, Fault, Idle, NoData, NoWindows, AdvReset
<1>7. EndOk'
  BY <1>0 DEF EndOk, Tidy, Reset, Fault, Idle, NoData, NoWindows, AdvReset
<1>8. HistoryOk'
  BY <1>0 DEF HistoryOk, Clean, Writing, Reset, Fault, Idle, NoData, NoWindows,
     AdvReset
<1>9. KeysUnique'
  BY <1>0 DEF KeysUnique, Reset, Fault, Idle, NoData, NoWindows, AdvReset
<1>10. RecordsWhole'
  BY <1>0 DEF RecordsWhole, Reset, Fault, Idle, NoData, NoWindows, AdvReset
<1>11. AckedSurvives'
  BY <1>0 DEF AckedSurvives, Clean, Reset, Fault, Idle, NoData, NoWindows,
     AdvReset
<1>12. QED BY <1>1, <1>2, <1>3, <1>4, <1>5, <1>6, <1>7, <1>8, <1>9, <1>10,
      <1>11 DEF StorageInv

\* The file system comes up.
LEMMA fdsInitKeeps ==
  ASSUME StorageInv, fdsInit
  PROVE  StorageInv'
<1>0. /\ TypeOK /\ AdvBufferReady /\ JobOk /\ QueueOk /\ WaitOk /\ RecordsOk
      /\ EndOk /\ HistoryOk /\ KeysUnique /\ RecordsWhole /\ AckedSurvives
  BY DEF StorageInv
<1>1. AdvBufferReady' /\ JobOk' /\ QueueOk' /\ WaitOk' /\ RecordsOk' /\ EndOk'
      /\ HistoryOk' /\ KeysUnique' /\ RecordsWhole' /\ AckedSurvives'
  BY <1>0 DEF AdvBufferReady, JobOk, Writing, QueueOk, WaitOk, OnTime,
     RecordsOk, Tidy, EndOk, HistoryOk, Clean, KeysUnique, RecordsWhole,
     AckedSurvives, fdsInit, ramVars, bounds, history, advVars
<1>2. TypeOK'
  BY <1>0 DEF TypeOK, AdvTypeOK, Key, Mishap, fdsInit, ramVars, bounds,
     history, advVars
<1>3. QED BY <1>1, <1>2 DEF StorageInv

\* What the steps of Advertising leave as it is, in the state of Storage.
LEMMA AdvStepKeeps ==
  ASSUME StorageInv, UNCHANGED <<ramVars, fdsVars, bounds, history>>,
         {pc, pc'} \subseteq {"idle", "advFill"} \/ pc' = pc,
         AdvTypeOK', AdvBufferReady'
  PROVE  StorageInv'
<1>1. (Writing' <=> Writing) /\ (pc' # pc => ~Writing)
  BY DEF Writing
<1>2. TypeOK' /\ JobOk'
  BY <1>1 DEF StorageInv, TypeOK, JobOk, ramVars, fdsVars, bounds, history
<1>3. QueueOk' /\ RecordsOk' /\ KeysUnique' /\ RecordsWhole' /\ AckedSurvives'
  BY DEF StorageInv, QueueOk, RecordsOk, KeysUnique, RecordsWhole,
     AckedSurvives, OnTime, Tidy, Clean, ramVars, fdsVars, history
<1>4. WaitOk' /\ EndOk' /\ HistoryOk'
  BY <1>1 DEF StorageInv, WaitOk, EndOk, HistoryOk, OnTime, Tidy, Clean,
     Writing, ramVars, fdsVars, history
<1>5. QED BY <1>2, <1>3, <1>4 DEF StorageInv

\* The three steps of Advertising.
LEMMA AdvDataFillKeeps ==
  ASSUME StorageInv, AdvDataFill, UNCHANGED <<ramVars, fdsVars, bounds, history>>
  PROVE  StorageInv'
<1>1. AdvTypeOK /\ AdvBufferReady
  BY DEF StorageInv, TypeOK
<1>2. AdvTypeOK' /\ AdvBufferReady'
  BY <1>1 DEF AdvTypeOK, AdvBufferReady, AdvDataFill, Name, AdvData, Torn
<1>3. QED BY <1>2, AdvStepKeeps DEF AdvDataFill

\* vBLE_AdvDataUpdate.
LEMMA vBLE_AdvDataUpdateKeeps ==
  ASSUME StorageInv, vBLE_AdvDataUpdate,
         UNCHANGED <<ramVars, fdsVars, bounds, history>>
  PROVE  StorageInv'
<1>1. AdvTypeOK /\ AdvBufferReady
  BY DEF StorageInv, TypeOK
<1>2. AdvTypeOK' /\ AdvBufferReady'
  BY <1>1 DEF AdvTypeOK, AdvBufferReady, vBLE_AdvDataUpdate, AdvData, AdvMishap
<1>3. QED BY <1>2, AdvStepKeeps DEF vBLE_AdvDataUpdate

\* vBleNotificationRadio.
LEMMA vBleNotificationRadioKeeps ==
  ASSUME StorageInv, vBleNotificationRadio,
         UNCHANGED <<ramVars, fdsVars, bounds, history>>
  PROVE  StorageInv'
<1>1. AdvTypeOK /\ AdvBufferReady
  BY DEF StorageInv, TypeOK
<1>2. AdvTypeOK' /\ AdvBufferReady'
  BY <1>1 DEF AdvTypeOK, AdvBufferReady, vBleNotificationRadio
<1>3. QED BY <1>2, AdvStepKeeps DEF vBleNotificationRadio

\* The inductive invariant holds at the start, ...
LEMMA StorageInit == Init => StorageInv
<1> SUFFICES ASSUME Init PROVE StorageInv
  OBVIOUS
<1>0. /\ RamInit /\ AdvInit /\ entries = 0
      /\ fdsReady = FALSE /\ m_op_queue = <<>> /\ step = "none" /\ taken = NoData
      /\ flash = [k \in Key |-> {}] /\ m_latest_rec_id = 0
      /\ commands = 0 /\ faults = 0 /\ hit = {}
      /\ acked = [k \in Key |-> NoData] /\ tried = [k \in Key |-> {}]
  BY DEF Init
<1>1. m_op_queue = <<>> /\ Len(m_op_queue) = 0 /\ m_op_queue \in Seq(Operation)
  BY <1>0
<1>2. TypeOK /\ AdvBufferReady
  <2>1. g_asCfgFrame \in [Window -> Int]
    BY <1>0 DEF RamInit, NoWindows
  <2>2. /\ job \in Job /\ g_acu32Data \in Data /\ taken \in Data
        /\ pc = "init" /\ g_u8IsMemInitialized = 0 /\ g_u8PendingWrite = 0
    BY <1>0, Datas DEF RamInit
  <2>3. /\ acked \in [Key -> Data] /\ tried \in [Key -> SUBSET Data]
        /\ flash \in [Key -> SUBSET [id : Nat, data : Data]]
    BY <1>0, Datas
  <2>4. AdvTypeOK /\ AdvBufferReady
    BY <1>0 DEF AdvInit, AdvTypeOK, AdvBufferReady, Name, AdvData, Default, Torn
  <2>5. /\ m_latest_rec_id \in Nat /\ {commands, faults} \subseteq Nat
        /\ hit \subseteq Mishap
    BY <1>0
  <2>6. QED
    BY <1>0, <1>1, <2>1, <2>2, <2>3, <2>4, <2>5 DEF TypeOK, Operation, Job
<1>3. JobOk /\ QueueOk /\ WaitOk /\ RecordsOk /\ EndOk /\ HistoryOk
  BY <1>0, <1>1 DEF RamInit, JobOk, QueueOk, WaitOk, RecordsOk, EndOk,
     HistoryOk, Writing, Idle
<1>4. KeysUnique /\ RecordsWhole /\ AckedSurvives
  BY <1>0 DEF KeysUnique, RecordsWhole, AckedSurvives
<1>5. QED BY <1>2, <1>3, <1>4 DEF StorageInv

\* ... and every step keeps it.
LEMMA StorageNext == StorageInv /\ [Next]_vars => StorageInv'
<1> SUFFICES ASSUME StorageInv, [Next]_vars PROVE StorageInv'
  OBVIOUS
<1>1. CASE MainLoop
  BY <1>1, eMemory_InitKeeps, eStorage_InitKeeps, vES_Slave_InitKeeps,
     EnqueueKeeps, RefuseKeeps, PendingSetKeeps, WaitOverKeeps, TimeLimitKeeps,
     AdvDataFillKeeps DEF MainLoop
<1>2. CASE Inputs
  BY <1>2, CmdBleNameKeeps, CmdFrameCfgGetKeeps, CmdFrameCfgSetKeeps,
     vBLE_AdvDataUpdateKeeps, ResetKeeps DEF Inputs
<1>3. CASE Interrupts
  BY <1>3, fdsInitKeeps, WriteStartKeeps, HeaderFinalizeKeeps, FlagDirtyKeeps,
     OperationFailsKeeps, PeerWriteKeeps, PeerWrittenKeeps,
     vBleNotificationRadioKeeps DEF Interrupts
<1>4. CASE UNCHANGED vars
  <2>1. AdvTypeOK' /\ AdvBufferReady'
    BY <1>4 DEF StorageInv, TypeOK, AdvTypeOK, AdvBufferReady, vars, advVars
  <2>2. QED BY <1>4, <2>1, AdvStepKeeps DEF vars
<1>5. QED BY <1>1, <1>2, <1>3, <1>4 DEF Next

\* StorageInv is an invariant: the type of the state, and what the theorems below
\* rest on (Memory.c, SID_Storage.c and their callers).
THEOREM StorageInvariant == Spec => []StorageInv
<1>1. Init => StorageInv
  BY StorageInit
<1>2. StorageInv /\ [Next]_vars => StorageInv'
  BY StorageNext
<1>3. QED BY <1>1, <1>2, PTL DEF Spec

\* A key has one record, two during an update (Memory.c:204).
THEOREM OneRecordOfAKey == Spec => []KeysUnique
<1>1. StorageInv => KeysUnique
  BY DEF StorageInv
<1>2. QED BY <1>1, StorageInvariant, PTL

\* A record holds the data of one write: the static buffer of SID_Storage.c is not
\* filled again before the file system read it.
THEOREM RecordsOfOneWrite == Spec => []RecordsWhole
<1>1. StorageInv => RecordsWhole
  BY DEF StorageInv
<1>2. QED BY <1>1, StorageInvariant, PTL

\* What eMemory_Write acknowledged is in flash from then on, through resets.
THEOREM AcknowledgedIsStored == Spec => []AckedSurvives
<1>1. StorageInv => AckedSurvives
  BY DEF StorageInv
<1>2. QED BY <1>1, StorageInvariant, PTL

-----------------------------------------------------------------------------
\* The data on air, with what StorageInv says of the data that wait for it.
AdvInv == AdvertisedWhole /\ AdvertisedNameCurrent

\* vBLE_UpdateName puts the name on air.
LEMMA RenamedKeeps ==
  ASSUME AdvInv, NEW name \in Nat, vBLE_UpdateName(name)
  PROVE  AdvInv'
BY DEF AdvInv, AdvertisedWhole, AdvertisedNameCurrent, vBLE_UpdateName, Torn

\* The end of a write changes the name, or nothing on air.
LEMMA AnswerAdvertises ==
  ASSUME StorageInv, AdvInv, NEW ok \in BOOLEAN, Answer(ok)
  PROVE  AdvInv'
<1>1. job.data.n \in Nat
  BY DEF StorageInv, TypeOK, Data
<1>2. CASE vBLE_UpdateName(job.data.n)
  BY <1>1, <1>2, RenamedKeeps
<1>3. CASE UNCHANGED advVars
  BY <1>3 DEF AdvInv, AdvertisedWhole, AdvertisedNameCurrent, advVars
<1>4. QED BY <1>2, <1>3 DEF Answer

\* Every step keeps what is on air whole and current.
LEMMA AdvNext == StorageInv /\ AdvInv /\ [Next]_vars => AdvInv'
<1> SUFFICES ASSUME StorageInv, AdvInv, [Next]_vars PROVE AdvInv'
  OBVIOUS
<1>1. CASE UNCHANGED advVars
  BY <1>1 DEF AdvInv, AdvertisedWhole, AdvertisedNameCurrent, advVars
<1>2. CASE Refuse \/ WaitOver \/ TimeLimit
  BY <1>2, AnswerAdvertises DEF Refuse, WaitOver, TimeLimit
<1>3. CASE vBLE_AdvDataUpdate
  BY <1>3 DEF AdvInv, AdvertisedWhole, AdvertisedNameCurrent, vBLE_AdvDataUpdate
<1>4. CASE AdvDataFill
  BY <1>4 DEF AdvInv, AdvertisedWhole, AdvertisedNameCurrent, AdvDataFill
<1>5. CASE vBleNotificationRadio
  <2>1. AdvTypeOK /\ AdvBufferReady
    BY DEF StorageInv, TypeOK
  <2>2. g_bHasToSetAdvertise /\ Torn \notin Name
    BY <1>5 DEF vBleNotificationRadio, Torn, Name
  <2>3. advHit' = IF air' = g_achBleDeviceName THEN {} ELSE advHit
    BY <1>5 DEF vBleNotificationRadio
  <2>4. g_achBleDeviceName' = g_achBleDeviceName
        /\ (air' = g_au8AdvData \/ (g_au8AdvData = Torn /\ air' = air))
    BY <1>5 DEF vBleNotificationRadio
  <2>5. CASE air' = g_achBleDeviceName
    BY <2>1, <2>2, <2>3, <2>4, <2>5 DEF AdvInv, AdvertisedWhole,
       AdvertisedNameCurrent, AdvTypeOK
  <2>6. CASE air' # g_achBleDeviceName
    <3>1. advHit' = advHit
      BY <2>3, <2>6
    <3>2. "torn" \notin advHit => air' # Torn
      BY <2>1, <2>2, <2>4 DEF AdvBufferReady, AdvInv, AdvertisedWhole
    <3>3. advHit # {}
      BY <2>1, <2>2, <2>4, <2>6 DEF AdvBufferReady, AdvInv, AdvertisedNameCurrent
    <3>4. QED BY <2>4, <3>1, <3>2, <3>3 DEF AdvInv, AdvertisedWhole, AdvertisedNameCurrent
  <2>7. QED BY <2>5, <2>6
<1>6. CASE Reset
  BY <1>6 DEF Reset, AdvReset, AdvInv, AdvertisedWhole, AdvertisedNameCurrent,
     Default, Torn
<1>7. QED
  BY <1>1, <1>2, <1>3, <1>4, <1>5, <1>6 DEF Next, MainLoop, Inputs, Interrupts,
     vars, eMemory_Init, eStorage_Init, vES_Slave_Init, Enqueue, PendingSet,
     CmdBleName, CmdFrameCfgGet, CmdFrameCfgSet, fdsInit, WriteStart,
     HeaderFinalize, FlagDirty, OperationFails, PeerWrite, PeerWritten

\* What is on air is whole and current, outside of the mishaps.
THEOREM OnAir == Spec => []AdvInv
<1>1. Init => AdvInv
  BY DEF Init, AdvInit, AdvInv, AdvertisedWhole, AdvertisedNameCurrent, Default,
     Torn
<1>2. StorageInv /\ AdvInv /\ [Next]_vars => AdvInv'
  BY AdvNext
<1>3. QED BY <1>1, <1>2, StorageInvariant, PTL DEF Spec

\* The advertising data on air are whole (vBLE_AdvDataUpdate and the interrupt).
THEOREM WholeOnAir == Spec => []AdvertisedWhole
<1>1. AdvInv => AdvertisedWhole
  BY DEF AdvInv
<1>2. QED BY <1>1, OnAir, PTL

\* The name on air is the name of the device (vBLE_UpdateName).
THEOREM NameOnAir == Spec => []AdvertisedNameCurrent
<1>1. AdvInv => AdvertisedNameCurrent
  BY DEF AdvInv
<1>2. QED BY <1>1, OnAir, PTL

-----------------------------------------------------------------------------
(***************************************************************************)
(* The windows that run are those of the configuration last acknowledged,  *)
(* before and after a reset, for every set of windows and every number of  *)
(* commands and faults.                                                    *)
(*                                                                         *)
(* That the configuration is in flash is AckedSurvives (Storage_proofs).   *)
(* What is left is the RAM: g_asCfgFrame is empty until the configuration  *)
(* is loaded, and it is loaded because a device that acknowledged one has  *)
(* its name in flash too, finds it at the start and keeps its memory       *)
(* (eStorage_Init gives it up only where a first name cannot be written).  *)
(***************************************************************************)
\* Until vES_Slave_Init is through.
Booting == pc \in {"init", "nameRead", "load"} \/ job.boot

CfgBoot == Booting => g_asCfgFrame = NoWindows

NameKept ==
  Clean =>
    /\ acked["cfg"] # NoData => flash["name"] # {}
    /\ g_u8IsMemInitialized = 1 /\ pc \notin {"init", "nameRead"} /\ ~job.boot
         => flash["name"] # {}
    /\ job.boot => acked["cfg"] = NoData
    /\ pc = "load" /\ acked["cfg"] # NoData
         => g_u8IsMemInitialized = 1 /\ fdsReady

CfgKept ==
  Clean /\ "partial" \notin hit =>
    /\ Writing /\ job.key = "cfg"
         => g_asCfgFrame = Configured(NoWindows, job.data)
    /\ ~Booting /\ acked["cfg"] # NoData /\ tried["cfg"] = {}
         => g_asCfgFrame = Configured(NoWindows, acked["cfg"])

CfgInv == CfgBoot /\ NameKept /\ CfgKept

-----------------------------------------------------------------------------
\* A mishap of the storage is not forgotten.
LEMMA MishapsStay == [Next]_vars /\ Clean' => Clean
<1> SUFFICES ASSUME [Next]_vars, Clean' PROVE Clean
  OBVIOUS
<1> USE DEF Clean
<1>1. CASE MainLoop
  BY <1>1 DEF MainLoop, eMemory_Init, eStorage_Init, vES_Slave_Init, Enqueue,
     Refuse, PendingSet, WaitOver, TimeLimit, history
<1>2. CASE Inputs
  BY <1>2 DEF Inputs, CmdBleName, CmdFrameCfgGet, CmdFrameCfgSet, Reset, history
<1>3. CASE Interrupts
  BY <1>3 DEF Interrupts, fdsInit, WriteStart, HeaderFinalize, FlagDirty,
     OperationFails, PeerWrite, PeerWritten, history
<1>4. CASE UNCHANGED vars
  BY <1>4 DEF vars, history
<1>5. QED BY <1>1, <1>2, <1>3, <1>4 DEF Next

\* A device that has a name in flash keeps one: the record that an update
\* replaces goes after the one that replaces it has come.
LEMMA NameStays ==
  ASSUME StorageInv, Clean, [Next]_vars, flash["name"] # {}
  PROVE  flash'["name"] # {}
<1>1. TypeOK /\ QueueOk /\ RecordsOk /\ Tidy
  BY DEF StorageInv, Clean, Tidy
<1>2. CASE HeaderFinalize
  <2>1. PICK key, record :
          flash' = [flash EXCEPT ![key] = @ \union {record}]
    BY <1>2 DEF HeaderFinalize
  <2>2. flash["name"] \subseteq flash'["name"]
    BY <1>1, <2>1 DEF TypeOK, Key
  <2>3. QED BY <2>2
<1>3. CASE FlagDirty
  <2> DEFINE op == m_op_queue[1]
  <2>1. step = "written" /\ m_op_queue # <<>> /\ op.key \in Key
    BY <1>1, <1>3 DEF FlagDirty, QueueOk
  <2>2. /\ 1 \in 1 .. Len(m_op_queue) /\ Head(m_op_queue) = op
        /\ op.id # op.old
    BY <1>1, <2>1, Shorter DEF QueueOk
  <2>3. flash' = [flash EXCEPT ![op.key] =
                    {record \in @ : record.id # op.old}]
    BY <1>3, <2>2 DEF FlagDirty
  <2>4. Record(op.id, job.data) \in flash[op.key]
    BY <1>1, <2>1 DEF RecordsOk
  <2> HIDE DEF op
  <2>5. CASE op.key = "name"
    <3>1. flash'["name"] = {record \in flash["name"] : record.id # op.old}
      BY <1>1, <2>1, <2>3, <2>5 DEF TypeOK
    <3>2. Record(op.id, job.data).id = op.id
      BY DEF Record
    <3>3. QED BY <2>2, <2>4, <2>5, <3>1, <3>2
  <2>6. CASE op.key # "name"
    BY <1>1, <2>1, <2>3, <2>6 DEF TypeOK, Key
  <2>7. QED BY <2>5, <2>6
<1>4. CASE ~ (HeaderFinalize \/ FlagDirty)
  <2>1. flash' = flash
    BY <1>4 DEF Next, MainLoop, Inputs, Interrupts, eMemory_Init,
       eStorage_Init, vES_Slave_Init, Enqueue, Refuse, PendingSet, WaitOver,
       TimeLimit, CmdBleName, CmdFrameCfgGet, CmdFrameCfgSet, Reset, fdsInit,
       WriteStart, OperationFails, PeerWrite, PeerWritten, fdsVars, vars
  <2>2. QED BY <2>1
<1>5. QED BY <1>2, <1>3, <1>4

\* Steps that touch neither the windows nor what the phone knows of them.
LEMMA QuietKeeps ==
  ASSUME CfgInv, StorageInv, [Next]_vars,
         UNCHANGED <<job, g_u8IsMemInitialized, g_asCfgFrame, acked, tried>>,
         fdsReady => fdsReady', "partial" \in hit => "partial" \in hit',
         pc' = pc \/ (~ (pc \in {"init", "nameRead", "load"})
                      /\ ~ (pc' \in {"init", "nameRead", "load"})
                      /\ (Writing' => Writing))
  PROVE  CfgInv'
<1>1. Clean' => Clean
  BY MishapsStay
<1>2. Clean /\ flash["name"] # {} => flash'["name"] # {}
  BY NameStays
<1>3. (Booting' <=> Booting) /\ (Writing' => Writing)
  BY DEF Booting, Writing
<1>4. CfgBoot'
  BY <1>3 DEF CfgInv, CfgBoot
<1>5. NameKept'
  BY <1>1, <1>2 DEF CfgInv, NameKept
<1>6. CfgKept'
  BY <1>1, <1>3 DEF CfgInv, CfgKept
<1>7. QED BY <1>4, <1>5, <1>6 DEF CfgInv

\* eMemory_Init, before the name is looked for.
LEMMA eMemory_InitKeepsCfg ==
  ASSUME CfgInv, StorageInv, eMemory_Init
  PROVE  CfgInv'
<1>1. /\ pc = "init" /\ pc' = "nameRead"
      /\ UNCHANGED <<job, g_asCfgFrame, flash, acked, tried, hit>>
  BY DEF eMemory_Init, fdsVars, history
<1>2. CfgBoot' /\ CfgKept'
  BY <1>1 DEF CfgInv, CfgBoot, CfgKept, Booting, Writing
<1>3. NameKept'
  BY <1>1 DEF CfgInv, NameKept, Clean
<1>4. QED BY <1>2, <1>3 DEF CfgInv

\* eStorage_Init: where no name is found, no configuration was acknowledged.
LEMMA eStorage_InitKeepsCfg ==
  ASSUME CfgInv, StorageInv, eStorage_Init
  PROVE  CfgInv'
<1>1. /\ pc = "nameRead" /\ g_asCfgFrame = NoWindows
      /\ UNCHANGED <<g_asCfgFrame, g_u8IsMemInitialized, fdsReady, flash, acked,
                     tried>>
  BY DEF eStorage_Init, fdsVars, CfgInv, CfgBoot, Booting
<1>2. g_u8IsMemInitialized = 1 /\ ~job.boot
  BY <1>1 DEF StorageInv, JobOk, Writing
<1>3. CASE fdsReady /\ flash["name"] # {}
  <2>1. pc' = "load" /\ UNCHANGED <<job, hit>>
    BY <1>3 DEF eStorage_Init
  <2>2. CfgBoot' /\ CfgKept'
    BY <1>1, <2>1 DEF CfgBoot, CfgKept, Booting, Writing
  <2>3. NameKept'
    BY <1>1, <1>2, <1>3, <2>1 DEF NameKept
  <2>4. QED BY <2>2, <2>3 DEF CfgInv
<1>4. CASE ~ (fdsReady /\ flash["name"] # {})
  <2>1. /\ pc' = "issue" /\ job'.boot /\ job'.key = "name"
        /\ hit' = IF flash["name"] = {} THEN hit ELSE hit \union {"init"}
    BY <1>4 DEF eStorage_Init
  <2>2. CfgBoot' /\ CfgKept'
    BY <1>1, <2>1 DEF CfgBoot, CfgKept, Booting
  <2>3. Clean' => Clean /\ flash["name"] = {}
    BY <2>1 DEF Clean
  <2>4. NameKept'
    BY <1>1, <2>1, <2>3 DEF CfgInv, NameKept
  <2>5. QED BY <2>2, <2>4 DEF CfgInv
<1>5. QED BY <1>3, <1>4

\* vES_Slave_Init finds the configuration that was acknowledged.
LEMMA vES_Slave_InitKeepsCfg ==
  ASSUME CfgInv, StorageInv, vES_Slave_Init
  PROVE  CfgInv'
<1>1. /\ pc = "load" /\ pc' = "idle" /\ g_asCfgFrame = NoWindows
      /\ UNCHANGED <<job, g_u8IsMemInitialized, fdsReady, flash, acked, tried,
                     hit>>
      /\ ~job.boot
  BY DEF vES_Slave_Init, fdsVars, history, CfgInv, CfgBoot, Booting,
     StorageInv, JobOk, Writing
<1>2. CfgBoot'
  BY <1>1 DEF CfgBoot, Booting
<1>3. NameKept'
  BY <1>1 DEF CfgInv, NameKept, Clean
<1>4. CfgKept'
  <2> SUFFICES ASSUME Clean, acked["cfg"] # NoData, tried["cfg"] = {}
               PROVE  g_asCfgFrame' = Configured(NoWindows, acked["cfg"])
    BY <1>1 DEF CfgKept, Writing, Clean
  <2>1. g_u8IsMemInitialized = 1 /\ fdsReady
    BY <1>1 DEF CfgInv, NameKept
  <2>2. "cfg" \in Key
    BY DEF Key
  <2>3. /\ flash["cfg"] # {} /\ acked["cfg"].of = "cfg"
        /\ \A record \in flash["cfg"] : record.data = acked["cfg"]
    BY <2>2 DEF StorageInv, AckedSurvives, HistoryOk
  <2>4. PICK record \in flash["cfg"] :
          IF record.data.of = "cfg"
          THEN g_asCfgFrame' = Configured(g_asCfgFrame, record.data)
          ELSE g_asCfgFrame' \in [Window -> {0, Strange}]
    BY <2>1, <2>3 DEF vES_Slave_Init
  <2>5. QED BY <1>1, <2>3, <2>4
<1>5. QED BY <1>2, <1>3, <1>4 DEF CfgInv

\* The end of a write: a boot goes on without its memory if there was no place
\* for the first name.
LEMMA AnswerKeepsCfg ==
  ASSUME CfgInv, StorageInv, [Next]_vars, NEW ok \in BOOLEAN,
         Writing, Answer(ok), UNCHANGED <<g_asCfgFrame, flash>>,
         "partial" \in hit => "partial" \in hit',
         ok => pc = "wait" /\ g_u8PendingWrite = 0
  PROVE  CfgInv'
<1>1. Clean' => Clean
  BY MishapsStay
<1>2. job' = Idle /\ ~job'.boot
  BY Datas DEF Answer
<1>3. CASE job.boot
  <2>1. /\ pc' = "load" /\ UNCHANGED <<acked, tried>>
        /\ g_u8IsMemInitialized' = IF ok THEN 1 ELSE 0
    BY <1>3 DEF Answer
  <2>2. CfgBoot' /\ CfgKept'
    BY <1>3, <2>1 DEF CfgInv, CfgBoot, CfgKept, Booting, Writing
  <2>3. Clean /\ ok => flash["name"] # {}
    BY <1>3 DEF StorageInv, EndOk, JobOk, Clean, Tidy
  <2>4. NameKept'
    BY <1>1, <1>3, <2>1, <2>3, <1>2 DEF CfgInv, NameKept
  <2>5. QED BY <2>2, <2>4 DEF CfgInv
<1>4. CASE ~job.boot
  <2>1. /\ pc' = "idle" /\ UNCHANGED g_u8IsMemInitialized
        /\ IF ok THEN Acknowledged(job.data) ELSE UNCHANGED <<acked, tried>>
    BY <1>4 DEF Answer
  <2>2. g_u8IsMemInitialized = 1 /\ job.key \in Key /\ job.data.of = job.key
    BY DEF StorageInv, JobOk, Writing
  <2>3. Clean => flash["name"] # {}
    BY <1>4, <2>2 DEF CfgInv, NameKept, Writing
  <2>4. CfgBoot'
    BY <1>2, <2>1 DEF CfgBoot, Booting
  <2>5. NameKept'
    BY <1>1, <1>2, <2>1, <2>3 DEF NameKept
  <2>6. CfgKept'
    <3> SUFFICES ASSUME Clean', "partial" \notin hit', acked'["cfg"] # NoData,
                        tried'["cfg"] = {}
                 PROVE  g_asCfgFrame' = Configured(NoWindows, acked'["cfg"])
      BY <2>1 DEF CfgKept, Writing
    <3>1. Clean /\ "partial" \notin hit /\ CfgKept
      BY <1>1 DEF CfgInv
    <3>2. CASE ok /\ job.key = "cfg"
      <4>1. acked'["cfg"] = job.data
        BY <2>1, <2>2, <3>2 DEF Acknowledged, StorageInv, TypeOK
      <4>2. QED BY <3>1, <3>2, <4>1 DEF CfgKept
    <3>3. CASE ~ok \/ job.key # "cfg"
      <4>1. acked'["cfg"] = acked["cfg"] /\ tried'["cfg"] = tried["cfg"]
        BY <2>1, <2>2, <3>3 DEF Acknowledged, StorageInv, TypeOK, Key
      <4>2. ~Booting
        BY <1>4 DEF Booting, Writing
      <4>3. QED BY <3>1, <4>1, <4>2 DEF CfgKept
    <3>4. QED BY <3>2, <3>3
  <2>7. QED BY <2>4, <2>5, <2>6 DEF CfgInv
<1>5. QED BY <1>3, <1>4

\* A new name leaves the windows as they are.
LEMMA CmdBleNameKeepsCfg ==
  ASSUME CfgInv, StorageInv, CmdBleName
  PROVE  CfgInv'
<1> DEFINE data == NameData(commands + 1)
<1>1. /\ pc = "idle" /\ pc' \in {"idle", "issue"}
      /\ tried' = [tried EXCEPT !["name"] = @ \union {data}]
      /\ job' = job \/ (~job'.boot /\ job'.key = "name")
      /\ UNCHANGED <<g_u8IsMemInitialized, g_asCfgFrame, fdsReady, flash, acked,
                     hit>>
      /\ pc' = "issue" => job'.key = "name"
  BY DEF CmdBleName, Command, WriteBegin, NameData, fdsVars
<1>2. ~job.boot
  BY <1>1 DEF StorageInv, JobOk, Writing
<1>3. tried'["cfg"] = tried["cfg"]
  BY <1>1 DEF StorageInv, TypeOK, Key
<1>4. CfgBoot'
  BY <1>1, <1>2 DEF CfgBoot, Booting
<1>5. NameKept'
  BY <1>1, <1>2 DEF CfgInv, NameKept, Clean
<1>6. CfgKept'
  BY <1>1, <1>2, <1>3 DEF CfgInv, CfgKept, Booting, Writing, Clean
<1>7. QED BY <1>4, <1>5, <1>6 DEF CfgInv

\* A configuration that leaves out no window that runs is all that runs.
LEMMA CmdFrameCfgSetKeepsCfg ==
  ASSUME CfgInv, StorageInv, NEW win \in Choice, CmdFrameCfgSet(win)
  PROVE  CfgInv'
<1> DEFINE data == CfgData(commands + 1, win)
<1>1. /\ pc = "idle" /\ pc' \in {"idle", "issue"}
      /\ tried' = [tried EXCEPT !["cfg"] = @ \union {data}]
      /\ job' = job \/ (~job'.boot /\ job'.key = "cfg")
      /\ pc' = "issue" => job'.data = data
      /\ g_asCfgFrame' = Configured(g_asCfgFrame, data)
      /\ hit' = IF \E w \in Window \ win : g_asCfgFrame[w] # 0
                THEN hit \union {"partial"} ELSE hit \ {"partial"}
      /\ UNCHANGED <<g_u8IsMemInitialized, fdsReady, flash, acked>>
  BY DEF CmdFrameCfgSet, Command, WriteBegin, CfgData, fdsVars
<1>2. ~job.boot
  BY <1>1 DEF StorageInv, JobOk, Writing
<1>3. Clean' => Clean
  BY <1>1 DEF Clean
<1>4. CfgBoot'
  BY <1>1, <1>2 DEF CfgBoot, Booting
<1>5. NameKept'
  BY <1>1, <1>2, <1>3 DEF CfgInv, NameKept
<1>6. tried'["cfg"] # {}
  BY <1>1 DEF StorageInv, TypeOK, Key
<1>7. ASSUME "partial" \notin hit'
      PROVE  g_asCfgFrame' = Configured(NoWindows, data)
  <2>1. \A w \in Window \ win : g_asCfgFrame[w] = 0
    BY <1>1, <1>7
  <2>2. data.win = win
    BY DEF CfgData
  <2>3. QED BY <1>1, <2>1, <2>2 DEF Configured, NoWindows
<1>8. CfgKept'
  BY <1>1, <1>6, <1>7 DEF CfgKept, Writing
<1>9. QED BY <1>4, <1>5, <1>8 DEF CfgInv

\* A reset, or a loss of power.
LEMMA ResetKeepsCfg ==
  ASSUME CfgInv, StorageInv, Reset
  PROVE  CfgInv'
<1>1. /\ pc' = "init" /\ job' = Idle /\ ~job'.boot /\ g_asCfgFrame' = NoWindows
      /\ UNCHANGED <<flash, acked, tried>>
  BY Datas DEF Reset
<1>2. Clean' => Clean
  BY DEF Reset, Clean
<1>3. CfgBoot' /\ CfgKept'
  BY <1>1 DEF CfgBoot, CfgKept, Booting, Writing
<1>4. NameKept'
  BY <1>1, <1>2 DEF CfgInv, NameKept
<1>5. QED BY <1>3, <1>4 DEF CfgInv

\* Every step keeps the windows that run with the configuration acknowledged.
LEMMA CfgNext == StorageInv /\ CfgInv /\ [Next]_vars => CfgInv'
<1> SUFFICES ASSUME StorageInv, CfgInv, [Next]_vars PROVE CfgInv'
  OBVIOUS
<1>1. CASE eMemory_Init \/ eStorage_Init \/ vES_Slave_Init
  BY <1>1, eMemory_InitKeepsCfg, eStorage_InitKeepsCfg, vES_Slave_InitKeepsCfg
<1>2. CASE Refuse
  <2>1. Writing /\ Answer(FALSE) /\ UNCHANGED <<g_asCfgFrame, flash, hit>>
    BY <1>2 DEF Refuse, Writing, fdsVars
  <2>2. QED BY <2>1, AnswerKeepsCfg
<1>3. CASE TimeLimit
  <2>1. /\ Writing /\ Answer(FALSE) /\ UNCHANGED <<g_asCfgFrame, flash>>
        /\ "partial" \in hit => "partial" \in hit'
    BY <1>3 DEF TimeLimit, Writing, fdsVars
  <2>2. QED BY <2>1, AnswerKeepsCfg
<1>4. CASE WaitOver
  <2>1. /\ Writing /\ Answer(TRUE) /\ UNCHANGED <<g_asCfgFrame, flash, hit>>
        /\ pc = "wait" /\ g_u8PendingWrite = 0
    BY <1>4 DEF WaitOver, Writing, fdsVars
  <2>2. QED BY <2>1, AnswerKeepsCfg
<1>5. CASE CmdBleName \/ Reset \/ \E win \in Choice : CmdFrameCfgSet(win)
  BY <1>5, CmdBleNameKeepsCfg, ResetKeepsCfg, CmdFrameCfgSetKeepsCfg
<1>6. CASE Enqueue \/ PendingSet
  <2>1. /\ UNCHANGED <<job, g_u8IsMemInitialized, g_asCfgFrame, acked, tried,
                       fdsReady, hit>>
        /\ pc \in {"issue", "flag"} /\ pc' \in {"flag", "wait"}
    BY <1>6 DEF Enqueue, PendingSet, ramVars, fdsVars, history
  <2>2. QED BY <2>1, QuietKeeps DEF Writing
<1>7. CASE CmdFrameCfgGet
  BY <1>7, QuietKeeps DEF CmdFrameCfgGet, fdsVars, history, Writing
<1>8. CASE Interrupts
  <2>1. CASE /\ vBleNotificationRadio
             /\ UNCHANGED <<ramVars, fdsVars, bounds, history>>
    BY <2>1, QuietKeeps DEF vBleNotificationRadio, ramVars, fdsVars, history
  <2>2. CASE ~ (vBleNotificationRadio
                /\ UNCHANGED <<ramVars, fdsVars, bounds, history>>)
    <3>1. /\ UNCHANGED <<job, g_u8IsMemInitialized, g_asCfgFrame, acked, tried,
                         pc>>
          /\ fdsReady' = TRUE \/ fdsReady' = fdsReady
          /\ hit \subseteq hit'
      <4>1. CASE fdsInit \/ WriteStart \/ PeerWrite
        BY <4>1 DEF fdsInit, WriteStart, PeerWrite, ramVars, history
      <4>2. CASE HeaderFinalize \/ FlagDirty
        BY <4>2 DEF HeaderFinalize, FlagDirty, history
      <4>3. CASE OperationFails \/ PeerWritten
        BY <4>3 DEF OperationFails, PeerWritten
      <4>4. QED BY <1>8, <2>2, <4>1, <4>2, <4>3 DEF Interrupts
    <3>2. QED BY <3>1, QuietKeeps
  <2>3. QED BY <2>1, <2>2
<1>9. CASE /\ AdvDataFill \/ vBLE_AdvDataUpdate
           /\ UNCHANGED <<ramVars, fdsVars, bounds, history>>
  BY <1>9, QuietKeeps DEF AdvDataFill, vBLE_AdvDataUpdate, ramVars, fdsVars,
     history, Writing
<1>10. CASE UNCHANGED vars
  BY <1>10, QuietKeeps DEF vars, ramVars, fdsVars, history
<1>11. QED
  BY <1>1, <1>2, <1>3, <1>4, <1>5, <1>6, <1>7, <1>8, <1>9, <1>10
  DEF Next, MainLoop, Inputs

\* The windows that run are those of the configuration last acknowledged, before
\* and after a reset (ES_Commands.c and vES_Slave_Init).
THEOREM ConfigAgreement == Spec => []ConfigAgrees
<1>1. Init => CfgInv
  BY Datas DEF Init, RamInit, CfgInv, CfgBoot, NameKept, CfgKept, Booting,
     Writing, Key
<1>2. StorageInv /\ CfgInv => ConfigAgrees
  BY DEF CfgInv, CfgKept, ConfigAgrees, Booting, StorageInv, JobOk, Writing
<1>3. QED BY <1>1, <1>2, CfgNext, StorageInvariant, PTL DEF Spec
=============================================================================
