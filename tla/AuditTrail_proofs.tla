------------------------- MODULE AuditTrail_proofs -------------------------
(***************************************************************************)
(* Proofs about the audit trail's file, for any number of replicas, calls  *)
(* and process deaths: reads agree with each other, miss no entry that was *)
(* acknowledged, and are disturbed only by a failure, another replica or   *)
(* a line that is too long; and the file implements the interface          *)
(* (AuditStore).                                                           *)
(***************************************************************************)
EXTENDS AuditTrail, TLAPS

Lines == [of : Writers, part : Parts]

\* The lines no write can still change or take back.
Settled == IF Writing THEN Len(file) - 1 ELSE Len(file)

\* A store's mutex is held by the one call of it inside, and nobody else.
Mutex ==
  /\ \A c \in AuditCalls : stage[c] \in {"inside", "writing"} => holder[StoreOf[c]] = c
  /\ \A s \in Stores : holder[s] # Nobody =>
       /\ StoreOf[holder[s]] = s /\ stage[holder[s]] \in {"inside", "writing"}
  /\ \A c \in AuditCalls : /\ stage[c] = "writing" => c \in Writers
                           /\ outcome[c] # "none" => stage[c] = "returned"

\* The file system keeps writes apart: one at a time, at the end of the file.
OneWrite ==
  /\ \A w \in Writers : stage[w] = "writing" =>
       file # <<>> /\ file[Len(file)] = [of |-> w, part |-> "torn"]
  /\ \A w, v \in Writers : stage[w] = "writing" /\ stage[v] = "writing" => w = v

CoreInv == AuditTypeOK /\ Mutex /\ OneWrite

-----------------------------------------------------------------------------
(* What the three ways to write do to the file.                            *)

LEMMA AppendingIs ==
  ASSUME file \in Seq(Lines), NEW w \in Writers
  PROVE  /\ Appending(w) \in Seq(Lines) /\ Len(Appending(w)) = Len(file) + 1
         /\ \A i \in 1..Len(file) : Appending(w)[i] = file[i]
         /\ Appending(w)[Len(file) + 1] = [of |-> w, part |-> "torn"]
<1>1. [of |-> w, part |-> "torn"] \in Lines
  BY DEF Lines, Parts
<1> QED BY <1>1 DEF Appending

LEMMA UptoIs ==
  ASSUME file \in Seq(Lines), file # <<>>, NEW p \in Parts
  PROVE  /\ Upto(p) \in Seq(Lines) /\ Len(Upto(p)) = Len(file)
         /\ \A i \in 1..(Len(file) - 1) : Upto(p)[i] = file[i]
         /\ Upto(p)[Len(file)] = [of |-> file[Len(file)].of, part |-> p]
<1>1. Len(file) \in 1..Len(file) /\ file[Len(file)] \in Lines
  OBVIOUS
<1>2. [file[Len(file)] EXCEPT !.part = p] = [of |-> file[Len(file)].of, part |-> p]
  BY <1>1 DEF Lines
<1>3. [of |-> file[Len(file)].of, part |-> p] \in Lines
  BY <1>1 DEF Lines
<1> QED BY <1>1, <1>2, <1>3 DEF Upto

LEMMA FrontIs ==
  ASSUME file \in Seq(Lines), file # <<>>
  PROVE  /\ Front(file) \in Seq(Lines) /\ Len(Front(file)) = Len(file) - 1
         /\ \A i \in 1..(Len(file) - 1) : Front(file)[i] = file[i]
<1>1. Len(file) \in Nat /\ Len(file) - 1 \in Nat /\ DOMAIN file = 1..Len(file)
  OBVIOUS
<1>2. \A i \in 1..(Len(file) - 1) : file[i] \in Lines
  BY <1>1
<1>3. Front(file) = SubSeq(file, 1, Len(file) - 1)
  BY DEF Front
<1>4. SubSeq(file, 1, Len(file) - 1) = [i \in 1..(Len(file) - 1) |-> file[i]]
  BY <1>1
<1> QED BY <1>1, <1>2, <1>3, <1>4

\* A call returns: its stage, its outcome and its mutex.
LEMMA ReturnTyping ==
  ASSUME AuditTypeOK, NEW c \in AuditCalls, NEW o \in Outcomes, Returned(c, o)
  PROVE  /\ stage' \in [AuditCalls -> Stages] /\ outcome' \in [AuditCalls -> Outcomes]
         /\ holder' \in [Stores -> AuditCalls \cup {Nobody}]
<1>1. StoreOf[c] \in Stores /\ "returned" \in Stages
  BY DEF Stores, Stages
<1> QED BY <1>1 DEF Returned, AuditTypeOK

-----------------------------------------------------------------------------
(* Type correctness.                                                       *)

LEMMA CoreInit == AuditInit => CoreInv
<1> SUFFICES ASSUME AuditInit PROVE CoreInv
  OBVIOUS
<1>1. AuditTypeOK
  BY DeathsAssumption DEF AuditInit, AuditTypeOK, Stages, Outcomes
<1>2. Mutex /\ OneWrite
  BY AuditCallsAssumption DEF AuditInit, Mutex, OneWrite, AuditCalls
<1> QED BY <1>1, <1>2 DEF CoreInv

LEMMA TypeStep == CoreInv /\ [AuditNext]_auditVars => AuditTypeOK'
<1> SUFFICES ASSUME CoreInv, [AuditNext]_auditVars PROVE AuditTypeOK'
  OBVIOUS
<1>t. AuditTypeOK
  BY DEF CoreInv
<1>f. file \in Seq(Lines)
  BY <1>t DEF AuditTypeOK, Lines
<1>o. "done" \in Outcomes /\ "failed" \in Outcomes
  BY DEF Outcomes
<1>w. \A w \in Writers : w \in AuditCalls /\ (stage[w] = "writing" => file # <<>>)
  BY DEF AuditCalls, CoreInv, OneWrite
<1>1. ASSUME NEW c \in AuditCalls, CallStore(c) PROVE AuditTypeOK'
  BY <1>1, <1>t DEF CallStore, AuditTypeOK, Stages
<1>2. ASSUME NEW c \in AuditCalls, Lock(c) PROVE AuditTypeOK'
  BY <1>2, <1>t DEF Lock, AuditTypeOK, Stages, Stores
<1>3. ASSUME NEW c \in AuditCalls, OpenFails(c) PROVE AuditTypeOK'
  BY <1>3, <1>t, <1>o, ReturnTyping DEF OpenFails, AuditTypeOK
<1>4. ASSUME NEW w \in Writers, StartWrite(w) PROVE AuditTypeOK'
  <2>1. file' \in Seq(Lines)
    BY <1>4, <1>f, AppendingIs DEF StartWrite
  <2> QED BY <1>4, <1>t, <1>w, <2>1 DEF StartWrite, AuditTypeOK, Stages, Lines
<1>5. ASSUME NEW w \in Writers, EndWrite(w) PROVE AuditTypeOK'
  <2>1. file' \in Seq(Lines)
    BY <1>5, <1>f, <1>w, UptoIs DEF EndWrite, Parts
  <2> QED BY <1>5, <1>t, <1>o, <1>w, <2>1, ReturnTyping DEF EndWrite, AuditTypeOK, Lines
<1>6. ASSUME NEW w \in Writers, ShortWrite(w) PROVE AuditTypeOK'
  <2>1. file' \in Seq(Lines)
    BY <1>6, <1>f, <1>w, UptoIs, FrontIs DEF ShortWrite, Parts
  <2> QED BY <1>6, <1>t, <1>o, <1>w, <2>1, ReturnTyping
      DEF ShortWrite, WriteErrorIs, AuditTypeOK, Lines
<1>7. ASSUME NEW r \in Readers, ReadAll(r) PROVE AuditTypeOK'
  <2>1. r \in AuditCalls
    BY DEF AuditCalls
  <2>2. [i \in 1..Len(file) |-> file[i].of] \in Seq(Writers)
    <3>1. Len(file) \in Nat /\ \A i \in 1..Len(file) : file[i] \in Lines
      BY <1>f
    <3>2. \A i \in 1..Len(file) : file[i].of \in Writers
      BY <3>1 DEF Lines
    <3> QED BY <3>1, <3>2
  <2>3. answer' \in [Readers -> Seq(Writers)]
    BY <1>7, <1>t, <2>2 DEF ReadAll, AuditTypeOK
  <2> QED BY <1>7, <1>t, <1>o, <2>1, <2>3, ReturnTyping DEF ReadAll, AuditTypeOK
<1>8. ASSUME NEW s \in Stores, StoreDies(s) PROVE AuditTypeOK'
  <2>1. holder[s] \in AuditCalls /\ (stage[holder[s]] = "writing" => file # <<>>)
    BY <1>8, <1>t, <1>w DEF StoreDies, AuditTypeOK, CoreInv, Mutex
  <2>2. file' \in Seq(Lines)
    BY <1>8, <1>f, <2>1, UptoIs DEF StoreDies
  <2>3. stage' \in [AuditCalls -> Stages] /\ outcome' \in [AuditCalls -> Outcomes]
    BY <1>8, <1>t DEF StoreDies, AuditTypeOK, Stages, Outcomes
  <2>4. deaths' \in 0..MaxStoreDeaths
    BY <1>8, <1>t, DeathsAssumption DEF StoreDies, AuditTypeOK
  <2> QED BY <1>8, <1>t, <2>2, <2>3, <2>4 DEF StoreDies, AuditTypeOK, Lines
<1>9. CASE UNCHANGED auditVars
  BY <1>9, <1>t DEF auditVars, AuditTypeOK
<1> QED BY <1>1, <1>2, <1>3, <1>4, <1>5, <1>6, <1>7, <1>8, <1>9 DEF AuditNext

-----------------------------------------------------------------------------
(* The mutexes and the file system.                                        *)

LEMMA ReturnMutex ==
  ASSUME CoreInv, NEW c \in AuditCalls, NEW o, Returned(c, o),
         stage[c] \in {"inside", "writing"}
  PROVE  /\ Mutex'
         /\ \A w \in Writers : stage'[w] = "writing" => stage[w] = "writing" /\ w # c
<1>t. /\ stage \in [AuditCalls -> Stages] /\ outcome \in [AuditCalls -> Outcomes]
      /\ holder \in [Stores -> AuditCalls \cup {Nobody}]
  BY DEF CoreInv, AuditTypeOK
<1>m. Mutex
  BY DEF CoreInv
<1>1. StoreOf[c] \in Stores /\ holder[StoreOf[c]] = c /\ Nobody \notin AuditCalls
  BY <1>m, AuditCallsAssumption DEF Mutex, Stores
<1>2. /\ stage'[c] = "returned" /\ outcome'[c] = o
      /\ \A d \in AuditCalls \ {c} : stage'[d] = stage[d] /\ outcome'[d] = outcome[d]
      /\ holder'[StoreOf[c]] = Nobody
      /\ \A s \in Stores \ {StoreOf[c]} : holder'[s] = holder[s]
  BY <1>t, <1>1 DEF Returned
<1>3. \A d \in AuditCalls : stage'[d] \in {"inside", "writing"} =>
         d # c /\ stage'[d] = stage[d] /\ holder'[StoreOf[d]] = d
  BY <1>m, <1>1, <1>2 DEF Mutex, Stores
<1>4. \A s \in Stores : holder'[s] # Nobody =>
         /\ s # StoreOf[c] /\ holder'[s] = holder[s] /\ StoreOf[holder[s]] = s
         /\ holder[s] \in AuditCalls /\ holder[s] # c
  BY <1>t, <1>m, <1>1, <1>2 DEF Mutex
<1>5. Mutex'
  BY <1>m, <1>2, <1>3, <1>4 DEF Mutex
<1> QED BY <1>2, <1>3, <1>5 DEF AuditCalls

LEMMA MutexStep == CoreInv /\ [AuditNext]_auditVars => Mutex'
<1> SUFFICES ASSUME CoreInv, [AuditNext]_auditVars PROVE Mutex'
  OBVIOUS
<1>t. /\ stage \in [AuditCalls -> Stages] /\ outcome \in [AuditCalls -> Outcomes]
      /\ holder \in [Stores -> AuditCalls \cup {Nobody}]
  BY DEF CoreInv, AuditTypeOK
<1>m. Mutex /\ Nobody \notin AuditCalls /\ \A c \in AuditCalls : StoreOf[c] \in Stores
  BY AuditCallsAssumption DEF CoreInv, Stores
<1>w. Writers \subseteq AuditCalls /\ Readers \subseteq AuditCalls
  BY DEF AuditCalls
<1>1. ASSUME NEW c \in AuditCalls, CallStore(c) PROVE Mutex'
  BY <1>1, <1>t, <1>m DEF CallStore, Mutex
<1>2. ASSUME NEW c \in AuditCalls, Lock(c) PROVE Mutex'
  <2>1. /\ stage[c] = "called" /\ stage'[c] = "inside" /\ UNCHANGED outcome
        /\ \A d \in AuditCalls \ {c} : stage'[d] = stage[d]
        /\ holder[StoreOf[c]] = Nobody /\ holder'[StoreOf[c]] = c
        /\ \A s \in Stores \ {StoreOf[c]} : holder'[s] = holder[s]
    BY <1>2, <1>t, <1>m DEF Lock, MutexFree
  <2>2. \A d \in AuditCalls : stage'[d] \in {"inside", "writing"} => holder'[StoreOf[d]] = d
    BY <1>m, <2>1 DEF Mutex
  <2>3. \A s \in Stores : holder'[s] # Nobody =>
          StoreOf[holder'[s]] = s /\ stage'[holder'[s]] \in {"inside", "writing"}
    BY <1>t, <1>m, <2>1 DEF Mutex
  <2> QED BY <1>m, <2>1, <2>2, <2>3 DEF Mutex
<1>3. ASSUME NEW c \in AuditCalls, OpenFails(c) PROVE Mutex'
  BY <1>3, ReturnMutex DEF OpenFails
<1>4. ASSUME NEW w \in Writers, StartWrite(w) PROVE Mutex'
  BY <1>4, <1>t, <1>m, <1>w DEF StartWrite, Mutex
<1>5. ASSUME NEW w \in Writers, EndWrite(w) \/ ShortWrite(w) PROVE Mutex'
  BY <1>5, <1>w, ReturnMutex DEF EndWrite, ShortWrite
<1>6. ASSUME NEW r \in Readers, ReadAll(r) PROVE Mutex'
  BY <1>6, <1>w, ReturnMutex DEF ReadAll
<1>7. ASSUME NEW s \in Stores, StoreDies(s) PROVE Mutex'
  <2>1. /\ holder'[s] = Nobody /\ \A q \in Stores \ {s} : holder'[q] = holder[q]
        /\ \A c \in AuditCalls :
             IF StoreOf[c] = s /\ stage[c] \in {"called", "inside", "writing"}
             THEN stage'[c] = "returned"
             ELSE stage'[c] = stage[c] /\ outcome'[c] = outcome[c]
    BY <1>7, <1>t DEF StoreDies
  <2> QED BY <1>t, <1>m, <2>1 DEF Mutex
<1>8. CASE UNCHANGED auditVars
  BY <1>8, <1>m DEF Mutex, auditVars
<1> QED BY <1>1, <1>2, <1>3, <1>4, <1>5, <1>6, <1>7, <1>8 DEF AuditNext

LEMMA OneWriteStep == CoreInv /\ [AuditNext]_auditVars => OneWrite'
<1> SUFFICES ASSUME CoreInv, [AuditNext]_auditVars PROVE OneWrite'
  OBVIOUS
<1>i. OneWrite /\ Mutex
  BY DEF CoreInv
<1>t. file \in Seq(Lines) /\ stage \in [AuditCalls -> Stages]
  BY DEF CoreInv, AuditTypeOK, Lines
<1>w. Writers \subseteq AuditCalls /\ Readers \subseteq AuditCalls
  BY DEF AuditCalls
<1>0. ASSUME file' = file, \A w \in Writers : stage'[w] = "writing" => stage[w] = "writing"
      PROVE  OneWrite'
  BY <1>i, <1>0 DEF OneWrite
<1>1. ASSUME NEW c \in AuditCalls, CallStore(c) \/ Lock(c) PROVE OneWrite'
  BY <1>0, <1>1, <1>t, <1>w DEF CallStore, Lock
<1>2. ASSUME NEW c \in AuditCalls, OpenFails(c) PROVE OneWrite'
  BY <1>0, <1>2, ReturnMutex DEF OpenFails
<1>3. ASSUME NEW w \in Writers, StartWrite(w) PROVE OneWrite'
  <2>1. /\ stage' = [stage EXCEPT ![w] = "writing"]
        /\ \A v \in Writers : stage[v] # "writing"
    BY <1>3 DEF StartWrite, Writing
  <2>2. \A v \in Writers : stage'[v] = "writing" => v = w
    BY <1>t, <1>w, <2>1
  <2>3. /\ file' \in Seq(Lines) /\ Len(file') = Len(file) + 1
        /\ file'[Len(file) + 1] = [of |-> w, part |-> "torn"]
    BY <1>3, <1>t, AppendingIs DEF StartWrite
  <2>4. file' # <<>> /\ file'[Len(file')] = [of |-> w, part |-> "torn"]
    BY <1>t, <2>3
  <2> QED BY <2>2, <2>4 DEF OneWrite
<1>4. ASSUME NEW w \in Writers, EndWrite(w) \/ ShortWrite(w) PROVE OneWrite'
  <2>1. \A v \in Writers : stage'[v] # "writing"
    BY <1>4, <1>i, <1>w, ReturnMutex DEF EndWrite, ShortWrite, OneWrite
  <2> QED BY <2>1 DEF OneWrite
<1>5. ASSUME NEW r \in Readers, ReadAll(r) PROVE OneWrite'
  BY <1>0, <1>5, <1>w, ReturnMutex DEF ReadAll
<1>6. ASSUME NEW s \in Stores, StoreDies(s) PROVE OneWrite'
  <2>1. \A c \in AuditCalls :
          IF StoreOf[c] = s /\ stage[c] \in {"called", "inside", "writing"}
          THEN stage'[c] = "returned" ELSE stage'[c] = stage[c]
    BY <1>6 DEF StoreDies
  <2>2. holder[s] \in AuditCalls /\ StoreOf[holder[s]] = s
    BY <1>6, <1>i DEF StoreDies, Mutex, CoreInv, AuditTypeOK
  <2>3. CASE stage[holder[s]] = "writing"
    <3>1. \A v \in Writers : stage'[v] # "writing"
      BY <1>i, <1>w, <2>1, <2>2, <2>3 DEF OneWrite, Mutex
    <3> QED BY <3>1 DEF OneWrite
  <2>4. CASE stage[holder[s]] # "writing"
    BY <1>0, <1>6, <1>w, <2>1, <2>4 DEF StoreDies
  <2> QED BY <2>3, <2>4
<1>7. CASE UNCHANGED auditVars
  BY <1>0, <1>7 DEF auditVars
<1> QED BY <1>1, <1>2, <1>3, <1>4, <1>5, <1>6, <1>7 DEF AuditNext

LEMMA CoreAlways == AuditSpec => []CoreInv
<1>1. CoreInv /\ [AuditNext]_auditVars => CoreInv'
  BY TypeStep, MutexStep, OneWriteStep DEF CoreInv
<1> QED BY <1>1, CoreInit, PTL DEF AuditSpec

\* A line that no write is under way on stays as it is: whatever fails or
\* dies, the file is only added to.
LEMMA SettledStay ==
  ASSUME CoreInv, [AuditNext]_auditVars
  PROVE  /\ Settled \in Nat /\ Settled' \in Nat /\ Settled <= Settled'
         /\ \A i \in 1..Settled : file'[i] = file[i]
<1>n. CoreInv'
  BY TypeStep, MutexStep, OneWriteStep DEF CoreInv
<1>t. /\ file \in Seq(Lines) /\ stage \in [AuditCalls -> Stages]
      /\ file' \in Seq(Lines) /\ Len(file) \in Nat /\ Len(file') \in Nat
  BY <1>n DEF CoreInv, AuditTypeOK, Lines
<1>i. OneWrite /\ Mutex /\ OneWrite'
  BY <1>n DEF CoreInv
<1>w. Writers \subseteq AuditCalls /\ Readers \subseteq AuditCalls
  BY DEF AuditCalls
<1>b. /\ Settled \in Nat /\ Settled' \in Nat
      /\ Settled <= Len(file) /\ Len(file) - 1 <= Settled
      /\ ~Writing => Settled = Len(file)
      /\ Writing => Settled = Len(file) - 1
      /\ ~Writing' => Settled' = Len(file') /\ Len(file') - 1 <= Settled'
  <2>1. (Writing => file # <<>>) /\ (Writing' => file' # <<>>)
    BY <1>i DEF Writing, OneWrite
  <2> QED BY <1>t, <2>1 DEF Settled
<1>0. ASSUME file' = file, \A w \in Writers : stage'[w] = "writing" => stage[w] = "writing"
      PROVE  Settled <= Settled' /\ \A i \in 1..Settled : file'[i] = file[i]
  <2>1. Writing' => Writing
    BY <1>0 DEF Writing
  <2> QED BY <1>0, <1>t, <1>b, <2>1 DEF Settled
<1>1. ASSUME NEW c \in AuditCalls, CallStore(c) \/ Lock(c)
      PROVE  Settled <= Settled' /\ \A i \in 1..Settled : file'[i] = file[i]
  BY <1>0, <1>1, <1>t, <1>w DEF CallStore, Lock
<1>2. ASSUME NEW c \in AuditCalls, OpenFails(c)
      PROVE  Settled <= Settled' /\ \A i \in 1..Settled : file'[i] = file[i]
  BY <1>0, <1>2, ReturnMutex DEF OpenFails
<1>3. ASSUME NEW w \in Writers, StartWrite(w)
      PROVE  Settled <= Settled' /\ \A i \in 1..Settled : file'[i] = file[i]
  <2>1. ~Writing /\ stage'[w] = "writing"
    BY <1>3, <1>t, <1>w DEF StartWrite
  <2>2. Writing'
    BY <2>1 DEF Writing
  <2>3. Len(file') = Len(file) + 1 /\ \A i \in 1..Len(file) : file'[i] = file[i]
    BY <1>3, <1>t, AppendingIs DEF StartWrite
  <2> QED BY <1>t, <2>1, <2>2, <2>3 DEF Settled
\* The write under way ends, one way or another.
<1>4. ASSUME Writing, ~Writing', NEW p \in Parts, file' \in {Front(file), Upto(p)}
      PROVE  Settled <= Settled' /\ \A i \in 1..Settled : file'[i] = file[i]
  <2>1. file # <<>>
    BY <1>4, <1>i DEF Writing, OneWrite
  <2>2. Len(file') \in {Len(file) - 1, Len(file)}
    BY <1>4, <1>t, <2>1, UptoIs, FrontIs
  <2>3. \A i \in 1..(Len(file) - 1) : file'[i] = file[i]
    <3>1. CASE file' = Front(file)
      BY <1>t, <2>1, <3>1, FrontIs
    <3>2. CASE file' = Upto(p)
      BY <1>t, <2>1, <3>2, UptoIs
    <3> QED BY <1>4, <3>1, <3>2
  <2> QED BY <1>4, <1>t, <1>b, <2>2, <2>3
<1>5. ASSUME NEW w \in Writers, EndWrite(w) \/ ShortWrite(w)
      PROVE  Settled <= Settled' /\ \A i \in 1..Settled : file'[i] = file[i]
  <2>1. \A v \in Writers : stage'[v] # "writing"
    BY <1>5, <1>i, <1>w, ReturnMutex DEF EndWrite, ShortWrite, OneWrite
  <2>2. Writing /\ ~Writing'
    BY <1>5, <2>1 DEF Writing, EndWrite, ShortWrite
  <2>3. \E p \in Parts : file' \in {Front(file), Upto(p)}
    BY <1>5 DEF EndWrite, ShortWrite, Parts
  <2> QED BY <1>4, <2>2, <2>3
<1>6. ASSUME NEW r \in Readers, ReadAll(r)
      PROVE  Settled <= Settled' /\ \A i \in 1..Settled : file'[i] = file[i]
  BY <1>0, <1>6, <1>w, ReturnMutex DEF ReadAll
<1>7. ASSUME NEW s \in Stores, StoreDies(s)
      PROVE  Settled <= Settled' /\ \A i \in 1..Settled : file'[i] = file[i]
  <2>1. \A c \in AuditCalls :
          IF StoreOf[c] = s /\ stage[c] \in {"called", "inside", "writing"}
          THEN stage'[c] = "returned" ELSE stage'[c] = stage[c]
    BY <1>7 DEF StoreDies
  <2>2. holder[s] \in AuditCalls /\ StoreOf[holder[s]] = s
    BY <1>7, <1>i DEF StoreDies, Mutex, CoreInv, AuditTypeOK
  <2>3. CASE stage[holder[s]] = "writing"
    <3>1. holder[s] \in Writers /\ \A v \in Writers : stage'[v] # "writing"
      BY <1>i, <1>w, <2>1, <2>2, <2>3 DEF OneWrite, Mutex
    <3>2. Writing /\ ~Writing'
      BY <2>3, <3>1 DEF Writing
    <3>3. \E p \in Parts : file' = Upto(p)
      BY <1>7, <2>3 DEF StoreDies
    <3> QED BY <1>4, <3>2, <3>3
  <2>4. CASE stage[holder[s]] # "writing"
    BY <1>0, <1>7, <1>w, <2>1, <2>4 DEF StoreDies
  <2> QED BY <2>3, <2>4
<1>8. CASE UNCHANGED auditVars
  <2>1. file' = file /\ stage' = stage
    BY <1>8 DEF auditVars
  <2> QED BY <1>0, <1>b, <2>1
<1> QED BY <1>b, <1>1, <1>2, <1>3, <1>5, <1>6, <1>7, <1>8 DEF AuditNext

-----------------------------------------------------------------------------
(* What reads and acknowledged appends rest on.                            *)

\* What a read returned is still the start of the file.
AnswersHold ==
  \A r \in Readers : outcome[r] = "done" =>
    /\ Len(answer[r]) <= Settled
    /\ \A i \in 1..Len(answer[r]) : answer[r][i] = file[i].of

OnFile(w) == \E i \in 1..Settled : file[i] = [of |-> w, part |-> "line"]

\* An entry whose Append returned stays in the file, for every read called
\* since.
Acknowledged ==
  /\ \A w \in Writers : outcome[w] = "done" => OnFile(w)
  /\ \A r \in Readers : \A w \in known[r] : OnFile(w)
  /\ ReadsMissNothing

\* A whole line, of an Append that returned without an error.
Finished(i) == file[i].part = "line" /\ outcome[file[i].of] = "done"

\* While nothing failed, every line but that of the write under way is one.
Whole ==
  (\A w \in Writers : outcome[w] \notin {"failed", "died"}) =>
    \A i \in 1..Settled : Finished(i)

\* None of the properties is inductive: they compare what two calls saw at
\* different times, and only the file links the two.
AuditInv == AnswersHold /\ Acknowledged /\ Whole

LEMMA AuditInvInit == AuditInit => AuditInv
<1> SUFFICES ASSUME AuditInit PROVE AuditInv
  OBVIOUS
<1>1. /\ file = <<>> /\ \A w \in Writers : stage[w] # "writing" /\ outcome[w] = "none"
      /\ \A r \in Readers : outcome[r] = "none" /\ known[r] = {}
  BY DEF AuditInit, AuditCalls
<1>2. Settled = 0
  BY <1>1 DEF Settled, Writing
<1> QED BY <1>1, <1>2 DEF AuditInv, AnswersHold, Acknowledged, Whole, ReadsMissNothing, ReadDone

\* A file that can be read has no write under way.
LEMMA ReadableIsSettled ==
  ASSUME CoreInv, Readable
  PROVE  Settled = Len(file)
<1>1. file \in Seq(Lines)
  BY DEF CoreInv, AuditTypeOK, Lines
<1>2. ~Writing
  <2> SUFFICES ASSUME NEW w \in Writers, stage[w] = "writing" PROVE FALSE
    BY DEF Writing
  <2>1. file # <<>> /\ file[Len(file)] = [of |-> w, part |-> "torn"]
    BY DEF CoreInv, OneWrite
  <2>2. Len(file) \in 1..Len(file)
    BY <1>1, <2>1
  <2> QED BY <2>1, <2>2 DEF Readable, Decodes
<1> QED BY <1>2 DEF Settled

\* Entries on the file, and answers that hold, stay so.
LEMMA OnFileStays ==
  ASSUME CoreInv, [AuditNext]_auditVars, NEW w, OnFile(w)
  PROVE  OnFile(w)'
  BY SettledStay DEF OnFile

LEMMA AnswerStays ==
  ASSUME CoreInv, [AuditNext]_auditVars, NEW a \in Seq(Writers), Len(a) <= Settled,
         \A i \in 1..Len(a) : a[i] = file[i].of
  PROVE  Len(a) <= Settled' /\ \A i \in 1..Len(a) : a[i] = file'[i].of
<1>1. Len(a) \in Nat
  OBVIOUS
<1> QED BY <1>1, SettledStay

\* A call that is over keeps its outcome, its answer and what it knew.
LEMMA OutcomeStays ==
  ASSUME CoreInv, [AuditNext]_auditVars, NEW c \in AuditCalls, outcome[c] # "none"
  PROVE  /\ outcome'[c] = outcome[c]
         /\ c \in Readers => answer'[c] = answer[c] /\ known'[c] = known[c]
<1>t. /\ outcome \in [AuditCalls -> Outcomes] /\ stage[c] = "returned"
      /\ answer \in [Readers -> Seq(Writers)] /\ known \in [Readers -> SUBSET Writers]
  BY DEF CoreInv, AuditTypeOK, Mutex
<1>1. ASSUME NEW d \in AuditCalls, CallStore(d)
      PROVE  outcome'[c] = outcome[c] /\ (c \in Readers => answer'[c] = answer[c] /\ known'[c] = known[c])
  BY <1>1, <1>t DEF CallStore
<1>2. ASSUME NEW d \in AuditCalls, Lock(d) \/ OpenFails(d)
      PROVE  outcome'[c] = outcome[c] /\ UNCHANGED <<answer, known>>
  BY <1>2, <1>t DEF Lock, OpenFails, Returned
<1>3. ASSUME NEW w \in Writers, StartWrite(w) \/ EndWrite(w) \/ ShortWrite(w)
      PROVE  outcome'[c] = outcome[c] /\ UNCHANGED <<answer, known>>
  BY <1>3, <1>t DEF StartWrite, EndWrite, ShortWrite, Returned
<1>4. ASSUME NEW r \in Readers, ReadAll(r)
      PROVE  outcome'[c] = outcome[c] /\ UNCHANGED known /\ (c \in Readers => answer'[c] = answer[c])
  BY <1>4, <1>t DEF ReadAll, Returned
<1>5. ASSUME NEW s \in Stores, StoreDies(s)
      PROVE  outcome'[c] = outcome[c] /\ UNCHANGED <<answer, known>>
  BY <1>5, <1>t DEF StoreDies
<1>6. CASE UNCHANGED auditVars
  BY <1>6 DEF auditVars
<1> QED BY <1>1, <1>2, <1>3, <1>4, <1>5, <1>6 DEF AuditNext

\* How a read succeeds.
LEMMA ReadSucceeds ==
  ASSUME CoreInv, [AuditNext]_auditVars, NEW r \in Readers,
         outcome[r] # "done", outcome'[r] = "done"
  PROVE  /\ Readable /\ UNCHANGED <<file, known>>
         /\ answer'[r] = [i \in 1..Len(file) |-> file[i].of]
<1>t. /\ outcome \in [AuditCalls -> Outcomes] /\ answer \in [Readers -> Seq(Writers)]
      /\ r \in AuditCalls /\ r \notin Writers
  BY AuditCallsAssumption DEF CoreInv, AuditTypeOK, AuditCalls
<1>w. Writers \subseteq AuditCalls /\ Readers \subseteq AuditCalls
  BY DEF AuditCalls
<1>1. ASSUME NEW d \in AuditCalls, CallStore(d) \/ Lock(d) \/ OpenFails(d) PROVE FALSE
  BY <1>1, <1>t DEF CallStore, Lock, OpenFails, Returned
<1>2. ASSUME NEW w \in Writers, StartWrite(w) \/ EndWrite(w) \/ ShortWrite(w) PROVE FALSE
  BY <1>2, <1>t, <1>w DEF StartWrite, EndWrite, ShortWrite, Returned
<1>3. ASSUME NEW s \in Stores, StoreDies(s) PROVE FALSE
  BY <1>3, <1>t DEF StoreDies
<1>4. UNCHANGED auditVars => FALSE
  BY DEF auditVars
<1>5. PICK q \in Readers : ReadAll(q)
  BY <1>1, <1>2, <1>3, <1>4 DEF AuditNext
<1>6. CASE q = r /\ Returned(r, "done")
  <2>1. /\ Readable /\ UNCHANGED <<file, known>>
        /\ answer' = [answer EXCEPT ![r] = [i \in 1..Len(file) |-> file[i].of]]
    <3>1. ~Returned(r, "failed")
      BY <1>6, <1>t DEF Returned
    <3> QED BY <1>5, <1>6, <3>1 DEF ReadAll
  <2> QED BY <1>t, <2>1
<1>7. CASE ~(q = r /\ Returned(r, "done"))
  BY <1>5, <1>7, <1>t, <1>w DEF ReadAll, Returned
<1> QED BY <1>6, <1>7

\* How an append succeeds.
LEMMA AppendSucceeds ==
  ASSUME CoreInv, [AuditNext]_auditVars, NEW w \in Writers,
         outcome[w] # "done", outcome'[w] = "done"
  PROVE  OnFile(w)'
<1>t. /\ outcome \in [AuditCalls -> Outcomes] /\ w \in AuditCalls /\ w \notin Readers
      /\ file \in Seq(Lines)
  BY AuditCallsAssumption DEF CoreInv, AuditTypeOK, AuditCalls, Lines
<1>w. Writers \subseteq AuditCalls /\ Readers \subseteq AuditCalls
  BY DEF AuditCalls
<1>1. ASSUME NEW d \in AuditCalls, CallStore(d) \/ Lock(d) \/ OpenFails(d) PROVE FALSE
  BY <1>1, <1>t DEF CallStore, Lock, OpenFails, Returned
<1>2. ASSUME NEW v \in Writers, StartWrite(v) \/ ShortWrite(v) PROVE FALSE
  BY <1>2, <1>t, <1>w DEF StartWrite, ShortWrite, WriteErrorIs, Returned
<1>3. ASSUME NEW s \in Stores, StoreDies(s) PROVE FALSE
  BY <1>3, <1>t DEF StoreDies
<1>4. ASSUME NEW r \in Readers, ReadAll(r) PROVE FALSE
  BY <1>4, <1>t, <1>w DEF ReadAll, Returned
<1>5. UNCHANGED auditVars => FALSE
  BY DEF auditVars
<1>6. PICK v \in Writers : EndWrite(v)
  BY <1>1, <1>2, <1>3, <1>4, <1>5 DEF AuditNext
<1>7. v = w
  BY <1>6, <1>t, <1>w DEF EndWrite, Returned
<1>8. file # <<>> /\ file[Len(file)] = [of |-> w, part |-> "torn"]
  BY <1>6, <1>7 DEF EndWrite, CoreInv, OneWrite
<1>9. /\ file' \in Seq(Lines) /\ Len(file') = Len(file) /\ Len(file) \in 1..Len(file)
      /\ file'[Len(file)] = [of |-> w, part |-> "line"]
  BY <1>6, <1>t, <1>8, UptoIs DEF EndWrite, Parts
<1>10. ~Writing'
  BY <1>6, <1>w, ReturnMutex DEF EndWrite, CoreInv, OneWrite, Writing
<1> QED BY <1>9, <1>10 DEF OnFile, Settled

LEMMA AnswersHoldStep == CoreInv /\ AnswersHold /\ [AuditNext]_auditVars => AnswersHold'
<1> SUFFICES ASSUME CoreInv, AnswersHold, [AuditNext]_auditVars, NEW r \in Readers,
                    outcome'[r] = "done"
             PROVE  /\ Len(answer'[r]) <= Settled'
                    /\ \A i \in 1..Len(answer'[r]) : answer'[r][i] = file'[i].of
  BY DEF AnswersHold
<1>t. answer[r] \in Seq(Writers) /\ file \in Seq(Lines) /\ r \in AuditCalls
  BY DEF CoreInv, AuditTypeOK, AuditCalls, Lines
<1>1. CASE outcome[r] = "done"
  <2>1. answer'[r] = answer[r]
    BY <1>1, <1>t, OutcomeStays
  <2> QED BY <1>1, <1>t, <2>1, AnswerStays DEF AnswersHold
<1>2. CASE outcome[r] # "done"
  <2>1. /\ Settled = Len(file) /\ file' = file
        /\ answer'[r] = [i \in 1..Len(file) |-> file[i].of]
    BY <1>2, ReadSucceeds, ReadableIsSettled
  <2>2. Len(file) \in Nat /\ Len(file) <= Settled'
    BY <1>t, <2>1, SettledStay
  <2>3. Len(answer'[r]) = Len(file)
    BY <2>1, <2>2
  <2> QED BY <2>1, <2>2, <2>3
<1> QED BY <1>1, <1>2

LEMMA AcknowledgedStep == CoreInv /\ Acknowledged /\ [AuditNext]_auditVars => Acknowledged'
<1> SUFFICES ASSUME CoreInv, Acknowledged, [AuditNext]_auditVars PROVE Acknowledged'
  OBVIOUS
<1>t. /\ known \in [Readers -> SUBSET Writers] /\ file \in Seq(Lines)
      /\ Readers \subseteq AuditCalls
  BY DEF CoreInv, AuditTypeOK, AuditCalls, Lines
<1>1. \A w \in Writers : outcome'[w] = "done" => OnFile(w)'
  BY AppendSucceeds, OnFileStays DEF Acknowledged
<1>2. ASSUME NEW r \in Readers, NEW w \in known'[r] PROVE OnFile(w)'
  <2>1. ASSUME NEW c \in AuditCalls, CallStore(c) PROVE OnFile(w)
    <3>1. known'[r] = known[r] \/ known'[r] = {v \in Writers : outcome[v] = "done"}
      BY <1>t, <2>1 DEF CallStore
    <3> QED BY <1>2, <3>1 DEF Acknowledged
  <2>2. CASE known' = known
    BY <1>2, <2>2, OnFileStays DEF Acknowledged
  <2>3. known' = known \/ \E c \in AuditCalls : CallStore(c)
    BY DEF AuditNext, Lock, OpenFails, StartWrite, EndWrite, ShortWrite, ReadAll, StoreDies,
           auditVars
  <2> QED BY <2>1, <2>2, <2>3, OnFileStays
<1>3. ASSUME NEW r \in Readers, outcome'[r] = "done"
      PROVE  known'[r] \subseteq ToSet(answer'[r])
  <2>1. CASE outcome[r] = "done"
    <3>1. answer'[r] = answer[r] /\ known'[r] = known[r]
      BY <1>t, <2>1, OutcomeStays
    <3> QED BY <2>1, <3>1 DEF Acknowledged, ReadsMissNothing, ReadDone
  <2>2. CASE outcome[r] # "done"
    <3>1. /\ Settled = Len(file) /\ known' = known
          /\ answer'[r] = [i \in 1..Len(file) |-> file[i].of]
      BY <1>3, <2>2, ReadSucceeds, ReadableIsSettled
    <3> SUFFICES ASSUME NEW w \in known[r] PROVE w \in ToSet(answer'[r])
      BY <3>1
    <3>2. PICK i \in 1..Len(file) : file[i] = [of |-> w, part |-> "line"]
      BY <3>1 DEF Acknowledged, OnFile
    <3>3. i \in DOMAIN answer'[r] /\ answer'[r][i] = w
      BY <3>1, <3>2
    <3> QED BY <3>3 DEF ToSet
  <2> QED BY <2>1, <2>2
<1> QED BY <1>1, <1>2, <1>3 DEF Acknowledged, ReadsMissNothing, ReadDone

LEMMA WholeStep == CoreInv /\ Whole /\ [AuditNext]_auditVars => Whole'
<1> SUFFICES ASSUME CoreInv, Whole, [AuditNext]_auditVars,
                    \A w \in Writers : outcome'[w] \notin {"failed", "died"}
             PROVE  \A i \in 1..Settled' : Finished(i)'
  BY DEF Whole
<1>t. /\ outcome \in [AuditCalls -> Outcomes] /\ stage \in [AuditCalls -> Stages]
      /\ file \in Seq(Lines)
  BY DEF CoreInv, AuditTypeOK, Lines
<1>i. OneWrite /\ Mutex
  BY DEF CoreInv
<1>w. Writers \subseteq AuditCalls /\ Readers \subseteq AuditCalls
  BY DEF AuditCalls
<1>b. Settled <= Len(file)
  BY <1>t DEF Settled
<1>l. \A i \in 1..Settled : Finished(i)
  <2>1. \A w \in Writers : outcome[w] \notin {"failed", "died"}
    BY <1>w, OutcomeStays
  <2> QED BY <2>1 DEF Whole
<1>s. \A i \in 1..Settled : Finished(i)'
  <2> SUFFICES ASSUME NEW i \in 1..Settled PROVE Finished(i)'
    OBVIOUS
  <2>1. Settled \in Nat /\ Settled <= Len(file) /\ file'[i] = file[i]
    BY <1>b, SettledStay
  <2>2. file[i] \in Lines
    BY <1>t, <2>1
  <2>3. file[i].of \in Writers
    BY <2>2 DEF Lines
  <2>4. file[i].part = "line" /\ outcome[file[i].of] = "done"
    BY <1>l DEF Finished
  <2>5. outcome'[file[i].of] = "done"
    BY <1>w, <2>3, <2>4, OutcomeStays
  <2> QED BY <2>1, <2>4, <2>5 DEF Finished
<1>0. ASSUME file' = file, \A w \in Writers : stage'[w] = "writing" <=> stage[w] = "writing"
      PROVE  \A i \in 1..Settled' : Finished(i)'
  <2>1. Writing' <=> Writing
    BY <1>0 DEF Writing
  <2> QED BY <1>0, <1>s, <2>1 DEF Settled
<1>1. ASSUME NEW c \in AuditCalls, CallStore(c) \/ Lock(c) \/ OpenFails(c)
      PROVE  \A i \in 1..Settled' : Finished(i)'
  BY <1>0, <1>1, <1>t, <1>w DEF CallStore, Lock, OpenFails, Returned
<1>2. ASSUME NEW w \in Writers, StartWrite(w)
      PROVE  \A i \in 1..Settled' : Finished(i)'
  <2>1. ~Writing /\ stage'[w] = "writing"
    BY <1>2, <1>t, <1>w DEF StartWrite
  <2>2. Len(file') = Len(file) + 1
    <3>1. file' = Appending(w)
      BY <1>2 DEF StartWrite
    <3>2. Len(Appending(w)) = Len(file) + 1
      BY <1>t, AppendingIs
    <3> QED BY <3>1, <3>2
  <2>3. Len(file) \in Nat
    BY <1>t
  <2>4. Settled' = Settled
    BY <2>1, <2>2, <2>3 DEF Writing, Settled
  <2> QED BY <1>s, <2>4
<1>3. ASSUME NEW w \in Writers, EndWrite(w)
      PROVE  \A i \in 1..Settled' : Finished(i)'
  <2>1. Writing /\ file # <<>> /\ file[Len(file)] = [of |-> w, part |-> "torn"]
    BY <1>3, <1>i DEF EndWrite, Writing, OneWrite
  <2>2. /\ Len(file') = Len(file) /\ Len(file) \in Nat
        /\ file'[Len(file)] = [of |-> file[Len(file)].of, part |-> "line"]
    BY <1>3, <1>t, <2>1, UptoIs DEF EndWrite, Parts
  <2>3. file'[Len(file)].part = "line" /\ file'[Len(file)].of = w
    BY <2>1, <2>2
  <2>4. outcome'[w] = "done"
    BY <1>3, <1>t, <1>w DEF EndWrite, Returned
  <2>5. Settled = Len(file) - 1 /\ Settled' <= Len(file)
    BY <2>1, <2>2 DEF Settled
  <2> SUFFICES ASSUME NEW i \in 1..Settled' PROVE Finished(i)'
    OBVIOUS
  <2>6. CASE i = Len(file)
    BY <2>3, <2>4, <2>6 DEF Finished
  <2>7. CASE i # Len(file)
    <3>1. i \in 1..Settled
      BY <2>2, <2>5, <2>7, SettledStay
    <3> QED BY <1>s, <3>1
  <2> QED BY <2>6, <2>7
<1>4. ASSUME NEW w \in Writers, ShortWrite(w) PROVE FALSE
  <2>1. outcome'[w] = "failed"
    BY <1>4, <1>t, <1>w DEF ShortWrite, WriteErrorIs, Returned
  <2> QED BY <2>1
<1>5. ASSUME NEW r \in Readers, ReadAll(r)
      PROVE  \A i \in 1..Settled' : Finished(i)'
  BY <1>0, <1>5, <1>t, <1>w DEF ReadAll, Returned
<1>6. ASSUME NEW s \in Stores, StoreDies(s)
      PROVE  \A i \in 1..Settled' : Finished(i)'
  <2>1. \A c \in AuditCalls :
          IF StoreOf[c] = s /\ stage[c] \in {"called", "inside", "writing"}
          THEN outcome'[c] = "died" ELSE stage'[c] = stage[c]
    BY <1>6 DEF StoreDies
  <2>2. holder[s] \in AuditCalls /\ StoreOf[holder[s]] = s
    BY <1>6, <1>i DEF StoreDies, Mutex, CoreInv, AuditTypeOK
  <2>3. stage[holder[s]] # "writing"
    BY <1>i, <2>1, <2>2 DEF Mutex
  <2>4. \A v \in Writers : stage'[v] = stage[v]
    BY <1>w, <2>1
  <2> QED BY <1>0, <1>6, <2>3, <2>4 DEF StoreDies
<1>7. CASE UNCHANGED auditVars
  <2>1. file' = file /\ stage' = stage
    BY <1>7 DEF auditVars
  <2> QED BY <1>0, <2>1
<1> QED BY <1>1, <1>2, <1>3, <1>4, <1>5, <1>6, <1>7 DEF AuditNext

LEMMA AuditInvAlways == AuditSpec => []AuditInv
<1>1. CoreInv /\ AuditInv /\ [AuditNext]_auditVars => AuditInv'
  BY AnswersHoldStep, AcknowledgedStep, WholeStep DEF AuditInv
<1> QED BY <1>1, AuditInvInit, CoreAlways, PTL DEF AuditSpec

-----------------------------------------------------------------------------
(* The properties.                                                         *)

\* Of two reads that succeed, one returns all the other does and in the same
\* order, "an immutable trail" (package audit).
TrailOnlyGrows ==
  \A r, q \in Readers :
    ReadDone(r) /\ ReadDone(q) =>
      IsPrefix(answer[r], answer[q]) \/ IsPrefix(answer[q], answer[r])

\* Of two reads that succeed, by whatever replicas and with whatever writes,
\* failures and restarts between them, one returns all the other does and in
\* the same order: the trail is immutable (Append, all).
THEOREM TrailIsImmutable == AuditSpec => []TrailOnlyGrows
<1>1. CoreInv /\ AuditInv => TrailOnlyGrows
  <2> SUFFICES ASSUME CoreInv, AuditInv, NEW r \in Readers, NEW q \in Readers,
                      ReadDone(r), ReadDone(q)
               PROVE  IsPrefix(answer[r], answer[q]) \/ IsPrefix(answer[q], answer[r])
    BY DEF TrailOnlyGrows
  <2>1. answer[r] \in Seq(Writers) /\ answer[q] \in Seq(Writers)
    BY DEF CoreInv, AuditTypeOK
  <2>2. /\ \A i \in 1..Len(answer[r]) : answer[r][i] = file[i].of
        /\ \A i \in 1..Len(answer[q]) : answer[q][i] = file[i].of
    BY DEF AuditInv, AnswersHold, ReadDone
  <2>3. ASSUME NEW a \in Seq(Writers), NEW b \in Seq(Writers), Len(a) <= Len(b),
               \A i \in 1..Len(a) : a[i] = file[i].of,
               \A i \in 1..Len(b) : b[i] = file[i].of
        PROVE  IsPrefix(a, b)
    <3>1. Len(a) \in Nat /\ Len(b) \in Nat /\ \A i \in 1..Len(a) : i \in 1..Len(b) /\ a[i] = b[i]
      BY <2>3
    <3>2. /\ SubSeq(a, 1, Len(a)) = [i \in 1..Len(a) |-> a[i]]
          /\ SubSeq(b, 1, Len(a)) = [i \in 1..Len(a) |-> b[i]]
      BY <2>3, <3>1
    <3>3. [i \in 1..Len(a) |-> a[i]] = [i \in 1..Len(a) |-> b[i]]
      BY <3>1
    <3> QED BY <2>3, <3>2, <3>3 DEF IsPrefix
  <2>4. Len(answer[r]) <= Len(answer[q]) \/ Len(answer[q]) <= Len(answer[r])
    BY <2>1
  <2> QED BY <2>1, <2>2, <2>3, <2>4
<1> QED BY <1>1, CoreAlways, AuditInvAlways, PTL

\* A read that succeeds misses no entry whose Append had returned before the
\* read was called, on any replica: an approval finds the incident it names.
THEOREM ReadsAreComplete == AuditSpec => []ReadsMissNothing
<1>1. AuditInv => ReadsMissNothing
  BY DEF AuditInv, Acknowledged
<1> QED BY <1>1, AuditInvAlways, PTL

\* Its own open and reads of the device aside, a read fails only after some
\* Append was cut short, while another replica is writing, or once an Append
\* has succeeded with a line that no reader's buffer holds: the mutex keeps the
\* calls of one process from disturbing each other (mu, all).
THEOREM ReadsAreIsolated == AuditSpec => []ReadersAreUndisturbed
<1>1. CoreInv /\ AuditInv => ReadersAreUndisturbed
  <2> SUFFICES ASSUME CoreInv, AuditInv, NEW r \in Readers, stage[r] = "inside", ~Readable,
                      \A w \in Writers : outcome[w] \notin {"failed", "died"}
               PROVE  \/ \E w \in Writers : stage[w] = "writing" /\ StoreOf[w] # StoreOf[r]
                      \/ \E w \in Oversized : outcome[w] = "done"
    BY DEF ReadersAreUndisturbed
  <2>1. PICK i \in 1..Len(file) : ~Decodes(i) \/ ~FitsBuffer(i)
    BY DEF Readable
  <2>2. \A j \in 1..Settled : Finished(j)
    BY DEF AuditInv, Whole
  <2>3. Len(file) \in Nat
    BY DEF CoreInv, AuditTypeOK
  <2>4. CASE Writing
    <3>1. PICK w \in Writers : stage[w] = "writing"
      BY <2>4 DEF Writing
    <3>2. holder[StoreOf[w]] = w /\ holder[StoreOf[r]] = r /\ w # r
      BY <3>1, AuditCallsAssumption DEF CoreInv, Mutex, AuditCalls
    <3> QED BY <3>1, <3>2
  <2>5. CASE ~Writing
    <3>1. Settled = Len(file)
      BY <2>5 DEF Settled
    <3>2. /\ Finished(i)
          /\ i > 1 => Finished(i - 1)
      BY <2>2, <2>3, <3>1
    <3>3. Decodes(i)
      BY <3>2 DEF Decodes, Finished
    <3>4. file[i].of \in Oversized
      BY <2>1, <3>3 DEF FitsBuffer
    <3> QED BY <3>2, <3>4 DEF Finished
  <2> QED BY <2>4, <2>5
<1> QED BY <1>1, CoreAlways, AuditInvAlways, PTL

-----------------------------------------------------------------------------
(* The file implements the interface.                                      *)

LogFits == /\ FileLog \in Seq(Writers) /\ Len(FileLog) = Settled
           /\ \A i \in 1..Settled : FileLog[i] = file[i].of

LEMMA FileLogIs == CoreInv => LogFits
<1> SUFFICES ASSUME CoreInv PROVE LogFits
  OBVIOUS
<1>0. AuditTypeOK /\ OneWrite
  BY DEF CoreInv
<1>1. file \in Seq(Lines) /\ Len(file) \in Nat
  BY <1>0 DEF AuditTypeOK, Lines
<1>w. Writing => file # <<>>
  BY <1>0 DEF Writing, OneWrite
<1>2. /\ Written \in Seq(Lines) /\ Len(Written) = Settled
      /\ \A i \in 1..Settled : Written[i] = file[i]
  BY <1>1, <1>w, FrontIs DEF Written, Settled
<1>3. \A i \in 1..Len(Written) : Written[i].of \in Writers
  <2>1. \A i \in 1..Len(Written) : Written[i] \in Lines
    BY <1>2
  <2> QED BY <2>1 DEF Lines
<1> QED BY <1>2, <1>3 DEF FileLog, LogFits

\* Two logs are the same if they are as long and hold the same entries.
LEMMA SameLog ==
  ASSUME NEW a \in Seq(Writers), NEW b \in Seq(Writers), Len(a) = Len(b),
         \A i \in 1..Len(a) : a[i] = b[i]
  PROVE  a = b
<1>1. a = [i \in 1..Len(a) |-> a[i]] /\ b = [i \in 1..Len(b) |-> b[i]]
  OBVIOUS
<1> QED BY <1>1

\* No step changes an entry of the log: it is known by its length.
LEMMA FileLogStep ==
  ASSUME CoreInv, [AuditNext]_auditVars
  PROVE  /\ FileLog' \in Seq(Writers) /\ Len(FileLog') = Settled'
         /\ (Settled' = Settled => FileLog' = FileLog)
         /\ \A w \in Writers :
              Settled' = Settled + 1 /\ file'[Settled'].of = w => FileLog' = Append(FileLog, w)
<1>n. CoreInv'
  BY TypeStep, MutexStep, OneWriteStep DEF CoreInv
<1>1. /\ FileLog \in Seq(Writers) /\ Len(FileLog) = Settled
      /\ \A i \in 1..Settled : FileLog[i] = file[i].of
  BY FileLogIs DEF LogFits
<1>2. /\ FileLog' \in Seq(Writers) /\ Len(FileLog') = Settled'
      /\ \A i \in 1..Settled' : FileLog'[i] = file'[i].of
  <2>1. LogFits'
    BY <1>n, FileLogIs, PTL
  <2> QED BY <2>1 DEF LogFits
<1>3. /\ Settled \in Nat /\ Settled' \in Nat /\ Settled <= Settled'
      /\ \A i \in 1..Settled : file'[i] = file[i]
  BY SettledStay
<1>4. \A i \in 1..Settled : FileLog'[i] = FileLog[i]
  BY <1>1, <1>2, <1>3
<1>5. ASSUME Settled' = Settled PROVE FileLog' = FileLog
  BY <1>1, <1>2, <1>4, <1>5, SameLog
<1>6. ASSUME NEW w \in Writers, Settled' = Settled + 1, file'[Settled'].of = w
      PROVE  FileLog' = Append(FileLog, w)
  <2> DEFINE b == Append(FileLog, w)
  <2>1. b \in Seq(Writers) /\ Len(b) = Settled + 1 /\ b[Settled + 1] = w
        /\ \A i \in 1..Settled : b[i] = FileLog[i]
    BY <1>1, <1>3
  <2> HIDE DEF b
  <2>2. \A i \in 1..Settled' : FileLog'[i] = b[i]
    BY <1>2, <1>3, <1>4, <1>6, <2>1
  <2>3. FileLog' = b
    BY <1>2, <1>6, <2>1, <2>2, SameLog
  <2> QED BY <2>3 DEF b
<1> QED BY <1>2, <1>5, <1>6

\* How a call's place in the code shows in the interface.
LEMMA FileCallIs ==
  \A c \in AuditCalls :
    /\ stage[c] = "out" => FileCall[c] = "out"
    /\ stage[c] \in {"called", "inside", "writing"} => FileCall[c] = "called"
    /\ stage[c] = "returned" /\ outcome[c] = "done" => FileCall[c] = "done"
    /\ stage[c] = "returned" /\ outcome[c] # "done" => FileCall[c] = "failed"
  BY DEF FileCall, Ended

LEMMA CallEnds ==
  ASSUME AuditTypeOK, NEW c \in AuditCalls, NEW o, Returned(c, o), stage[c] \in {"inside", "writing"}
  PROVE  /\ FileCall[c] = "called"
         /\ FileCall' = [FileCall EXCEPT ![c] = IF o = "done" THEN "done" ELSE "failed"]
         /\ (o # "done" => FileCall' = [d \in AuditCalls |-> IF d \in {c} THEN "failed"
                                                            ELSE FileCall[d]])
<1>1. /\ stage' = [stage EXCEPT ![c] = "returned"] /\ outcome' = [outcome EXCEPT ![c] = o]
      /\ stage \in [AuditCalls -> Stages] /\ outcome \in [AuditCalls -> Outcomes]
  BY DEF Returned, AuditTypeOK
<1>2. stage'[c] = "returned" /\ outcome'[c] = o
  BY <1>1
<1>3. \A d \in AuditCalls \ {c} : stage'[d] = stage[d] /\ outcome'[d] = outcome[d]
  BY <1>1
<1>4. FileCall[c] = "called"
  BY FileCallIs
<1>5. \A d \in AuditCalls : FileCall'[d] = IF d = c THEN IF o = "done" THEN "done" ELSE "failed"
                                            ELSE FileCall[d]
  BY <1>2, <1>3 DEF FileCall, Ended
<1>6. /\ FileCall' = [d \in AuditCalls |-> FileCall'[d]]
      /\ FileCall = [d \in AuditCalls |-> FileCall[d]]
  BY DEF FileCall
<1> QED BY <1>4, <1>5, <1>6

\* What becomes of the log when nothing is written, when a write begins, and
\* when it ends in one of the ways it may.
LEMMA LogMoves ==
  ASSUME CoreInv, [AuditNext]_auditVars
  PROVE  /\ file' = file /\ (Writing' <=> Writing) => FileLog' = FileLog
         /\ \A w \in Writers : StartWrite(w) => FileLog' = FileLog
         /\ Writing /\ ~Writing' /\ file' = Front(file) => FileLog' = FileLog
         /\ \A w \in Writers, p \in Parts :
              stage[w] = "writing" /\ ~Writing' /\ file' = Upto(p) => FileLog' = Append(FileLog, w)
<1>i. AuditTypeOK /\ OneWrite
  BY DEF CoreInv
<1>t. file \in Seq(Lines) /\ Len(file) \in Nat
  BY <1>i DEF AuditTypeOK, Lines
<1>1. file' = file /\ (Writing' <=> Writing) => Settled' = Settled
  BY DEF Settled
<1>2. ASSUME NEW w \in Writers, StartWrite(w) PROVE Settled' = Settled
  <2>1. ~Writing /\ stage'[w] = "writing"
    BY <1>2, <1>i DEF StartWrite, AuditTypeOK, AuditCalls
  <2>2. Writing'
    BY <2>1 DEF Writing
  <2>3. Len(file') = Len(file) + 1
    BY <1>2, <1>t, AppendingIs DEF StartWrite
  <2> QED BY <1>t, <2>1, <2>2, <2>3 DEF Settled
<1>3. ASSUME Writing, ~Writing', file' = Front(file) PROVE Settled' = Settled
  <2>1. file # <<>>
    BY <1>3, <1>i DEF Writing, OneWrite
  <2> QED BY <1>3, <1>t, <2>1, FrontIs DEF Settled
<1>4. ASSUME NEW w \in Writers, NEW p \in Parts, stage[w] = "writing", ~Writing', file' = Upto(p)
      PROVE  Settled' = Settled + 1 /\ file'[Settled'].of = w
  <2>1. Writing /\ file # <<>> /\ file[Len(file)] = [of |-> w, part |-> "torn"]
    BY <1>4, <1>i DEF Writing, OneWrite
  <2>2. Len(file') = Len(file) /\ file'[Len(file)] = [of |-> file[Len(file)].of, part |-> p]
    BY <1>4, <1>t, <2>1, UptoIs
  <2>3. file'[Len(file)].of = w
    BY <2>1, <2>2
  <2> QED BY <1>4, <1>t, <2>1, <2>2, <2>3 DEF Settled
<1> QED BY <1>1, <1>2, <1>3, <1>4, FileLogStep

LEMMA StoreStep == CoreInv /\ [AuditNext]_auditVars => [Store!Next]_Store!storeVars
<1> SUFFICES ASSUME CoreInv, [AuditNext]_auditVars PROVE [Store!Next]_Store!storeVars
  OBVIOUS
<1>i. AuditTypeOK /\ Mutex /\ OneWrite
  BY DEF CoreInv
<1>t. /\ stage \in [AuditCalls -> Stages] /\ outcome \in [AuditCalls -> Outcomes]
      /\ file \in Seq(Lines) /\ Len(file) \in Nat
  BY <1>i DEF AuditTypeOK, Lines
<1>w. Writers \subseteq AuditCalls /\ Readers \subseteq AuditCalls /\ Store!StoreCalls = AuditCalls
  BY DEF AuditCalls, Store!StoreCalls
\* A call that fails by itself.
<1>f. ASSUME NEW c \in AuditCalls, NEW o \in Outcomes \ {"done"}, Returned(c, o),
             stage[c] \in {"inside", "writing"}, UNCHANGED answer,
             FileLog' = FileLog \/ (c \in Writers /\ FileLog' = Append(FileLog, c))
      PROVE  [Store!Next]_Store!storeVars
  <2>1. /\ FileCall[c] = "called"
        /\ FileCall' = [d \in AuditCalls |-> IF d \in {c} THEN "failed" ELSE FileCall[d]]
    BY <1>i, <1>f, CallEnds
  <2>2. Store!Fail({c})
    BY <1>f, <1>w, <2>1 DEF Store!Fail
  <2> QED BY <1>w, <2>2 DEF Store!Next
<1>1. ASSUME NEW c \in AuditCalls, CallStore(c) PROVE [Store!Next]_Store!storeVars
  <2>1. stage[c] = "out" /\ stage' = [stage EXCEPT ![c] = "called"] /\ UNCHANGED <<file, outcome, answer>>
    BY <1>1 DEF CallStore
  <2>2. Writing' <=> Writing
    BY <1>t, <1>w, <2>1 DEF Writing
  <2>3. FileCall[c] = "out" /\ FileCall' = [FileCall EXCEPT ![c] = "called"]
    BY <1>t, <2>1 DEF FileCall, Ended
  <2>4. Store!Begin(c)
    BY <2>1, <2>2, <2>3, LogMoves DEF Store!Begin
  <2> QED BY <1>w, <2>4 DEF Store!Next
<1>2. ASSUME NEW c \in AuditCalls, Lock(c) PROVE [Store!Next]_Store!storeVars
  <2>1. stage[c] = "called" /\ stage' = [stage EXCEPT ![c] = "inside"] /\ UNCHANGED <<file, outcome, answer>>
    BY <1>2 DEF Lock
  <2>2. Writing' <=> Writing
    BY <1>t, <1>w, <2>1 DEF Writing
  <2>3. FileCall' = FileCall
    BY <1>t, <2>1 DEF FileCall, Ended
  <2> QED BY <2>1, <2>2, <2>3, LogMoves DEF Store!storeVars
<1>3. ASSUME NEW c \in AuditCalls, OpenFails(c) PROVE [Store!Next]_Store!storeVars
  <2>1. stage[c] = "inside" /\ Returned(c, "failed") /\ UNCHANGED <<file, answer>>
    BY <1>3 DEF OpenFails
  <2>2. Writing' <=> Writing
    BY <1>t, <1>w, <2>1 DEF Writing, Returned
  <2> QED BY <1>f, <2>1, <2>2, LogMoves DEF Outcomes
<1>4. ASSUME NEW w \in Writers, StartWrite(w) PROVE [Store!Next]_Store!storeVars
  <2>1. stage[w] = "inside" /\ stage' = [stage EXCEPT ![w] = "writing"] /\ UNCHANGED <<outcome, answer>>
    BY <1>4 DEF StartWrite
  <2>2. FileCall' = FileCall
    BY <1>t, <1>w, <2>1 DEF FileCall, Ended
  <2> QED BY <1>4, <2>1, <2>2, LogMoves DEF Store!storeVars
<1>5. ASSUME NEW w \in Writers, EndWrite(w) \/ ShortWrite(w) PROVE ~Writing'
  BY <1>5, <1>i, <1>w, ReturnMutex DEF EndWrite, ShortWrite, OneWrite, Writing
<1>6. ASSUME NEW w \in Writers, EndWrite(w) PROVE [Store!Next]_Store!storeVars
  <2>1. /\ stage[w] = "writing" /\ file' = Upto("line") /\ Returned(w, "done") /\ UNCHANGED answer
        /\ "line" \in Parts
    BY <1>6 DEF EndWrite, Parts
  <2>2. FileCall[w] = "called" /\ FileCall' = [FileCall EXCEPT ![w] = "done"]
    BY <1>i, <1>w, <2>1, CallEnds
  <2>3. FileLog' = Append(FileLog, w)
    BY <1>5, <1>6, <2>1, LogMoves
  <2> QED BY <2>1, <2>2, <2>3 DEF Store!Next, Store!Appends
<1>7. ASSUME NEW w \in Writers, ShortWrite(w) PROVE [Store!Next]_Store!storeVars
  <2>1. /\ stage[w] = "writing" /\ Returned(w, "failed") /\ UNCHANGED answer
        /\ file' = Front(file) \/ \E p \in Parts : file' = Upto(p)
    BY <1>7 DEF ShortWrite, WriteErrorIs, Parts
  <2>2. Writing /\ ~Writing'
    BY <1>5, <1>7, <2>1 DEF Writing
  <2>3. FileLog' = FileLog \/ FileLog' = Append(FileLog, w)
    BY <2>1, <2>2, LogMoves
  <2> QED BY <1>f, <1>w, <2>1, <2>3 DEF Outcomes
<1>8. ASSUME NEW r \in Readers, ReadAll(r) PROVE [Store!Next]_Store!storeVars
  <2>1. stage[r] = "inside" /\ file' = file /\ r \in AuditCalls
    BY <1>8, <1>w DEF ReadAll
  <2>2. Writing' <=> Writing
    BY <1>8, <1>t, <1>w, <2>1 DEF ReadAll, Returned, Writing
  <2>3. FileLog' = FileLog
    BY <2>1, <2>2, LogMoves
  <2>4. ASSUME Readable, Returned(r, "done"),
               answer' = [answer EXCEPT ![r] = [i \in 1..Len(file) |-> file[i].of]]
        PROVE  [Store!Next]_Store!storeVars
    <3>1. Returned(r, "done") /\ answer' = [answer EXCEPT ![r] = [i \in 1..Len(file) |-> file[i].of]]
      BY <2>4
    <3>2. ~Writing
      <4> SUFFICES ASSUME NEW w \in Writers, stage[w] = "writing" PROVE FALSE
        BY DEF Writing
      <4>1. file # <<>> /\ file[Len(file)] = [of |-> w, part |-> "torn"]
        BY <1>i DEF OneWrite
      <4>2. file[Len(file)].part = "torn"
        BY <4>1
      <4>3. Len(file) \in 1..Len(file)
        BY <1>t, <4>1
      <4> QED BY <2>4, <4>2, <4>3 DEF Readable, Decodes
    <3>3. FileLog = [i \in 1..Len(file) |-> file[i].of]
      BY <3>2 DEF FileLog, Written
    <3>4. FileCall[r] = "called" /\ FileCall' = [FileCall EXCEPT ![r] = "done"]
      BY <1>i, <2>1, <3>1, CallEnds
    <3> QED BY <2>3, <3>1, <3>3, <3>4 DEF Store!Next, Store!Reads
  <2>5. ASSUME Returned(r, "failed"), UNCHANGED answer PROVE [Store!Next]_Store!storeVars
    BY <1>f, <2>1, <2>3, <2>5 DEF Outcomes
  <2> QED BY <1>8, <2>4, <2>5 DEF ReadAll
<1>9. ASSUME NEW s \in Stores, StoreDies(s) PROVE [Store!Next]_Store!storeVars
  <2> DEFINE lost == {c \in AuditCalls : StoreOf[c] = s /\ stage[c] \in {"called", "inside", "writing"}}
  <2>1. /\ stage' = [c \in AuditCalls |-> IF c \in lost THEN "returned" ELSE stage[c]]
        /\ outcome' = [c \in AuditCalls |-> IF c \in lost THEN "died" ELSE outcome[c]]
        /\ UNCHANGED answer
        /\ \E p \in Parts : file' = IF stage[holder[s]] = "writing" THEN Upto(p) ELSE file
    BY <1>9 DEF StoreDies
  <2>2. holder[s] \in AuditCalls /\ StoreOf[holder[s]] = s /\ stage[holder[s]] \in {"inside", "writing"}
    BY <1>9, <1>i DEF StoreDies, Mutex, AuditTypeOK
  <2>3. \A c \in lost : FileCall[c] = "called"
    BY FileCallIs
  <2>4. FileCall' = [c \in AuditCalls |-> IF c \in lost THEN "failed" ELSE FileCall[c]]
    BY <2>1 DEF FileCall, Ended
  <2>5. lost \subseteq AuditCalls /\ holder[s] \in lost
    BY <2>2
  <2>6. \A v \in Writers : stage[v] = "writing" /\ v \in lost => v = holder[s]
    BY <1>i, <1>w DEF Mutex
  <2> HIDE DEF lost
  <2>7. FileLog' \in {FileLog} \cup {Append(FileLog, w) : w \in lost \cap Writers}
    <3>1. CASE stage[holder[s]] = "writing"
      <4>1. holder[s] \in Writers
        BY <1>i, <2>2, <3>1 DEF Mutex
      <4>2. ~Writing'
        <5>1. \A v \in Writers : stage[v] = "writing" => v \in lost
          BY <1>i, <2>5, <3>1, <4>1 DEF OneWrite
        <5> QED BY <1>w, <2>1, <5>1 DEF Writing
      <4> QED BY <2>1, <2>5, <3>1, <4>1, <4>2, LogMoves
    <3>2. CASE stage[holder[s]] # "writing"
      <4>1. Writing' <=> Writing
        BY <1>w, <2>1, <2>6, <3>2 DEF Writing
      <4> QED BY <2>1, <3>2, <4>1, LogMoves
    <3> QED BY <3>1, <3>2
  <2>8. Store!Fail(lost)
    BY <1>w, <2>1, <2>3, <2>4, <2>7 DEF Store!Fail
  <2> QED BY <1>w, <2>5, <2>8 DEF Store!Next
<1>10. CASE UNCHANGED auditVars
  BY <1>10 DEF auditVars, Store!storeVars, FileLog, FileCall, Written, Writing, Ended
<1> QED BY <1>1, <1>2, <1>3, <1>4, <1>6, <1>7, <1>8, <1>9, <1>10 DEF AuditNext

\* Replicas that share the file, with a mutex each and nothing between them,
\* keep the interface's word, "Implementations must be safe for concurrent
\* use": a call takes effect at one moment while it is under way, or fails,
\* for any number of replicas, calls, cut writes and deaths (FileStore).
THEOREM FileIsStore == AuditSpec => FileImplementsStore
<1>1. AuditInit => Store!Init
  <2> SUFFICES ASSUME AuditInit PROVE Store!Init
    OBVIOUS
  <2>1. file = <<>> /\ \A c \in AuditCalls : stage[c] = "out"
    BY DEF AuditInit
  <2>2. ~Writing
    BY <2>1 DEF Writing, AuditCalls
  <2>3. FileLog = <<>>
    BY <2>1, <2>2 DEF FileLog, Written
  <2>4. FileCall = [c \in AuditCalls |-> "out"]
    BY <2>1 DEF FileCall
  <2> QED BY <2>3, <2>4 DEF AuditInit, Store!Init, Store!StoreCalls, AuditCalls
<1> QED BY <1>1, CoreAlways, StoreStep, PTL DEF AuditSpec, FileImplementsStore, Store!Spec
=============================================================================
