------------------------ MODULE CheckpointStoreProofs ------------------------
(***************************************************************************)
(* Theorems about CheckpointStore, for any versions, records, temporary    *)
(* names, writers and readers.                                             *)
(***************************************************************************)
EXTENDS CheckpointStoreInv, FiniteSetTheorems, TLAPS

-----------------------------------------------------------------------------
(* Records and requests.                                                   *)

LEMMA CallsTyped ==
    /\ \A v \in Versions, c \in Contents : Call("save", v, c) \in SaveRequests
    /\ \A v \in Versions, op \in {"load", "latest"} : Call(op, v, None) \in LoadRequests
    /\ SaveRequests \subseteq WriteOnce!Requests
    /\ LoadRequests \subseteq WriteOnce!Requests
    /\ Call("latest", None, None) \in WriteOnce!Requests
BY DEF Call, SaveRequests, LoadRequests, WriteOnce!Requests

LEMMA AnswersTyped ==
    ASSUME NEW op \in {"save", "load", "latest"},
           NEW outcome \in {"saved", "conflict", "loaded", "not_found", "io_error"},
           NEW v \in Versions \cup {None}, NEW c \in Contents \cup {None}
    PROVE  Answer(op, outcome, v, c) \in WriteOnce!Answers
BY DEF Answer, WriteOnce!Answers

LEMMA RequestFields ==
    /\ \A r \in SaveRequests : r.op = "save" /\ r.version \in Versions /\ r.content \in Contents
                               /\ r # None
    /\ \A r \in LoadRequests : r.op \in {"load", "latest"} /\ r.version \in Versions
                               /\ r.content = None /\ r # None
    /\ Call("latest", None, None) # None
BY CallsTyped, NoneAssumption DEF SaveRequests, LoadRequests

LEMMA LatestListed ==
    ASSUME IInv, Listed # {}
    PROVE  /\ Latest(Listed) \in Versions /\ dir[Latest(Listed)] # Absent
           /\ \A v \in Versions : dir[v] # Absent => v <= Latest(Listed)
<1>1. Listed \subseteq Nat
  BY VersionsAssumption DEF Listed
<1>2. \E m \in Listed : \A v \in Listed : m >= v
  BY <1>1 DEF IInv, LatestExist, HasLatest
<1>3. Latest(Listed) \in Listed /\ \A v \in Listed : Latest(Listed) >= v
  BY <1>2 DEF Latest, Max
<1> QED BY <1>1, <1>3 DEF Listed

-----------------------------------------------------------------------------
(* Every call.                                                             *)

LEMMA CallStep ==
    ASSUME IInv, Next, NEW q \in Processes
    PROVE  CallInStep(q)'
<1>0. /\ CallInStep(q) /\ NamesAssumption /\ None \notin Temps
      /\ pc \in [Processes -> {"idle", "exists", "compare", "mkstemp", "write", "replace",
                               "replaced", "list", "read"}]
      /\ request \in [Processes -> WriteOnce!Requests \cup {None}]
      /\ answer \in [Processes -> WriteOnce!Answers \cup {None}]
      /\ temp \in [Processes -> Temps \cup {None}]
  BY NamesAssumption, NoneAssumption DEF IInv, TypeOK
<1>1. ASSUME NEW p \in Processes, Save(p) PROVE CallInStep(q)'
  <2>1. PICK v \in Versions, c \in Contents :
           <<p, v>> \in Saves /\ Begin(p, Call("save", v, c), "exists")
    BY <1>1 DEF Save
  <2>2. Call("save", v, c) \in SaveRequests /\ Call("save", v, c).version = v
    BY CallsTyped DEF Call
  <2>3. PICK r \in SaveRequests : r = Call("save", v, c)
    BY <2>2
  <2> QED BY <1>0, <2>1, <2>2, <2>3 DEF Begin, Goto, CallInStep
<1>2. ASSUME NEW p \in Processes, Exists(p) PROVE CallInStep(q)'
  BY <1>2, <1>0 DEF Exists, Goto, CallInStep
<1>3. ASSUME NEW p \in Processes, Compare(p) PROVE CallInStep(q)'
  BY <1>3, <1>0 DEF Compare, Return, Goto, CallInStep
<1>4. ASSUME NEW p \in Processes, MakeTemp(p) PROVE CallInStep(q)'
  BY <1>4, <1>0 DEF MakeTemp, Goto, FreeTemps, CallInStep
<1>5. ASSUME NEW p \in Processes, Write(p) PROVE CallInStep(q)'
  BY <1>5, <1>0 DEF Write, Goto, CallInStep
<1>6. ASSUME NEW p \in Processes, Replace(p) PROVE CallInStep(q)'
  BY <1>6, <1>0, RequestFields DEF Replace, Goto, CallInStep
<1>7. ASSUME NEW p \in Processes, WriteFails(p) PROVE CallInStep(q)'
  BY <1>7, <1>0 DEF WriteFails, Return, Goto, CallInStep
<1>8. ASSUME NEW p \in Processes, Load(p) PROVE CallInStep(q)'
  <2>1. PICK v \in Versions : Begin(p, Call("load", v, None), "read")
    BY <1>8 DEF Load
  <2>2. PICK r \in LoadRequests : r = Call("load", v, None)
    BY CallsTyped
  <2> QED BY <1>0, <2>1, <2>2 DEF Begin, Goto, CallInStep
<1>9. ASSUME NEW p \in Processes, LoadLatest(p) PROVE CallInStep(q)'
  BY <1>9, <1>0, CallsTyped DEF LoadLatest, Begin, Goto, Call, CallInStep
<1>10. ASSUME NEW p \in Processes, List(p) PROVE CallInStep(q)'
  BY <1>10, <1>0, CallsTyped, LatestListed DEF List, Return, Goto, CallInStep
<1>11. ASSUME NEW p \in Processes, Read(p) PROVE CallInStep(q)'
  BY <1>11, <1>0 DEF Read, Return, Goto, CallInStep
<1>12. ASSUME NEW p \in Processes, ReadFails(p) PROVE CallInStep(q)'
  BY <1>12, <1>0 DEF ReadFails, Return, Goto, CallInStep
<1>13. ASSUME NEW p \in Processes, Crash(p) PROVE CallInStep(q)'
  BY <1>13, <1>0 DEF Crash, Return, Goto, CallInStep
<1>14. ASSUME NEW p \in Processes, Saved(p) PROVE CallInStep(q)'
  BY <1>14, <1>0 DEF Saved, Return, Goto, CallInStep
<1> QED BY <1>1, <1>2, <1>3, <1>4, <1>5, <1>6, <1>7, <1>8, <1>9, <1>10, <1>11, <1>12, <1>13,
        <1>14 DEF Next

-----------------------------------------------------------------------------
(* Types, and the temporary files.                                         *)

\* TypeOK without its last conjunct.
Shape ==
    /\ dir \in [Names -> Contents \cup {Absent, Torn}]
    /\ pc \in [Processes -> {"idle", "exists", "compare", "mkstemp", "write",
                             "replace", "replaced", "list", "read"}]
    /\ request \in [Processes -> WriteOnce!Requests \cup {None}]
    /\ answer \in [Processes -> WriteOnce!Answers \cup {None}]
    /\ temp \in [Processes -> Temps \cup {None}]
    /\ seen \in [Versions -> SUBSET Contents]
    /\ acked \subseteq Versions
    /\ floor \in [Processes -> SUBSET Versions]

\* The last one: a temporary file is there, and is its maker's alone.
Apart(p, q) ==
    temp[p] # None => dir[temp[p]] # Absent /\ (temp[q] = temp[p] => q = p)

LEMMA TypeSplit == TypeOK <=> Shape /\ \A p, q \in Processes : Apart(p, q)
BY DEF TypeOK, Shape, Apart

LEMMA ApartStep ==
    ASSUME IInv, Next, NEW q \in Processes, NEW r \in Processes
    PROVE  Apart(q, r)'
<1>0. /\ dir \in [Names -> Contents \cup {Absent, Torn}]
      /\ temp \in [Processes -> Temps \cup {None}]
      /\ Names = Versions \cup Temps
      /\ None \notin Temps
      /\ \A s, t \in Processes : Apart(s, t)
      /\ \A s \in Processes : CallInStep(s)
  BY NoneAssumption, TypeSplit DEF IInv, Shape, Names
<1>1. ASSUME NEW p \in Processes, Save(p) PROVE Apart(q, r)'
  BY <1>1, <1>0 DEF Save, Begin, Goto, Apart
<1>2. ASSUME NEW p \in Processes, Exists(p) PROVE Apart(q, r)'
  BY <1>2, <1>0 DEF Exists, Goto, Apart
<1>3. ASSUME NEW p \in Processes, Compare(p) PROVE Apart(q, r)'
  BY <1>3, <1>0 DEF Compare, Return, Goto, Apart
<1>4. ASSUME NEW p \in Processes, MakeTemp(p) PROVE Apart(q, r)'
  BY <1>4, <1>0, NamesAssumption DEF MakeTemp, Goto, FreeTemps, Apart
<1>5. ASSUME NEW p \in Processes, Write(p) PROVE Apart(q, r)'
  <2>1. request[p].content \in Contents /\ temp[p] \in Temps /\ pc[p] = "write"
    BY <1>5, <1>0, RequestFields DEF Write, CallInStep
  <2> QED BY <1>5, <1>0, <2>1, NamesAssumption DEF Write, Written, Apart
<1>6. ASSUME NEW p \in Processes, Replace(p) PROVE Apart(q, r)'
  <2>1. /\ request[p].version \in Versions /\ request[p].content \in Contents
        /\ temp[p] \in Temps /\ pc[p] = "replace"
    BY <1>6, <1>0, RequestFields DEF Replace, CallInStep
  <2> QED BY <1>6, <1>0, <2>1, NamesAssumption DEF Replace, Renamed, Apart
<1>7. ASSUME NEW p \in Processes, WriteFails(p) PROVE Apart(q, r)'
  BY <1>7, <1>0 DEF WriteFails, Return, Goto, Discarded, Apart
<1>8. ASSUME NEW p \in Processes, Load(p) PROVE Apart(q, r)'
  BY <1>8, <1>0 DEF Load, Begin, Goto, Apart
<1>9. ASSUME NEW p \in Processes, LoadLatest(p) PROVE Apart(q, r)'
  BY <1>9, <1>0 DEF LoadLatest, Begin, Goto, Apart
<1>10. ASSUME NEW p \in Processes, List(p) PROVE Apart(q, r)'
  BY <1>10, <1>0 DEF List, Return, Goto, Apart
<1>11. ASSUME NEW p \in Processes, Read(p) PROVE Apart(q, r)'
  BY <1>11, <1>0 DEF Read, Return, Goto, Apart
<1>12. ASSUME NEW p \in Processes, ReadFails(p) PROVE Apart(q, r)'
  BY <1>12, <1>0 DEF ReadFails, Return, Goto, Apart
<1>13. ASSUME NEW p \in Processes, Crash(p) PROVE Apart(q, r)'
  BY <1>13, <1>0 DEF Crash, Return, Goto, Apart
<1>14. ASSUME NEW p \in Processes, Saved(p) PROVE Apart(q, r)'
  BY <1>14, <1>0 DEF Saved, Return, Goto, Apart
<1> QED BY <1>1, <1>2, <1>3, <1>4, <1>5, <1>6, <1>7, <1>8, <1>9, <1>10, <1>11, <1>12, <1>13,
        <1>14 DEF Next

\* What Begin and Return leave well-formed.
LEMMA BeginShape ==
    ASSUME Shape, NEW p \in Processes, NEW call \in WriteOnce!Requests,
           NEW to \in {"exists", "list", "read"}, Begin(p, call, to)
    PROVE  Shape'
BY DEF Shape, Begin, Goto

LEMMA ReturnShape ==
    ASSUME Shape, NEW p \in Processes, NEW a \in WriteOnce!Answers \cup {None}, Return(p, a),
           dir' \in [Names -> Contents \cup {Absent, Torn}],
           seen' \in [Versions -> SUBSET Contents],
           a # None /\ a.outcome = "saved" => a.version \in Versions
    PROVE  Shape'
BY DEF Shape, Return, Goto

LEMMA ShapeStep ==
    ASSUME IInv, Next
    PROVE  Shape'
<1>0. /\ Shape /\ Names = Versions \cup Temps
      /\ \A s \in Processes : CallInStep(s)
      /\ WholeBeforeNamed
  BY TypeSplit DEF IInv, Names
<1>1. ASSUME NEW p \in Processes, Save(p) PROVE Shape'
  <2>1. PICK v \in Versions, c \in Contents : Begin(p, Call("save", v, c), "exists")
    BY <1>1 DEF Save
  <2> QED BY <1>0, <2>1, CallsTyped, BeginShape
<1>2. ASSUME NEW p \in Processes, Exists(p) PROVE Shape'
  BY <1>2, <1>0 DEF Exists, Goto, Shape, ghosts
<1>3. ASSUME NEW p \in Processes, Compare(p) PROVE Shape'
  <2>1. PICK v \in Versions, c \in Contents :
             Return(p, Answer("save", Verdict(dir[v], c), v, c)) /\ UNCHANGED <<dir, seen>>
    BY <1>3, <1>0, RequestFields DEF Compare, CallInStep
  <2>2. Verdict(dir[v], c) \in {"saved", "conflict", "not_found"}
    BY <1>0 DEF Verdict, WholeBeforeNamed
  <2>3. Answer("save", Verdict(dir[v], c), v, c) \in WriteOnce!Answers
    BY <2>2, AnswersTyped
  <2>4. Answer("save", Verdict(dir[v], c), v, c).version = v
    BY DEF Answer
  <2> QED BY <1>0, <2>1, <2>3, <2>4, ReturnShape DEF Shape
<1>4. ASSUME NEW p \in Processes, MakeTemp(p) PROVE Shape'
  BY <1>4, <1>0, NamesAssumption DEF MakeTemp, FreeTemps, Goto, Shape, ghosts
<1>5. ASSUME NEW p \in Processes, Write(p) PROVE Shape'
  <2>1. request[p].content \in Contents
    BY <1>5, <1>0, RequestFields DEF Write, CallInStep
  <2> QED BY <1>5, <1>0, <2>1 DEF Write, Written, Goto, Shape, ghosts
<1>6. ASSUME NEW p \in Processes, Replace(p) PROVE Shape'
  <2>1. request[p].version \in Versions /\ temp[p] \in Temps
    BY <1>6, <1>0, RequestFields DEF Replace, CallInStep, Shape
  <2>2. dir' \in [Names -> Contents \cup {Absent, Torn}]
    BY <1>6, <1>0, <2>1 DEF Replace, Renamed, Shape
  <2> QED BY <1>6, <1>0, <2>2 DEF Replace, Goto, Shape, ghosts
<1>7. ASSUME NEW p \in Processes, WriteFails(p) PROVE Shape'
  <2>1. IOError(p) \in WriteOnce!Answers /\ IOError(p).outcome = "io_error"
    <3>1. request[p].op \in {"save", "load", "latest"} /\ request[p].version \in Versions
      BY <1>7, <1>0, RequestFields DEF WriteFails, CallInStep
    <3>2. IOError(p) \in WriteOnce!Answers
      BY <3>1, AnswersTyped DEF IOError
    <3> QED BY <3>2 DEF IOError, Answer
  <2>2. dir' \in [Names -> Contents \cup {Absent, Torn}]
    BY <1>7, <1>0 DEF WriteFails, Discarded, Shape
  <2> QED BY <1>7, <1>0, <2>1, <2>2, ReturnShape DEF WriteFails, Shape
<1>8. ASSUME NEW p \in Processes, Load(p) PROVE Shape'
  <2>1. PICK v \in Versions : Begin(p, Call("load", v, None), "read")
    BY <1>8 DEF Load
  <2>2. Call("load", v, None) \in WriteOnce!Requests
    BY CallsTyped
  <2> QED BY <1>0, <2>1, <2>2, BeginShape
<1>9. ASSUME NEW p \in Processes, LoadLatest(p) PROVE Shape'
  BY <1>9, <1>0, CallsTyped, BeginShape DEF LoadLatest
<1>10. ASSUME NEW p \in Processes, List(p) PROVE Shape'
  <2>1. CASE Listed = {}
    <3>1. Answer("latest", "not_found", None, None) \in WriteOnce!Answers
      BY AnswersTyped
    <3>2. Answer("latest", "not_found", None, None).outcome = "not_found"
      BY DEF Answer
    <3> QED BY <1>10, <1>0, <2>1, <3>1, <3>2, ReturnShape DEF List, Shape
  <2>2. CASE Listed # {}
    <3>1. Call("latest", Latest(Listed), None) \in WriteOnce!Requests
      BY <2>2, LatestListed, CallsTyped
    <3> QED BY <1>10, <1>0, <2>2, <3>1 DEF List, Goto, Shape, ghosts
  <2> QED BY <2>1, <2>2
<1>11. ASSUME NEW p \in Processes, Read(p) PROVE Shape'
  <2>1. PICK v \in Versions, op \in {"load", "latest"} :
           v = request[p].version /\ op = request[p].op
    BY <1>11, <1>0, RequestFields DEF Read, CallInStep
  <2>2. dir[v] \in Contents \cup {Absent} /\ seen \in [Versions -> SUBSET Contents]
    BY <1>0 DEF Shape, WholeBeforeNamed
  <2>3. CASE dir[v] = Absent
    <3>1. Return(p, Answer(op, "not_found", v, None)) /\ UNCHANGED <<dir, seen>>
      BY <1>11, <2>1, <2>3, NamesAssumption DEF Read
    <3>2. /\ Answer(op, "not_found", v, None) \in WriteOnce!Answers
          /\ Answer(op, "not_found", v, None).outcome = "not_found"
      BY AnswersTyped DEF Answer
    <3> QED BY <1>0, <3>1, <3>2, ReturnShape DEF Shape
  <2>4. CASE dir[v] \in Contents
    <3>1. /\ Return(p, Answer(op, "loaded", v, dir[v])) /\ UNCHANGED dir
          /\ seen' = [seen EXCEPT ![v] = seen[v] \cup {dir[v]}]
      BY <1>11, <2>1, <2>4, NamesAssumption DEF Read
    <3>2. /\ Answer(op, "loaded", v, dir[v]) \in WriteOnce!Answers
          /\ Answer(op, "loaded", v, dir[v]).outcome = "loaded"
      BY <2>4, AnswersTyped DEF Answer
    <3>3. seen' \in [Versions -> SUBSET Contents]
      BY <2>2, <2>4, <3>1
    <3> QED BY <1>0, <3>1, <3>2, <3>3, ReturnShape DEF Shape
  <2> QED BY <2>2, <2>3, <2>4
<1>12. ASSUME NEW p \in Processes, ReadFails(p) PROVE Shape'
  <2>1. IOError(p) \in WriteOnce!Answers /\ IOError(p).outcome = "io_error"
    <3>1. request[p].op \in {"save", "load", "latest"} /\ request[p].version \in Versions
      BY <1>12, <1>0, RequestFields DEF ReadFails, CallInStep
    <3>2. IOError(p) \in WriteOnce!Answers
      BY <3>1, AnswersTyped DEF IOError
    <3> QED BY <3>2 DEF IOError, Answer
  <2> QED BY <1>12, <1>0, <2>1, ReturnShape DEF ReadFails, Shape
<1>13. ASSUME NEW p \in Processes, Crash(p) PROVE Shape'
  BY <1>13, <1>0, ReturnShape DEF Crash, Shape
<1>14. ASSUME NEW p \in Processes, Saved(p) PROVE Shape'
  <2>1. PICK v \in Versions, c \in Contents :
           Return(p, Answer("save", "saved", v, c)) /\ UNCHANGED <<dir, seen>>
    BY <1>14, <1>0, RequestFields DEF Saved, CallInStep
  <2>2. Answer("save", "saved", v, c) \in WriteOnce!Answers
    BY AnswersTyped
  <2>3. Answer("save", "saved", v, c).version = v
    BY DEF Answer
  <2> QED BY <1>0, <2>1, <2>2, <2>3, ReturnShape DEF Shape
<1> QED BY <1>1, <1>2, <1>3, <1>4, <1>5, <1>6, <1>7, <1>8, <1>9, <1>10, <1>11, <1>12, <1>13,
        <1>14 DEF Next

-----------------------------------------------------------------------------
(* The directory.                                                          *)

\* A version's file only ever changes by being replaced by a complete text.
LEMMA VersionsStep ==
    ASSUME IInv, Next, NEW v \in Versions
    PROVE  \/ dir'[v] = dir[v]
           \/ \E p \in Processes : /\ Replace(p) /\ request[p].version = v
                                   /\ dir'[v] = request[p].content
<1> DEFINE Goal == \/ dir'[v] = dir[v]
                   \/ \E p \in Processes : /\ Replace(p) /\ request[p].version = v
                                           /\ dir'[v] = request[p].content
<1>0. /\ dir \in [Names -> Contents \cup {Absent, Torn}]
      /\ temp \in [Processes -> Temps \cup {None}]
      /\ Names = Versions \cup Temps /\ Temps \cap Versions = {} /\ None \notin Temps
      /\ \A s \in Processes : CallInStep(s)
  BY NoneAssumption, NamesAssumption, TypeSplit DEF IInv, Shape, Names
<1>1. ASSUME NEW p \in Processes, Save(p) PROVE Goal
  BY <1>1, <1>0 DEF Save, Begin, Goto
<1>2. ASSUME NEW p \in Processes, Exists(p) PROVE Goal
  BY <1>2, <1>0 DEF Exists, Goto
<1>3. ASSUME NEW p \in Processes, Compare(p) PROVE Goal
  BY <1>3, <1>0 DEF Compare, Return, Goto
<1>4. ASSUME NEW p \in Processes, MakeTemp(p) PROVE Goal
  BY <1>4, <1>0 DEF MakeTemp, Goto, FreeTemps
<1>5. ASSUME NEW p \in Processes, Write(p) PROVE Goal
  <2>1. temp[p] \in Temps
    BY <1>5, <1>0 DEF Write, CallInStep
  <2> QED BY <1>5, <1>0, <2>1 DEF Write, Written
<1>6. ASSUME NEW p \in Processes, Replace(p) PROVE Goal
  <2>1. /\ temp[p] \in Temps /\ request[p].version \in Versions
        /\ dir[temp[p]] = request[p].content
    BY <1>6, <1>0, RequestFields DEF Replace, CallInStep, IInv, WholeBeforeNamed
  <2>2. dir' = Renamed(temp[p], request[p].version)
    BY <1>6 DEF Replace
  <2>3. dir'[v] = IF v = request[p].version THEN request[p].content ELSE dir[v]
    BY <1>0, <2>1, <2>2 DEF Renamed
  <2> QED BY <1>6, <2>3
<1>7. ASSUME NEW p \in Processes, WriteFails(p) PROVE Goal
  BY <1>7, <1>0 DEF WriteFails, Return, Goto, Discarded
<1>8. ASSUME NEW p \in Processes, Load(p) PROVE Goal
  BY <1>8, <1>0 DEF Load, Begin, Goto
<1>9. ASSUME NEW p \in Processes, LoadLatest(p) PROVE Goal
  BY <1>9, <1>0 DEF LoadLatest, Begin, Goto
<1>10. ASSUME NEW p \in Processes, List(p) PROVE Goal
  BY <1>10, <1>0 DEF List, Return, Goto
<1>11. ASSUME NEW p \in Processes, Read(p) PROVE Goal
  BY <1>11, <1>0 DEF Read, Return, Goto
<1>12. ASSUME NEW p \in Processes, ReadFails(p) PROVE Goal
  BY <1>12, <1>0 DEF ReadFails, Return, Goto
<1>13. ASSUME NEW p \in Processes, Crash(p) PROVE Goal
  BY <1>13, <1>0 DEF Crash, Return, Goto
<1>14. ASSUME NEW p \in Processes, Saved(p) PROVE Goal
  BY <1>14, <1>0 DEF Saved, Return, Goto
<1> QED BY <1>1, <1>2, <1>3, <1>4, <1>5, <1>6, <1>7, <1>8, <1>9, <1>10, <1>11, <1>12, <1>13,
        <1>14 DEF Next

\* A temporary file is only touched by the process that made it.
LEMMA TempsStep ==
    ASSUME IInv, Next, NEW q \in Processes, pc[q] = "replace", pc'[q] = "replace"
    PROVE  dir'[temp[q]] = dir[temp[q]] /\ UNCHANGED <<temp[q], request[q]>>
<1> DEFINE Goal == dir'[temp[q]] = dir[temp[q]] /\ temp'[q] = temp[q] /\ request'[q] = request[q]
<1>0. /\ dir \in [Names -> Contents \cup {Absent, Torn}]
      /\ temp \in [Processes -> Temps \cup {None}]
      /\ request \in [Processes -> WriteOnce!Requests \cup {None}]
      /\ pc \in [Processes -> {"idle", "exists", "compare", "mkstemp", "write", "replace",
                               "replaced", "list", "read"}]
      /\ Names = Versions \cup Temps /\ Temps \cap Versions = {} /\ None \notin Temps
      /\ \A s, t \in Processes : Apart(s, t)
      /\ \A s \in Processes : CallInStep(s)
      /\ temp[q] \in Temps
  BY NoneAssumption, NamesAssumption, TypeSplit DEF IInv, Shape, Names, CallInStep
<1>1. ASSUME NEW p \in Processes, Save(p) PROVE Goal
  BY <1>1, <1>0 DEF Save, Begin, Goto
<1>2. ASSUME NEW p \in Processes, Exists(p) PROVE Goal
  BY <1>2, <1>0 DEF Exists, Goto
<1>3. ASSUME NEW p \in Processes, Compare(p) PROVE Goal
  BY <1>3, <1>0 DEF Compare, Return, Goto
<1>4. ASSUME NEW p \in Processes, MakeTemp(p) PROVE Goal
  BY <1>4, <1>0 DEF MakeTemp, Goto, FreeTemps, Apart
<1>5. ASSUME NEW p \in Processes, Write(p) PROVE Goal
  <2>1. temp[p] \in Temps
    BY <1>5, <1>0 DEF Write, CallInStep
  <2> QED BY <1>5, <1>0, <2>1 DEF Write, Written, Goto, Apart
<1>6. ASSUME NEW p \in Processes, Replace(p) PROVE Goal
  <2>1. temp[p] \in Temps /\ request[p].version \in Versions
    BY <1>6, <1>0, RequestFields DEF Replace, CallInStep
  <2> QED BY <1>6, <1>0, <2>1 DEF Replace, Goto, Renamed, Apart
<1>7. ASSUME NEW p \in Processes, WriteFails(p) PROVE Goal
  BY <1>7, <1>0 DEF WriteFails, Return, Goto, Discarded, Apart
<1>8. ASSUME NEW p \in Processes, Load(p) PROVE Goal
  BY <1>8, <1>0 DEF Load, Begin, Goto
<1>9. ASSUME NEW p \in Processes, LoadLatest(p) PROVE Goal
  BY <1>9, <1>0 DEF LoadLatest, Begin, Goto
<1>10. ASSUME NEW p \in Processes, List(p) PROVE Goal
  BY <1>10, <1>0 DEF List, Return, Goto
<1>11. ASSUME NEW p \in Processes, Read(p) PROVE Goal
  BY <1>11, <1>0 DEF Read, Return, Goto
<1>12. ASSUME NEW p \in Processes, ReadFails(p) PROVE Goal
  BY <1>12, <1>0 DEF ReadFails, Return, Goto
<1>13. ASSUME NEW p \in Processes, Crash(p) PROVE Goal
  BY <1>13, <1>0 DEF Crash, Return, Goto
<1>14. ASSUME NEW p \in Processes, Saved(p) PROVE Goal
  BY <1>14, <1>0 DEF Saved, Return, Goto
<1> QED BY <1>1, <1>2, <1>3, <1>4, <1>5, <1>6, <1>7, <1>8, <1>9, <1>10, <1>11, <1>12, <1>13,
        <1>14 DEF Next

LEMMA RecordsStay ==
    ASSUME IInv, Next, NEW v \in Versions
    PROVE  /\ dir'[v] # Torn
           /\ dir[v] # Absent => dir'[v] # Absent
<1>1. CASE dir'[v] = dir[v]
  BY <1>1 DEF IInv, WholeBeforeNamed
<1>2. ASSUME NEW p \in Processes, Replace(p), dir'[v] = request[p].content
      PROVE  dir'[v] \in Contents
  BY <1>2, RequestFields DEF Replace, IInv, CallInStep
<1> QED BY <1>1, <1>2, VersionsStep, NamesAssumption

LEMMA WholeStep ==
    ASSUME IInv, Next
    PROVE  WholeBeforeNamed'
<1>1. ASSUME NEW q \in Processes, pc'[q] = "replace" PROVE dir'[temp'[q]] = request'[q].content
  <2>1. CASE pc[q] = "replace"
    BY <1>1, <2>1, TempsStep DEF IInv, WholeBeforeNamed
  <2>2. CASE pc[q] # "replace"
    <3>0. /\ pc \in [Processes -> {"idle", "exists", "compare", "mkstemp", "write", "replace",
                                   "replaced", "list", "read"}]
          /\ temp[q] \in Temps \cup {None}
          /\ dir \in [Names -> Contents \cup {Absent, Torn}]
          /\ Names = Versions \cup Temps /\ None \notin Temps
          /\ CallInStep(q)
      BY NoneAssumption, TypeSplit DEF IInv, Shape, Names
    <3>1. Write(q)
      <4>1. ASSUME NEW p \in Processes, Save(p) PROVE Write(q)
        BY <4>1, <1>1, <2>2, <3>0 DEF Save, Begin, Goto
      <4>2. ASSUME NEW p \in Processes, Exists(p) PROVE Write(q)
        BY <4>2, <1>1, <2>2, <3>0 DEF Exists, Goto
      <4>3. ASSUME NEW p \in Processes, Compare(p) PROVE Write(q)
        BY <4>3, <1>1, <2>2, <3>0 DEF Compare, Return, Goto
      <4>4. ASSUME NEW p \in Processes, MakeTemp(p) PROVE Write(q)
        BY <4>4, <1>1, <2>2, <3>0 DEF MakeTemp, Goto
      <4>5. ASSUME NEW p \in Processes, Write(p) PROVE Write(q)
        BY <4>5, <1>1, <2>2, <3>0 DEF Write, Goto
      <4>6. ASSUME NEW p \in Processes, Replace(p) PROVE Write(q)
        BY <4>6, <1>1, <2>2, <3>0 DEF Replace, Goto
      <4>7. ASSUME NEW p \in Processes, WriteFails(p) PROVE Write(q)
        BY <4>7, <1>1, <2>2, <3>0 DEF WriteFails, Return, Goto
      <4>8. ASSUME NEW p \in Processes, Load(p) PROVE Write(q)
        BY <4>8, <1>1, <2>2, <3>0 DEF Load, Begin, Goto
      <4>9. ASSUME NEW p \in Processes, LoadLatest(p) PROVE Write(q)
        BY <4>9, <1>1, <2>2, <3>0 DEF LoadLatest, Begin, Goto
      <4>10. ASSUME NEW p \in Processes, List(p) PROVE Write(q)
        BY <4>10, <1>1, <2>2, <3>0 DEF List, Return, Goto
      <4>11. ASSUME NEW p \in Processes, Read(p) PROVE Write(q)
        BY <4>11, <1>1, <2>2, <3>0 DEF Read, Return, Goto
      <4>12. ASSUME NEW p \in Processes, ReadFails(p) PROVE Write(q)
        BY <4>12, <1>1, <2>2, <3>0 DEF ReadFails, Return, Goto
      <4>13. ASSUME NEW p \in Processes, Crash(p) PROVE Write(q)
        BY <4>13, <1>1, <2>2, <3>0 DEF Crash, Return, Goto
      <4>14. ASSUME NEW p \in Processes, Saved(p) PROVE Write(q)
        BY <4>14, <1>1, <2>2, <3>0 DEF Saved, Return, Goto
      <4> QED BY <4>1, <4>2, <4>3, <4>4, <4>5, <4>6, <4>7,
                 <4>8, <4>9, <4>10, <4>11, <4>12, <4>13, <4>14 DEF Next
    <3>2. temp[q] \in Temps
      BY <3>0, <3>1 DEF Write, CallInStep
    <3> QED BY <3>0, <3>1, <3>2 DEF Write, Written
  <2> QED BY <2>1, <2>2
<1> QED BY <1>1, RecordsStay DEF WholeBeforeNamed

\* A save that returns leaves a record behind.
LEMMA AckedStep ==
    ASSUME IInv, Next
    PROVE  \/ acked' = acked
           \/ \E v \in Versions : acked' = acked \cup {v} /\ dir'[v] # Absent
<1> DEFINE Goal == \/ acked' = acked
                   \/ \E v \in Versions : acked' = acked \cup {v} /\ dir'[v] # Absent
<1>0. /\ \A s \in Processes : CallInStep(s)
      /\ dir \in [Names -> Contents \cup {Absent, Torn}] /\ Names = Versions \cup Temps
  BY TypeSplit DEF IInv, Shape, Names
<1>1. ASSUME NEW p \in Processes, Save(p) PROVE Goal
  BY <1>1, <1>0 DEF Save, Begin, Goto
<1>2. ASSUME NEW p \in Processes, Exists(p) PROVE Goal
  BY <1>2, <1>0 DEF Exists, Goto, ghosts
<1>3. ASSUME NEW p \in Processes, Compare(p) PROVE Goal
  <2>1. PICK v \in Versions, c \in Contents :
             Return(p, Answer("save", Verdict(dir[v], c), v, c)) /\ UNCHANGED <<dir, seen>>
    BY <1>3, <1>0, RequestFields DEF Compare, CallInStep
  <2>2. Verdict(dir[v], c) = "saved" => dir[v] # Absent
    BY NamesAssumption DEF Verdict
  <2>3. /\ Answer("save", Verdict(dir[v], c), v, c).outcome = Verdict(dir[v], c)
        /\ Answer("save", Verdict(dir[v], c), v, c).version = v
    BY DEF Answer
  <2> QED BY <2>1, <2>2, <2>3 DEF Return
<1>4. ASSUME NEW p \in Processes, MakeTemp(p) PROVE Goal
  BY <1>4, <1>0 DEF MakeTemp, Goto, ghosts
<1>5. ASSUME NEW p \in Processes, Write(p) PROVE Goal
  BY <1>5, <1>0 DEF Write, Goto, ghosts
<1>6. ASSUME NEW p \in Processes, Replace(p) PROVE Goal
  BY <1>6, <1>0 DEF Replace, Goto, ghosts
<1>7. ASSUME NEW p \in Processes, WriteFails(p) PROVE Goal
  BY <1>7, <1>0 DEF WriteFails, Return, Goto, IOError, Answer
<1>8. ASSUME NEW p \in Processes, Load(p) PROVE Goal
  BY <1>8, <1>0 DEF Load, Begin, Goto
<1>9. ASSUME NEW p \in Processes, LoadLatest(p) PROVE Goal
  BY <1>9, <1>0 DEF LoadLatest, Begin, Goto
<1>10. ASSUME NEW p \in Processes, List(p) PROVE Goal
  BY <1>10, <1>0 DEF List, Return, Goto, Answer, ghosts
<1>11. ASSUME NEW p \in Processes, Read(p) PROVE Goal
  BY <1>11, <1>0 DEF Read, Return, Goto, Answer
<1>12. ASSUME NEW p \in Processes, ReadFails(p) PROVE Goal
  BY <1>12, <1>0 DEF ReadFails, Return, Goto, IOError, Answer
<1>13. ASSUME NEW p \in Processes, Crash(p) PROVE Goal
  BY <1>13, <1>0 DEF Crash, Return, Goto
<1>14. ASSUME NEW p \in Processes, Saved(p) PROVE Goal
  <2>1. PICK v \in Versions, c \in Contents :
           /\ request[p].version = v
           /\ Return(p, Answer("save", "saved", v, c)) /\ UNCHANGED dir
    BY <1>14, <1>0, RequestFields DEF Saved, CallInStep
  <2>2. dir[v] # Absent
    BY <1>14, <2>1 DEF Saved, IInv, FoundStays, Found
  <2>3. /\ Answer("save", "saved", v, c).outcome = "saved"
        /\ Answer("save", "saved", v, c).version = v
    BY DEF Answer
  <2> QED BY <2>1, <2>2, <2>3 DEF Return
<1> QED BY <1>1, <1>2, <1>3, <1>4, <1>5, <1>6, <1>7, <1>8, <1>9, <1>10, <1>11, <1>12, <1>13,
        <1>14 DEF Next

-----------------------------------------------------------------------------
(* What was found, and the latest.                                         *)

LEMMA FoundStep ==
    ASSUME IInv, Next, NEW q \in Processes
    PROVE  Found(q)'
<1>0. /\ pc \in [Processes -> {"idle", "exists", "compare", "mkstemp", "write", "replace",
                               "replaced", "list", "read"}]
      /\ request \in [Processes -> WriteOnce!Requests \cup {None}]
      /\ CallInStep(q) /\ Found(q)
      /\ \A v \in Versions : dir[v] # Absent => dir'[v] # Absent
      /\ pc[q] \in {"exists", "compare", "read", "replaced"} => request[q].version \in Versions
  BY TypeSplit, RecordsStay, RequestFields DEF IInv, Shape, FoundStays, CallInStep
<1>1. ASSUME NEW p \in Processes, Save(p) PROVE Found(q)'
  BY <1>1, <1>0 DEF Save, Begin, Goto, Found
<1>2. ASSUME NEW p \in Processes, Exists(p) PROVE Found(q)'
  BY <1>2, <1>0 DEF Exists, Goto, Taken, Found
<1>3. ASSUME NEW p \in Processes, Compare(p) PROVE Found(q)'
  BY <1>3, <1>0 DEF Compare, Return, Goto, Found
<1>4. ASSUME NEW p \in Processes, MakeTemp(p) PROVE Found(q)'
  BY <1>4, <1>0 DEF MakeTemp, Goto, Found
<1>5. ASSUME NEW p \in Processes, Write(p) PROVE Found(q)'
  BY <1>5, <1>0 DEF Write, Goto, Found
<1>6. ASSUME NEW p \in Processes, Replace(p) PROVE Found(q)'
  <2>1. /\ request[p].version \in Versions /\ temp[p] \in Temps
        /\ dir[temp[p]] # Absent
        /\ dir \in [Names -> Contents \cup {Absent, Torn}] /\ Names = Versions \cup Temps
    BY <1>6, TypeSplit, RequestFields DEF Replace, IInv, CallInStep, Shape, Apart, Names
  <2>2. dir'[request[p].version] # Absent
    BY <1>6, <2>1, NamesAssumption DEF Replace, Renamed
  <2> QED BY <1>6, <1>0, <2>2 DEF Replace, Goto, Found
<1>7. ASSUME NEW p \in Processes, WriteFails(p) PROVE Found(q)'
  BY <1>7, <1>0 DEF WriteFails, Return, Goto, Found
<1>8. ASSUME NEW p \in Processes, Load(p) PROVE Found(q)'
  <2>1. PICK v \in Versions : Begin(p, Call("load", v, None), "read")
    BY <1>8 DEF Load
  <2>2. Call("load", v, None).op = "load"
    BY DEF Call
  <2> QED BY <1>0, <2>1, <2>2 DEF Begin, Goto, Found
<1>9. ASSUME NEW p \in Processes, LoadLatest(p) PROVE Found(q)'
  BY <1>9, <1>0 DEF LoadLatest, Begin, Goto, Found
<1>10. ASSUME NEW p \in Processes, List(p) PROVE Found(q)'
  <2>1. CASE Listed = {}
    BY <1>10, <1>0, <2>1 DEF List, Return, Goto, Found
  <2>2. CASE Listed # {}
    <3>1. /\ dir[Latest(Listed)] # Absent
          /\ Call("latest", Latest(Listed), None).version = Latest(Listed)
      BY <2>2, LatestListed DEF Call
    <3> QED BY <1>10, <1>0, <2>2, <3>1 DEF List, Goto, Found
  <2> QED BY <2>1, <2>2
<1>11. ASSUME NEW p \in Processes, Read(p) PROVE Found(q)'
  BY <1>11, <1>0 DEF Read, Return, Goto, Found
<1>12. ASSUME NEW p \in Processes, ReadFails(p) PROVE Found(q)'
  BY <1>12, <1>0 DEF ReadFails, Return, Goto, Found
<1>13. ASSUME NEW p \in Processes, Crash(p) PROVE Found(q)'
  BY <1>13, <1>0 DEF Crash, Return, Goto, Found
<1>14. ASSUME NEW p \in Processes, Saved(p) PROVE Found(q)'
  BY <1>14, <1>0 DEF Saved, Return, Goto, Found
<1> QED BY <1>1, <1>2, <1>3, <1>4, <1>5, <1>6, <1>7, <1>8, <1>9, <1>10, <1>11, <1>12, <1>13,
        <1>14 DEF Next

LEMMA AimedStep ==
    ASSUME IInv, Next, NEW q \in Processes
    PROVE  AimedHigh(q)'
<1>0. /\ pc \in [Processes -> {"idle", "exists", "compare", "mkstemp", "write", "replace",
                               "replaced", "list", "read"}]
      /\ request \in [Processes -> WriteOnce!Requests \cup {None}]
      /\ answer \in [Processes -> WriteOnce!Answers \cup {None}]
      /\ floor \in [Processes -> SUBSET Versions]
      /\ CallInStep(q) /\ Found(q) /\ AimedHigh(q)
      /\ acked \subseteq acked'
      /\ \A v \in acked : dir[v] # Absent
      /\ acked \subseteq Versions
  BY TypeSplit, AckedStep DEF IInv, Shape, FoundStays
<1>1. ASSUME NEW p \in Processes, Save(p) PROVE AimedHigh(q)'
  <2>1. PICK v \in Versions, c \in Contents : Begin(p, Call("save", v, c), "exists")
    BY <1>1 DEF Save
  <2>2. Call("save", v, c).op = "save"
    BY DEF Call
  <2> QED BY <1>0, <2>1, <2>2 DEF Begin, Goto, AimedHigh, NoneNewer
<1>2. ASSUME NEW p \in Processes, Exists(p) PROVE AimedHigh(q)'
  BY <1>2, <1>0 DEF Exists, Goto, ghosts, AimedHigh, NoneNewer
<1>3. ASSUME NEW p \in Processes, Compare(p) PROVE AimedHigh(q)'
  <2>1. PICK v \in Versions, c \in Contents :
             Return(p, Answer("save", Verdict(dir[v], c), v, c)) /\ UNCHANGED <<dir, seen>>
    BY <1>3, <1>0, RequestFields DEF Compare, IInv, CallInStep
  <2>2. Answer("save", Verdict(dir[v], c), v, c).op = "save"
    BY DEF Answer
  <2> QED BY <1>0, <2>1, <2>2 DEF Return, Goto, AimedHigh, NoneNewer
<1>4. ASSUME NEW p \in Processes, MakeTemp(p) PROVE AimedHigh(q)'
  BY <1>4, <1>0 DEF MakeTemp, Goto, ghosts, AimedHigh, NoneNewer
<1>5. ASSUME NEW p \in Processes, Write(p) PROVE AimedHigh(q)'
  BY <1>5, <1>0 DEF Write, Goto, ghosts, AimedHigh, NoneNewer
<1>6. ASSUME NEW p \in Processes, Replace(p) PROVE AimedHigh(q)'
  BY <1>6, <1>0 DEF Replace, Goto, ghosts, AimedHigh, NoneNewer
<1>7. ASSUME NEW p \in Processes, WriteFails(p) PROVE AimedHigh(q)'
  <2>1. IOError(p).outcome = "io_error"
    BY DEF IOError, Answer
  <2> QED BY <1>7, <1>0, <2>1 DEF WriteFails, Return, Goto, AimedHigh, NoneNewer
<1>8. ASSUME NEW p \in Processes, Load(p) PROVE AimedHigh(q)'
  <2>1. PICK v \in Versions : Begin(p, Call("load", v, None), "read")
    BY <1>8 DEF Load
  <2>2. Call("load", v, None).op = "load"
    BY DEF Call
  <2> QED BY <1>0, <2>1, <2>2 DEF Begin, Goto, AimedHigh, NoneNewer
<1>9. ASSUME NEW p \in Processes, LoadLatest(p) PROVE AimedHigh(q)'
  <2>1. Call("latest", None, None).op = "latest"
    BY DEF Call
  <2> QED BY <1>9, <1>0, <2>1 DEF LoadLatest, Begin, Goto, AimedHigh, NoneNewer
<1>10. ASSUME NEW p \in Processes, List(p) PROVE AimedHigh(q)'
  <2>1. CASE Listed = {}
    <3>1. acked = {}
      BY <1>0, <2>1 DEF Listed
    <3> QED BY <1>10, <1>0, <2>1, <3>1 DEF List, Return, Goto, AimedHigh, NoneNewer
  <2>2. CASE Listed # {}
    <3>1. \A v \in acked : v <= Latest(Listed)
      BY <1>0, <2>2, LatestListed
    <3>2. Call("latest", Latest(Listed), None).version = Latest(Listed)
      BY DEF Call
    <3> QED BY <1>10, <1>0, <2>2, <3>1, <3>2 DEF List, Goto, AimedHigh, NoneNewer, ghosts
  <2> QED BY <2>1, <2>2
<1>11. ASSUME NEW p \in Processes, Read(p) PROVE AimedHigh(q)'
  <2>1. /\ request[p].op = "latest" /\ q = p => dir[request[p].version] # Absent
        /\ dir[request[p].version] # Torn /\ request[p].version \in Versions
    BY <1>11, <1>0, RequestFields DEF Read, Found, IInv, CallInStep, WholeBeforeNamed
  <2>2. PICK outcome, c : /\ Return(p, Answer(request[p].op, outcome, request[p].version, c))
                          /\ dir[request[p].version] # Absent => outcome = "loaded"
    BY <1>11, <2>1 DEF Read
  <2>3. /\ Answer(request[p].op, outcome, request[p].version, c).op = request[p].op
        /\ Answer(request[p].op, outcome, request[p].version, c).outcome = outcome
        /\ Answer(request[p].op, outcome, request[p].version, c).version = request[p].version
    BY DEF Answer
  <2>4. CASE q = p
    BY <1>11, <1>0, <2>1, <2>2, <2>3, <2>4 DEF Read, Return, Goto, AimedHigh, NoneNewer
  <2>5. CASE q # p
    BY <1>11, <1>0, <2>2, <2>5 DEF Read, Return, Goto, AimedHigh, NoneNewer
  <2> QED BY <2>4, <2>5
<1>12. ASSUME NEW p \in Processes, ReadFails(p) PROVE AimedHigh(q)'
  <2>1. IOError(p).outcome = "io_error"
    BY DEF IOError, Answer
  <2> QED BY <1>12, <1>0, <2>1 DEF ReadFails, Return, Goto, AimedHigh, NoneNewer
<1>13. ASSUME NEW p \in Processes, Crash(p) PROVE AimedHigh(q)'
  BY <1>13, <1>0 DEF Crash, Return, Goto, AimedHigh, NoneNewer
<1>14. ASSUME NEW p \in Processes, Saved(p) PROVE AimedHigh(q)'
  <2>1. PICK v \in Versions, c \in Contents : Return(p, Answer("save", "saved", v, c))
    BY <1>14, RequestFields DEF Saved, IInv, CallInStep
  <2>2. Answer("save", "saved", v, c).op = "save"
    BY DEF Answer
  <2> QED BY <1>14, <1>0, <2>1, <2>2 DEF Saved, Return, Goto, AimedHigh, NoneNewer
<1> QED BY <1>1, <1>2, <1>3, <1>4, <1>5, <1>6, <1>7, <1>8, <1>9, <1>10, <1>11, <1>12, <1>13,
        <1>14 DEF Next

LEMMA LatestOfMore ==
    ASSUME NEW S \in SUBSET Nat, NEW v \in Nat, HasLatest(S)
    PROVE  HasLatest(S \cup {v})
<1>1. CASE S = {}
  BY <1>1 DEF HasLatest
<1>2. CASE S # {}
  <2>1. PICK m \in S : \A w \in S : w <= m
    BY <1>2 DEF HasLatest
  <2>2. CASE v <= m
    BY <2>1, <2>2 DEF HasLatest
  <2>3. CASE m <= v
    <3>1. \A w \in S \cup {v} : w <= v
      BY <2>1, <2>3
    <3> QED BY <3>1 DEF HasLatest
  <2> QED BY <2>1, <2>2, <2>3
<1> QED BY <1>1, <1>2

\* One call changes the directory by one record, and a floor is what was acked.
LEMMA ListingStep ==
    ASSUME IInv, Next
    PROVE  Listed' = Listed \/ \E v \in Versions : Listed' = Listed \cup {v}
<1>1. ASSUME NEW p \in Processes, Replace(p)
      PROVE  \E v \in Versions : Listed' = Listed \cup {v}
  <2>1. PICK v \in Versions : v = request[p].version
    BY <1>1, RequestFields DEF Replace, IInv, CallInStep
  <2>2. dir[temp[p]] # Absent /\ temp[p] \in Temps
    BY <1>1, TypeSplit DEF Replace, IInv, CallInStep, Apart, Shape
  <2>3. /\ dir' = Renamed(temp[p], v)
        /\ dir \in [Names -> Contents \cup {Absent, Torn}] /\ Names = Versions \cup Temps
    BY <1>1, <2>1, TypeSplit DEF Replace, IInv, Shape, Names
  <2>4. \A w \in Versions : dir'[w] = IF w = v THEN dir[temp[p]] ELSE dir[w]
    BY <2>2, <2>3, NamesAssumption DEF Renamed
  <2> QED BY <2>2, <2>4 DEF Listed
<1>2. ASSUME ~ \E p \in Processes : Replace(p) PROVE Listed' = Listed
  BY <1>2, VersionsStep DEF Listed
<1> QED BY <1>1, <1>2

LEMMA FloorStep ==
    ASSUME IInv, Next, NEW q \in Processes
    PROVE  floor'[q] \in {floor[q], acked, {}}
<1>0. floor \in [Processes -> SUBSET Versions]
  BY TypeSplit DEF IInv, Shape
<1>1. ASSUME NEW p \in Processes, Save(p) PROVE floor'[q] \in {floor[q], acked, {}}
  BY <1>1, <1>0 DEF Save, Begin, Goto
<1>2. ASSUME NEW p \in Processes, Exists(p) PROVE floor'[q] \in {floor[q], acked, {}}
  BY <1>2, <1>0 DEF Exists, Goto, ghosts
<1>3. ASSUME NEW p \in Processes, Compare(p) PROVE floor'[q] \in {floor[q], acked, {}}
  BY <1>3, <1>0 DEF Compare, Return, Goto
<1>4. ASSUME NEW p \in Processes, MakeTemp(p) PROVE floor'[q] \in {floor[q], acked, {}}
  BY <1>4, <1>0 DEF MakeTemp, Goto, ghosts
<1>5. ASSUME NEW p \in Processes, Write(p) PROVE floor'[q] \in {floor[q], acked, {}}
  BY <1>5, <1>0 DEF Write, Goto, ghosts
<1>6. ASSUME NEW p \in Processes, Replace(p) PROVE floor'[q] \in {floor[q], acked, {}}
  BY <1>6, <1>0 DEF Replace, Goto, ghosts
<1>7. ASSUME NEW p \in Processes, WriteFails(p) PROVE floor'[q] \in {floor[q], acked, {}}
  BY <1>7, <1>0 DEF WriteFails, Return, Goto
<1>8. ASSUME NEW p \in Processes, Load(p) PROVE floor'[q] \in {floor[q], acked, {}}
  BY <1>8, <1>0 DEF Load, Begin, Goto
<1>9. ASSUME NEW p \in Processes, LoadLatest(p) PROVE floor'[q] \in {floor[q], acked, {}}
  BY <1>9, <1>0 DEF LoadLatest, Begin, Goto
<1>10. ASSUME NEW p \in Processes, List(p) PROVE floor'[q] \in {floor[q], acked, {}}
  BY <1>10, <1>0 DEF List, Return, Goto, ghosts
<1>11. ASSUME NEW p \in Processes, Read(p) PROVE floor'[q] \in {floor[q], acked, {}}
  BY <1>11, <1>0 DEF Read, Return, Goto
<1>12. ASSUME NEW p \in Processes, ReadFails(p) PROVE floor'[q] \in {floor[q], acked, {}}
  BY <1>12, <1>0 DEF ReadFails, Return, Goto
<1>13. ASSUME NEW p \in Processes, Crash(p) PROVE floor'[q] \in {floor[q], acked, {}}
  BY <1>13, <1>0 DEF Crash, Return, Goto
<1>14. ASSUME NEW p \in Processes, Saved(p) PROVE floor'[q] \in {floor[q], acked, {}}
  BY <1>14, <1>0 DEF Saved, Return, Goto
<1> QED BY <1>1, <1>2, <1>3, <1>4, <1>5, <1>6, <1>7, <1>8, <1>9, <1>10, <1>11, <1>12, <1>13,
        <1>14 DEF Next

LEMMA LatestStep ==
    ASSUME IInv, Next
    PROVE  LatestExist'
<1>1. Versions \subseteq Nat /\ Listed \subseteq Nat /\ acked \subseteq Nat
  BY VersionsAssumption, TypeSplit DEF IInv, Shape, Listed
<1>2. HasLatest(Listed')
  BY <1>1, ListingStep, LatestOfMore DEF IInv, LatestExist
<1>3. HasLatest(acked')
  BY <1>1, AckedStep, LatestOfMore DEF IInv, LatestExist
<1>4. ASSUME NEW q \in Processes PROVE HasLatest(floor'[q])
  <2>1. HasLatest({})
    BY DEF HasLatest
  <2> QED BY <2>1, FloorStep DEF IInv, LatestExist
<1> QED BY <1>2, <1>3, <1>4 DEF LatestExist, HasLatest

-----------------------------------------------------------------------------
(* The invariant, and what holds for every use of the store.               *)

LEMMA InitInv == Init => IInv
<1> SUFFICES ASSUME Init PROVE IInv
  OBVIOUS
<1>1. TypeOK
  BY NamesAssumption DEF Init, TypeOK
<1>2. ASSUME NEW p \in Processes PROVE CallInStep(p) /\ Found(p) /\ AimedHigh(p)
  BY DEF Init, CallInStep, Found, AimedHigh
<1>3. WholeBeforeNamed /\ \A v \in Versions : dir[v] = Absent
  BY NamesAssumption DEF Init, WholeBeforeNamed, Names
<1>4. LatestExist
  BY <1>3 DEF Init, LatestExist, HasLatest, Listed
<1> QED BY <1>1, <1>2, <1>3, <1>4 DEF Init, IInv, FoundStays

LEMMA StepInv == IInv /\ [Next]_vars => IInv'
<1> SUFFICES ASSUME IInv, [Next]_vars PROVE IInv'
  OBVIOUS
<1>1. CASE Next
  <2>1. TypeOK'
    <3>1. Shape' /\ \A p, q \in Processes : Apart(p, q)'
      BY <1>1, ShapeStep, ApartStep
    <3> QED BY <3>1 DEF TypeOK, Shape, Apart
  <2>2. FoundStays'
    <3>1. \A v \in acked' : v \in Versions /\ dir'[v] # Absent
      BY <1>1, AckedStep, RecordsStay, TypeSplit DEF IInv, FoundStays, Shape
    <3>2. \A p \in Processes : Found(p)'
      BY <1>1, FoundStep
    <3> QED BY <3>1, <3>2 DEF FoundStays
  <2>3. \A p \in Processes : CallInStep(p)' /\ AimedHigh(p)'
    BY <1>1, CallStep, AimedStep
  <2> QED BY <1>1, <2>1, <2>2, <2>3, WholeStep, LatestStep DEF IInv
<1>2. CASE UNCHANGED vars
  BY <1>2 DEF vars, ghosts, IInv, TypeOK, CallInStep, WholeBeforeNamed, Found, FoundStays,
              NoneNewer, AimedHigh, HasLatest, LatestExist, Listed
<1> QED BY <1>1, <1>2

\* The inductive invariant holds in every reachable state.
THEOREM Invariant == Spec => []IInv
BY InitInv, StepInv, PTL DEF Spec

\* Every variable keeps to its values, and no two processes share a temporary file.
THEOREM TypeCorrect == Spec => []TypeOK
<1>1. IInv => TypeOK
  BY DEF IInv
<1> QED BY <1>1, Invariant, PTL

\* Whoever crashes, fails or saves at once, a record's own name never shows a part
\* of it, and nobody is answered with one.
THEOREM RecordsAreWhole == Spec => []NeverPartiallyVisible
<1>1. ASSUME IInv PROVE NeverPartiallyVisible
  <2>1. ASSUME NEW p \in Processes, answer[p] # None PROVE answer[p].outcome # "invalid"
    <3>1. answer[p] \in WriteOnce!Answers
      BY <1>1, <2>1, TypeSplit DEF IInv, Shape
    <3> QED BY <3>1 DEF WriteOnce!Answers
  <2> QED BY <1>1, <2>1 DEF IInv, WholeBeforeNamed, NeverPartiallyVisible
<1> QED BY <1>1, Invariant, PTL

\* A load of the latest checkpoint is never older than a save that had returned
\* before it began: also when several writers save one version.
THEOREM LatestIsCurrent == Spec => []LatestNotStale
<1>1. ASSUME IInv PROVE LatestNotStale
  <2> SUFFICES ASSUME NEW p \in Processes, answer[p] # None, answer[p].op = "latest",
                      answer[p].outcome # "io_error", floor[p] # {}
               PROVE  answer[p].outcome = "loaded" /\ answer[p].version >= Max(floor[p])
    BY DEF LatestNotStale
  <2>1. answer[p].outcome = "loaded" /\ \A w \in floor[p] : w <= answer[p].version
    BY <1>1 DEF IInv, AimedHigh, NoneNewer
  <2>2. floor[p] \subseteq Nat
    BY <1>1, TypeSplit, VersionsAssumption DEF IInv, Shape
  <2>3. \E m \in floor[p] : \A w \in floor[p] : m >= w
    <3>1. PICK m \in floor[p] : \A w \in floor[p] : w <= m
      BY <1>1 DEF IInv, LatestExist, HasLatest
    <3> QED BY <2>2, <3>1
  <2>4. Max(floor[p]) \in floor[p]
    BY <2>3 DEF Max
  <2>5. Max(floor[p]) <= answer[p].version
    BY <2>1, <2>4
  <2>6. answer[p].version \in Nat
    BY <1>1, VersionsAssumption DEF IInv, AimedHigh
  <2> QED BY <2>1, <2>2, <2>4, <2>5, <2>6
<1> QED BY <1>1, Invariant, PTL

-----------------------------------------------------------------------------
(* As long as no two writers save one version, CheckpointStore implements  *)
(* WriteOnceStore: every call takes effect at one instant, on registers    *)
(* that are written once.                                                  *)

\* A record that is there is not replaced.
LEMMA RecordsKept ==
    ASSUME OnceInv, Next, NEW v \in Versions
    PROVE  \/ dir'[v] = dir[v]
           \/ \E p \in Processes : /\ Replace(p) /\ request[p].version = v
                                   /\ dir[v] = Absent /\ dir'[v] = request[p].content
BY VersionsStep DEF OnceInv, StillAbsent, Replace

LEMMA StillAbsentStep ==
    ASSUME WritersApart, OnceInv, Next, NEW q \in Processes
    PROVE  StillAbsent(q)'
<1>0. /\ pc \in [Processes -> {"idle", "exists", "compare", "mkstemp", "write", "replace",
                               "replaced", "list", "read"}]
      /\ request \in [Processes -> WriteOnce!Requests \cup {None}]
      /\ CallInStep(q) /\ StillAbsent(q)
  BY TypeSplit DEF OnceInv, IInv, Shape
<1> SUFFICES ASSUME pc'[q] \in {"mkstemp", "write", "replace"}
             PROVE  dir'[request'[q].version] = Absent
  BY DEF StillAbsent
<1> DEFINE Held == /\ request'[q] = request[q]
                   /\ pc[q] \in {"exists", "mkstemp", "write", "replace"}
                   /\ dir[request[q].version] = Absent
<1>1. Held
  <2>1. ASSUME NEW p \in Processes, Save(p) PROVE Held
    BY <2>1, <1>0 DEF Save, Begin, Goto, StillAbsent, Taken
  <2>2. ASSUME NEW p \in Processes, Exists(p) PROVE Held
    BY <2>2, <1>0 DEF Exists, Goto, StillAbsent, Taken
  <2>3. ASSUME NEW p \in Processes, Compare(p) PROVE Held
    BY <2>3, <1>0 DEF Compare, Return, Goto, StillAbsent, Taken
  <2>4. ASSUME NEW p \in Processes, MakeTemp(p) PROVE Held
    BY <2>4, <1>0 DEF MakeTemp, Goto, StillAbsent, Taken
  <2>5. ASSUME NEW p \in Processes, Write(p) PROVE Held
    BY <2>5, <1>0 DEF Write, Goto, StillAbsent, Taken
  <2>6. ASSUME NEW p \in Processes, Replace(p) PROVE Held
    BY <2>6, <1>0 DEF Replace, Goto, StillAbsent, Taken
  <2>7. ASSUME NEW p \in Processes, WriteFails(p) PROVE Held
    BY <2>7, <1>0 DEF WriteFails, Return, Goto, StillAbsent, Taken
  <2>8. ASSUME NEW p \in Processes, Load(p) PROVE Held
    BY <2>8, <1>0 DEF Load, Begin, Goto, StillAbsent, Taken
  <2>9. ASSUME NEW p \in Processes, LoadLatest(p) PROVE Held
    BY <2>9, <1>0 DEF LoadLatest, Begin, Goto, StillAbsent, Taken
  <2>10. ASSUME NEW p \in Processes, List(p) PROVE Held
    BY <2>10, <1>0 DEF List, Return, Goto, StillAbsent, Taken
  <2>11. ASSUME NEW p \in Processes, Read(p) PROVE Held
    BY <2>11, <1>0 DEF Read, Return, Goto, StillAbsent, Taken
  <2>12. ASSUME NEW p \in Processes, ReadFails(p) PROVE Held
    BY <2>12, <1>0 DEF ReadFails, Return, Goto, StillAbsent, Taken
  <2>13. ASSUME NEW p \in Processes, Crash(p) PROVE Held
    BY <2>13, <1>0 DEF Crash, Return, Goto, StillAbsent, Taken
  <2>14. ASSUME NEW p \in Processes, Saved(p) PROVE Held
    BY <2>14, <1>0 DEF Saved, Return, Goto, StillAbsent, Taken
  <2> QED BY <2>1, <2>2, <2>3, <2>4, <2>5, <2>6, <2>7,
             <2>8, <2>9, <2>10, <2>11, <2>12, <2>13, <2>14 DEF Next
<1>2. PICK v \in Versions : v = request[q].version
  BY <1>0, <1>1, RequestFields DEF CallInStep
<1>3. ASSUME NEW p \in Processes, Replace(p), request[p].version = v PROVE FALSE
  <2>1. <<p, v>> \in Saves /\ <<q, v>> \in Saves
    BY <1>0, <1>1, <1>2, <1>3 DEF Replace, CallInStep, OnceInv, IInv
  <2>2. p = q
    BY <2>1, SavesAssumption DEF WritersApart
  <2> QED BY <1>0, <1>3, <2>2 DEF Replace, Goto
<1> QED BY <1>1, <1>2, <1>3, VersionsStep DEF OnceInv

LEMMA StillThereStep ==
    ASSUME OnceInv, Next, NEW q \in Processes
    PROVE  StillThere(q)'
<1>0. /\ pc \in [Processes -> {"idle", "exists", "compare", "mkstemp", "write", "replace",
                               "replaced", "list", "read"}]
      /\ request \in [Processes -> WriteOnce!Requests \cup {None}]
      /\ CallInStep(q) /\ StillThere(q)
  BY TypeSplit DEF OnceInv, IInv, Shape
<1> SUFFICES ASSUME pc'[q] = "replaced" PROVE dir'[request'[q].version] = request'[q].content
  BY DEF StillThere
<1> DEFINE Held == request'[q] = request[q] /\ (pc[q] = "replaced" \/ Replace(q))
<1>1. Held
  <2>1. ASSUME NEW p \in Processes, Save(p) PROVE Held
    BY <2>1, <1>0 DEF Save, Begin, Goto
  <2>2. ASSUME NEW p \in Processes, Exists(p) PROVE Held
    BY <2>2, <1>0 DEF Exists, Goto
  <2>3. ASSUME NEW p \in Processes, Compare(p) PROVE Held
    BY <2>3, <1>0 DEF Compare, Return, Goto
  <2>4. ASSUME NEW p \in Processes, MakeTemp(p) PROVE Held
    BY <2>4, <1>0 DEF MakeTemp, Goto
  <2>5. ASSUME NEW p \in Processes, Write(p) PROVE Held
    BY <2>5, <1>0 DEF Write, Goto
  <2>6. ASSUME NEW p \in Processes, Replace(p) PROVE Held
    BY <2>6, <1>0 DEF Replace, Goto
  <2>7. ASSUME NEW p \in Processes, WriteFails(p) PROVE Held
    BY <2>7, <1>0 DEF WriteFails, Return, Goto
  <2>8. ASSUME NEW p \in Processes, Load(p) PROVE Held
    BY <2>8, <1>0 DEF Load, Begin, Goto
  <2>9. ASSUME NEW p \in Processes, LoadLatest(p) PROVE Held
    BY <2>9, <1>0 DEF LoadLatest, Begin, Goto
  <2>10. ASSUME NEW p \in Processes, List(p) PROVE Held
    BY <2>10, <1>0 DEF List, Return, Goto
  <2>11. ASSUME NEW p \in Processes, Read(p) PROVE Held
    BY <2>11, <1>0 DEF Read, Return, Goto
  <2>12. ASSUME NEW p \in Processes, ReadFails(p) PROVE Held
    BY <2>12, <1>0 DEF ReadFails, Return, Goto
  <2>13. ASSUME NEW p \in Processes, Crash(p) PROVE Held
    BY <2>13, <1>0 DEF Crash, Return, Goto
  <2>14. ASSUME NEW p \in Processes, Saved(p) PROVE Held
    BY <2>14, <1>0 DEF Saved, Return, Goto
  <2> QED BY <2>1, <2>2, <2>3, <2>4, <2>5, <2>6, <2>7,
             <2>8, <2>9, <2>10, <2>11, <2>12, <2>13, <2>14 DEF Next
<1>2. request[q].version \in Versions /\ request[q].content \in Contents
  BY <1>0, <1>1, RequestFields DEF Replace, CallInStep
<1>3. CASE Replace(q)
  <2>1. /\ temp[q] \in Temps /\ dir[temp[q]] = request[q].content
        /\ dir \in [Names -> Contents \cup {Absent, Torn}] /\ Names = Versions \cup Temps
    BY <1>3, TypeSplit DEF Replace, OnceInv, IInv, WholeBeforeNamed, CallInStep, Shape, Names
  <2>2. dir' = Renamed(temp[q], request[q].version)
    BY <1>3 DEF Replace
  <2>3. dir'[request[q].version] = request[q].content
    BY <1>2, <2>1, <2>2, NamesAssumption DEF Renamed
  <2> QED BY <1>1, <2>3
<1>4. CASE pc[q] = "replaced"
  <2>1. dir[request[q].version] = request[q].content /\ request[q].content # Absent
    BY <1>0, <1>2, <1>4, NamesAssumption DEF StillThere
  <2> QED BY <1>1, <1>2, <2>1, RecordsKept
<1> QED BY <1>1, <1>3, <1>4

\* Only a load that finds a record adds to what was seen.
LEMMA SeenStep ==
    ASSUME OnceInv, Next, NEW v \in Versions
    PROVE  \/ seen'[v] = seen[v]
           \/ seen'[v] = seen[v] \cup {dir[v]} /\ dir[v] # Absent /\ dir'[v] = dir[v]
<1> DEFINE Goal == \/ seen'[v] = seen[v]
                   \/ seen'[v] = seen[v] \cup {dir[v]} /\ dir[v] # Absent /\ dir'[v] = dir[v]
<1>0. seen \in [Versions -> SUBSET Contents]
  BY TypeSplit DEF OnceInv, IInv, Shape
<1>1. ASSUME NEW p \in Processes, Save(p) PROVE Goal
  BY <1>1, <1>0 DEF Save, Begin, Goto
<1>2. ASSUME NEW p \in Processes, Exists(p) PROVE Goal
  BY <1>2, <1>0 DEF Exists, Goto, ghosts
<1>3. ASSUME NEW p \in Processes, Compare(p) PROVE Goal
  BY <1>3, <1>0 DEF Compare, Return, Goto
<1>4. ASSUME NEW p \in Processes, MakeTemp(p) PROVE Goal
  BY <1>4, <1>0 DEF MakeTemp, Goto, ghosts
<1>5. ASSUME NEW p \in Processes, Write(p) PROVE Goal
  BY <1>5, <1>0 DEF Write, Goto, ghosts
<1>6. ASSUME NEW p \in Processes, Replace(p) PROVE Goal
  BY <1>6, <1>0 DEF Replace, Goto, ghosts
<1>7. ASSUME NEW p \in Processes, WriteFails(p) PROVE Goal
  BY <1>7, <1>0 DEF WriteFails, Return, Goto
<1>8. ASSUME NEW p \in Processes, Load(p) PROVE Goal
  BY <1>8, <1>0 DEF Load, Begin, Goto
<1>9. ASSUME NEW p \in Processes, LoadLatest(p) PROVE Goal
  BY <1>9, <1>0 DEF LoadLatest, Begin, Goto
<1>10. ASSUME NEW p \in Processes, List(p) PROVE Goal
  BY <1>10, <1>0 DEF List, Return, Goto, ghosts
<1>11. ASSUME NEW p \in Processes, Read(p) PROVE Goal
  BY <1>11, <1>0 DEF Read, Return, Goto
<1>12. ASSUME NEW p \in Processes, ReadFails(p) PROVE Goal
  BY <1>12, <1>0 DEF ReadFails, Return, Goto
<1>13. ASSUME NEW p \in Processes, Crash(p) PROVE Goal
  BY <1>13, <1>0 DEF Crash, Return, Goto
<1>14. ASSUME NEW p \in Processes, Saved(p) PROVE Goal
  BY <1>14, <1>0 DEF Saved, Return, Goto
<1> QED BY <1>1, <1>2, <1>3, <1>4, <1>5, <1>6, <1>7, <1>8, <1>9, <1>10, <1>11, <1>12, <1>13,
        <1>14 DEF Next

LEMMA OnceInit == Init => OnceInv
<1> SUFFICES ASSUME Init PROVE OnceInv
  OBVIOUS
<1>1. \A p \in Processes : StillAbsent(p) /\ StillThere(p)
  BY DEF Init, StillAbsent, StillThere
<1>2. SeenIsThere
  BY DEF Init, SeenIsThere
<1> QED BY <1>1, <1>2, InitInv DEF OnceInv

LEMMA OnceStep == WritersApart /\ OnceInv /\ [Next]_vars => OnceInv'
<1> SUFFICES ASSUME WritersApart, OnceInv, [Next]_vars PROVE OnceInv'
  OBVIOUS
<1>1. IInv'
  BY StepInv DEF OnceInv
<1>2. CASE Next
  <2>1. ASSUME NEW v \in Versions PROVE seen'[v] \subseteq {dir'[v]} \ {Absent}
    <3>1. seen[v] \subseteq {dir[v]} \ {Absent}
      BY DEF OnceInv, SeenIsThere
    <3>2. seen[v] # {} => dir'[v] = dir[v]
      BY <1>2, <3>1, RecordsKept
    <3> QED BY <1>2, <3>1, <3>2, SeenStep
  <2>2. \A p \in Processes : StillAbsent(p)' /\ StillThere(p)'
    BY <1>2, StillAbsentStep, StillThereStep
  <2> QED BY <1>1, <2>1, <2>2 DEF OnceInv, SeenIsThere
<1>3. CASE UNCHANGED vars
  BY <1>1, <1>3 DEF vars, ghosts, OnceInv, StillAbsent, StillThere, SeenIsThere
<1> QED BY <1>2, <1>3

\* The invariant of a store whose writers keep apart.
THEOREM OnceInvariant ==
    ASSUME WritersApart
    PROVE  Spec => []OnceInv
BY OnceInit, OnceStep, PTL DEF Spec

\* Two loads of one version never return different records.
THEOREM LoadsAgree ==
    ASSUME WritersApart
    PROVE  Spec => []ReadersAgree
<1>1. ASSUME OnceInv PROVE ReadersAgree
  <2> SUFFICES ASSUME NEW v \in Versions PROVE Cardinality(seen[v]) <= 1
    BY DEF ReadersAgree
  <2>1. seen[v] = {} \/ seen[v] = {dir[v]}
    BY <1>1 DEF OnceInv, SeenIsThere
  <2>2. Cardinality({}) = 0 /\ Cardinality({dir[v]}) = 1
    BY FS_EmptySet, FS_Singleton
  <2> QED BY <2>1, <2>2
<1> QED BY <1>1, OnceInvariant, PTL

-----------------------------------------------------------------------------
(* The abstract store.                                                     *)

Registers == [v \in Versions |-> dir[v]]

LEMMA RegistersKept ==
    ASSUME OnceInv, Next, ~ \E p \in Processes : Replace(p)
    PROVE  Registers' = Registers
BY VersionsStep DEF Registers, OnceInv

LEMMA BeginAsks ==
    ASSUME OnceInv, NEW p \in Processes, NEW call \in WriteOnce!Requests, NEW to,
           Begin(p, call, to), call.op = "latest" => call.version = None
    PROVE  WriteOnce!Ask(p)
BY DEF OnceInv, IInv, CallInStep, Begin, WriteOnce!Ask

LEMMA ReturnReplies ==
    ASSUME OnceInv, NEW p \in Processes, NEW outcome, NEW c,
           Return(p, Answer(request[p].op, outcome, request[p].version, c))
    PROVE  WriteOnce!Reply(p, outcome, c)
BY DEF Return, Answer, WriteOnce!Reply

\* A call under way has a request.
LEMMA Asked ==
    ASSUME OnceInv, NEW p \in Processes, pc[p] # "idle"
    PROVE  request[p] # None
BY TypeSplit, RequestFields DEF OnceInv, IInv, Shape, CallInStep

LEMMA SaveFacts ==
    ASSUME OnceInv, NEW p \in Processes,
           pc[p] \in {"exists", "compare", "mkstemp", "write", "replace", "replaced"}
    PROVE  /\ request[p].op = "save" /\ request[p].version \in Versions
           /\ request[p].content \in Contents
           /\ Registers[request[p].version] = dir[request[p].version]
BY RequestFields DEF OnceInv, IInv, CallInStep, Registers

\* A stored record is compared with the one offered: nothing is written.
LEMMA CompareAnswers ==
    ASSUME OnceInv, NEW p \in Processes, Compare(p)
    PROVE  WriteOnce!Confirm(p) \/ WriteOnce!Refuse(p)
<1> DEFINE v == request[p].version
           c == request[p].content
<1>1. /\ request[p].op = "save" /\ v \in Versions /\ c \in Contents /\ Registers[v] = dir[v]
  BY SaveFacts DEF Compare
<1>2. dir[v] # Absent /\ dir[v] # Torn
  BY <1>1 DEF Compare, OnceInv, IInv, FoundStays, Found, WholeBeforeNamed
<1>3. Return(p, Answer("save", Verdict(dir[v], c), v, c)) /\ UNCHANGED dir
  BY DEF Compare
<1>4. UNCHANGED Registers
  BY <1>3 DEF Registers
<1>5. WriteOnce!Reply(p, Verdict(dir[v], c), c)
  BY <1>1, <1>3, ReturnReplies
<1>6. CASE dir[v] = c
  <2>1. Verdict(dir[v], c) = "saved"
    BY <1>2, <1>6 DEF Verdict
  <2> QED BY <1>1, <1>4, <1>5, <1>6, <2>1 DEF WriteOnce!Confirm, Registers
<1>7. CASE dir[v] # c
  <2>1. Verdict(dir[v], c) = "conflict"
    BY <1>2, <1>7 DEF Verdict
  <2> QED BY <1>1, <1>2, <1>4, <1>5, <1>7, <2>1 DEF WriteOnce!Refuse, Registers
<1> QED BY <1>6, <1>7

\* os.replace is where a record comes to be.
LEMMA ReplaceWrites ==
    ASSUME OnceInv, NEW p \in Processes, Replace(p)
    PROVE  WriteOnce!Write(p)
<1> DEFINE v == request[p].version
           c == request[p].content
<1>1. /\ request[p].op = "save" /\ v \in Versions /\ c \in Contents /\ Registers[v] = dir[v]
  BY SaveFacts DEF Replace
<1>2. dir[v] = Absent
  BY DEF Replace, OnceInv, StillAbsent
<1>3. UNCHANGED <<request, answer>> /\ dir' = Renamed(temp[p], v)
  BY DEF Replace
<1>5. /\ temp[p] \in Temps /\ dir[temp[p]] = c
      /\ dir \in [Names -> Contents \cup {Absent, Torn}] /\ Names = Versions \cup Temps
  BY TypeSplit DEF Replace, OnceInv, IInv, WholeBeforeNamed, CallInStep, Shape, Names
<1>6. \A w \in Versions : dir'[w] = IF w = v THEN c ELSE dir[w]
  BY <1>1, <1>3, <1>5, NamesAssumption DEF Renamed
<1>7. Registers' = [Registers EXCEPT ![v] = c]
  BY <1>6 DEF Registers
<1> QED BY <1>1, <1>2, <1>3, <1>7 DEF WriteOnce!Write, Registers

\* The return finds the record as it was written.
LEMMA SavedConfirms ==
    ASSUME OnceInv, NEW p \in Processes, Saved(p)
    PROVE  WriteOnce!Confirm(p)
<1>1. /\ request[p].op = "save" /\ request[p].version \in Versions
      /\ Registers[request[p].version] = dir[request[p].version]
  BY SaveFacts DEF Saved
<1>2. dir[request[p].version] = request[p].content
  BY DEF Saved, OnceInv, StillThere
<1>3. WriteOnce!Reply(p, "saved", request[p].content)
  BY <1>1, ReturnReplies DEF Saved
<1>4. UNCHANGED Registers
  BY DEF Saved, Registers
<1> QED BY <1>1, <1>2, <1>3, <1>4 DEF WriteOnce!Confirm, Registers

LEMMA ListAims ==
    ASSUME OnceInv, NEW p \in Processes, List(p)
    PROVE  WriteOnce!Aim(p) \/ WriteOnce!Missing(p)
<1>1. /\ request[p] = Call("latest", None, None)
      /\ request \in [Processes -> WriteOnce!Requests \cup {None}]
  BY TypeSplit DEF List, OnceInv, IInv, CallInStep, Shape
<1>2. request[p].op = "latest" /\ request[p].version = None /\ request[p].content = None
  BY <1>1 DEF Call
<1>3. dir' = dir
  BY DEF List
<1>4. CASE Listed = {}
  <2>1. Return(p, Answer("latest", "not_found", None, None))
    BY <1>4 DEF List
  <2>2. WriteOnce!Reply(p, "not_found", None)
    BY <1>2, <2>1, ReturnReplies
  <2> QED BY <1>2, <1>3, <1>4, <2>2 DEF WriteOnce!Missing, Listed
<1>5. CASE Listed # {}
  <2>1. PICK v \in Versions : v = Latest(Listed)
    BY <1>5, LatestListed DEF OnceInv
  <2>2. dir[v] # Absent /\ \A w \in Versions : dir[w] # Absent => w <= v
    BY <1>5, <2>1, LatestListed DEF OnceInv
  <2>3. request' = [request EXCEPT ![p] = Call("latest", v, None)] /\ UNCHANGED answer
    BY <1>5, <2>1 DEF List
  <2>4. [request[p] EXCEPT !.version = v] = Call("latest", v, None)
    BY <1>1 DEF Call
  <2>5. request' = [request EXCEPT ![p].version = v]
    BY <2>3, <2>4
  <2> QED BY <1>2, <1>3, <2>2, <2>3, <2>5 DEF WriteOnce!Aim
<1> QED BY <1>4, <1>5

LEMMA ReadDelivers ==
    ASSUME OnceInv, NEW p \in Processes, Read(p)
    PROVE  WriteOnce!Deliver(p) \/ WriteOnce!Missing(p)
<1> DEFINE v == request[p].version
<1>1. /\ request[p].op \in {"load", "latest"} /\ v \in Versions /\ v # None
      /\ request[p].op = "latest" => dir[v] # Absent
      /\ dir[v] # Torn
  BY RequestFields, NoneAssumption
     DEF Read, OnceInv, IInv, CallInStep, FoundStays, Found, WholeBeforeNamed
<1>2. dir' = dir
  BY DEF Read
<1>3. CASE dir[v] = Absent
  <2>1. Return(p, Answer(request[p].op, "not_found", v, None))
    BY <1>3, NamesAssumption DEF Read
  <2>2. WriteOnce!Reply(p, "not_found", None)
    BY <2>1, ReturnReplies
  <2> QED BY <1>1, <1>2, <1>3, <2>2 DEF WriteOnce!Missing
<1>4. CASE dir[v] # Absent
  <2>1. Return(p, Answer(request[p].op, "loaded", v, dir[v]))
    BY <1>1, <1>4 DEF Read
  <2>2. WriteOnce!Reply(p, "loaded", dir[v])
    BY <2>1, ReturnReplies
  <2> QED BY <1>1, <1>2, <1>4, <2>2 DEF WriteOnce!Deliver
<1> QED BY <1>3, <1>4

\* An error is answered; a crash is not.
LEMMA ErrorFails ==
    ASSUME OnceInv, Next, NEW p \in Processes, WriteFails(p) \/ ReadFails(p) \/ Crash(p)
    PROVE  request[p] # None /\ WriteOnce!Fail(p)
<1>1. request[p] # None /\ answer[p] = None
  BY Asked DEF WriteFails, ReadFails, Crash, OnceInv, IInv, CallInStep
<1>2. answer \in [Processes -> WriteOnce!Answers \cup {None}]
  BY TypeSplit DEF OnceInv, IInv, Shape
<1>3. Registers' = Registers
  <2>1. CASE WriteFails(p)
    <3>1. temp[p] \notin Versions \/ temp[p] = None
      BY TypeSplit, NamesAssumption DEF OnceInv, IInv, Shape
    <3>2. /\ dir \in [Names -> Contents \cup {Absent, Torn}] /\ Names = Versions \cup Temps
      BY TypeSplit DEF OnceInv, IInv, Shape, Names
    <3> QED BY <2>1, <3>1, <3>2 DEF WriteFails, Discarded, Registers
  <2>2. CASE ReadFails(p) \/ Crash(p)
    BY <2>2 DEF ReadFails, Crash, Registers
  <2> QED BY <2>1, <2>2
<1>4. CASE WriteFails(p) \/ ReadFails(p)
  <2>1. WriteOnce!Reply(p, "io_error", None)
    BY <1>4, ReturnReplies DEF WriteFails, ReadFails, IOError
  <2> QED BY <1>1, <1>3, <2>1 DEF WriteOnce!Fail, Registers
<1>5. CASE Crash(p)
  BY <1>1, <1>2, <1>3, <1>5 DEF Crash, Return, WriteOnce!Fail, Registers
<1> QED BY <1>4, <1>5

LEMMA StoreInit == Init => WriteOnce!Init
BY DEF Init, WriteOnce!Init, Names

LEMMA StoreNext == OnceInv /\ [Next]_vars => [WriteOnce!Next]_WriteOnce!vars
<1> SUFFICES ASSUME OnceInv, [Next]_vars PROVE WriteOnce!Next \/ UNCHANGED WriteOnce!vars
  OBVIOUS
<1>1. ASSUME NEW p \in Processes, Save(p) PROVE WriteOnce!Next
  <2>1. PICK v \in Versions, c \in Contents : Begin(p, Call("save", v, c), "exists")
    BY <1>1 DEF Save
  <2>2. Call("save", v, c) \in WriteOnce!Requests /\ Call("save", v, c).op # "latest"
    BY CallsTyped DEF Call
  <2> QED BY <2>1, <2>2, BeginAsks DEF WriteOnce!Next
<1>2. ASSUME NEW p \in Processes, Load(p) PROVE WriteOnce!Next
  <2>1. PICK v \in Versions : Begin(p, Call("load", v, None), "read")
    BY <1>2 DEF Load
  <2>2. Call("load", v, None) \in WriteOnce!Requests /\ Call("load", v, None).op # "latest"
    BY CallsTyped DEF Call
  <2> QED BY <2>1, <2>2, BeginAsks DEF WriteOnce!Next
<1>3. ASSUME NEW p \in Processes, LoadLatest(p) PROVE WriteOnce!Next
  <2>1. /\ Call("latest", None, None) \in WriteOnce!Requests
        /\ Call("latest", None, None).version = None
    BY CallsTyped DEF Call
  <2> QED BY <1>3, <2>1, BeginAsks DEF LoadLatest, WriteOnce!Next
<1>4. ASSUME NEW p \in Processes, Compare(p) PROVE WriteOnce!Next
  BY <1>4, CompareAnswers, Asked DEF Compare, WriteOnce!Next
<1>5. ASSUME NEW p \in Processes, Replace(p) PROVE WriteOnce!Next
  BY <1>5, ReplaceWrites, Asked DEF Replace, WriteOnce!Next
<1>6. ASSUME NEW p \in Processes, List(p) PROVE WriteOnce!Next
  BY <1>6, ListAims, Asked DEF List, WriteOnce!Next
<1>7. ASSUME NEW p \in Processes, Read(p) PROVE WriteOnce!Next
  BY <1>7, ReadDelivers, Asked DEF Read, WriteOnce!Next
<1>8. ASSUME NEW p \in Processes, WriteFails(p) \/ ReadFails(p) \/ Crash(p) PROVE WriteOnce!Next
  BY <1>8, ErrorFails DEF Next, WriteOnce!Next
<1>9. ASSUME NEW p \in Processes, Exists(p) \/ MakeTemp(p) \/ Write(p)
      PROVE  UNCHANGED WriteOnce!vars
  <2>1. ~ \E q \in Processes : Replace(q)
    BY <1>9, TypeSplit DEF Exists, MakeTemp, Write, Goto, Replace, Return, OnceInv, IInv, Shape
  <2>2. Registers' = Registers
    BY <1>9, <2>1, RegistersKept DEF Next
  <2> QED BY <1>9, <2>2 DEF Exists, MakeTemp, Write, Registers, WriteOnce!vars
<1>10. ASSUME NEW p \in Processes, Saved(p) PROVE WriteOnce!Next
  BY <1>10, SavedConfirms, Asked DEF Saved, WriteOnce!Next
<1>11. CASE UNCHANGED vars
  BY <1>11 DEF vars, WriteOnce!vars
<1> QED BY <1>1, <1>2, <1>3, <1>4, <1>5, <1>6, <1>7, <1>8, <1>9, <1>10, <1>11 DEF Next

\* The store of files is a store of write-once registers: every save, conflict and
\* load is answered as if it had happened at one instant.
THEOREM FilesAreWriteOnce ==
    ASSUME WritersApart
    PROVE  Spec => ImplementsWriteOnce
BY StoreInit, StoreNext, OnceInvariant, PTL DEF Spec, ImplementsWriteOnce, WriteOnce!Spec

=============================================================================
