---------------------------- MODULE FileOpsProofs ----------------------------
(***************************************************************************)
(* Proofs about FileOps, for any servers, directories, names and contents, *)
(* and for any number of operations and of faults.  An operation is a      *)
(* sequence of commands; the invariant says at each place of it which      *)
(* command is running (CallInv), what the operation has found out so far   *)
(* (KindInv, LocalInv), and what that means for the trees of the servers   *)
(* (SourceInv, MovedInv, DoneInv, FailInv), for the sessions (ConfigInv,   *)
(* DirInv) and for the listings (CacheInv).                                *)
(***************************************************************************)
EXTENDS FileOps, TLAPS

Src == tree[op.from][op.path]
Dst == tree[op.to][op.dest]
Succeeded == call = NoCall /\ ret.ok

Quiet == {"idle", "exists", "decide", "get ascii", "rm", "rmdir", "mkdir", "quote"}
Places == Quiet \cup {"listed", "target gone", "moved", "get", "got", "source gone",
                      "put", "stored", "done", "in dir"}

Result == [ok : BOOLEAN, got : SUBSET (Names \cup Things)]
Tree == [Path -> SUBSET Things]
Listings == [Sites -> [Dirs -> (SUBSET Names) \cup {NotCached}]]

SessionTypes ==
  /\ faults \in FaultSets
  /\ tree \in [Sites -> Tree]
  /\ mapper \in [Sites -> {"none", "nodll", "loaded", "up", "broken"}]
  /\ config \in [Sites -> BOOLEAN]
  /\ cwd \in [Sites -> Dirs]
  /\ listed \in [Sites -> BOOLEAN]
  /\ cacheOn \in [Sites -> BOOLEAN]
  /\ cache \in Listings
  /\ call \in Call \cup {NoCall}
  /\ ret \in Result
  /\ crashed \in BOOLEAN

OpTypes ==
  /\ op \in Op
  /\ pc \in Places
  /\ reply \in Replies
  /\ local \subseteq Things
  /\ last \in { {} } \cup { {x} : x \in Sites \X Dirs }
  /\ quoted \in BOOLEAN
  /\ ops \in 0 .. MaxOps

TypeInv == SessionTypes /\ OpTypes

(* The command that is running belongs to the place of the operation.      *)
Does(s, c) == call # NoCall => call.site = s /\ call.cmd = c

LsDest == [do |-> "ls", dir |-> op.dest[1]]
RmDest == [do |-> "rm", path |-> op.dest]
RmSource == [do |-> "rm", path |-> op.path]
MvToDest == [do |-> "mv", path |-> op.path, to |-> op.dest]
GetSource == [do |-> "get", path |-> op.path]
PutDest == [do |-> "put", path |-> op.dest, content |-> local]
CdDest == [do |-> "cd", dir |-> op.dest[1]]
OnDest == [do |-> op.kind, path |-> op.dest]

CallInv ==
  /\ pc \in Quiet => call = NoCall
  /\ pc = "listed" => Does(op.to, LsDest) /\ ret.got \subseteq Names
  /\ pc = "target gone" => Does(op.to, RmDest)
  /\ pc = "moved" => Does(op.to, MvToDest)
  /\ pc = "get" => Does(op.from, ConnectOnly)
  /\ pc = "got" => Does(op.from, GetSource) /\ ret.got \subseteq Things
  /\ pc = "source gone" => Does(op.from, RmSource)
  /\ pc = "put" => Does(op.to, ConnectOnly)
  /\ pc = "stored" => Does(op.to, PutDest)
  /\ pc = "done" => Does(op.to, IF op.kind = "quote" THEN RelativeCommand ELSE OnDest)
  /\ pc = "in dir" => Does(op.to, CdDest)

(* What makes a command lose its connection: the network, or, for a copy,  *)
(* the answers that it has not waited for.                                 *)
MayStop == faults \cap {"abort", "error"} # {}
MayBreak(c) == "lost" \in faults \/ (c.do \in {"get", "put"} /\ MayStop)

(* A command is repeated once, and only if the connection has broken.      *)
TriesInv ==
  call # NoCall =>
    /\ call.tries > 0 => MayBreak(call.cmd)
    /\ call.at = "run" =>
         mapper[call.site] = "up" /\ call.tries < 2 /\ call.cmd # ConnectOnly

KindInv ==
  /\ pc \in {"exists", "listed", "decide"} => op.kind \in {"list", "put", "ren"}
  /\ pc \in {"exists", "listed", "decide"} /\ ShortWay => local = {}
  /\ pc \in {"target gone", "moved"} => ShortWay
  /\ pc = "target gone" => op.exists
  /\ pc \in {"get ascii", "get", "got", "source gone"} =>
       op.kind \in {"get", "ren"} /\ ~ShortWay
  /\ pc = "source gone" => op.move
  /\ pc \in {"put", "stored"} =>
       op.kind \in {"put", "ren"} /\ ~ShortWay /\ (~op.exists \/ op.force)
  /\ pc = "stored" => local # {}
  /\ pc \in {"rm", "rmdir", "mkdir"} => op.kind = pc
  /\ pc = "done" => op.kind \in {"rm", "rmdir", "mkdir", "quote"}
  /\ pc \in {"quote", "in dir"} => op.kind = "quote"
  /\ pc # "idle" /\ op.kind = "quote" => quoted
  /\ op.kind = "ren" => <<op.from, op.path>> # <<op.to, op.dest>>
  /\ op.kind # "ren" => op.from = op.to /\ op.path = op.dest

StepInv == TypeInv /\ CallInv /\ TriesInv /\ KindInv

-----------------------------------------------------------------------------
(* Types of commands, calls and outcomes.                                  *)
LEMMA NotNoCall == \A c \in Call : c # NoCall
BY DEF Call, NoCall

LEMMA CallParts ==
  ASSUME TypeInv, call # NoCall
  PROVE  /\ call \in Call /\ call.site \in Sites /\ call.cmd \in Command
         /\ call.at \in {"connect", "run", "hung"} /\ call.tries \in 0 .. 2
BY DEF TypeInv, SessionTypes, Call

LEMMA OpParts ==
  ASSUME TypeInv
  PROVE  /\ op.kind \in Kinds /\ op.from \in Sites /\ op.to \in Sites
         /\ op.path \in Path /\ op.dest \in Path
         /\ op.path[1] \in Dirs /\ op.path[2] \in Names
         /\ op.dest[1] \in Dirs /\ op.dest[2] \in Names
         /\ op.dest = <<op.dest[1], op.dest[2]>> /\ op.path = <<op.path[1], op.path[2]>>
         /\ op.move \in BOOLEAN /\ op.force \in BOOLEAN /\ op.exists \in BOOLEAN
         /\ op.content \subseteq Things /\ op.before \in Tree
BY DEF TypeInv, OpTypes, Op, Path, Tree

LEMMA CommandTypes ==
  ASSUME TypeInv
  PROVE  /\ LsDest \in Command /\ RmDest \in Command /\ RmSource \in Command
         /\ MvToDest \in Command /\ GetSource \in Command /\ PutDest \in Command
         /\ CdDest \in Command /\ RelativeCommand \in Command /\ ConnectOnly \in Command
         /\ op.kind \in {"rm", "rmdir", "mkdir"} => OnDest \in Command
<1>1. /\ LsDest \in Command /\ CdDest \in Command
  BY OpParts DEF Command, LsDest, CdDest
<1>2. /\ RmDest \in Command /\ RmSource \in Command /\ GetSource \in Command
  BY OpParts DEF Command, RmDest, RmSource, GetSource
<1>3. MvToDest \in Command
  BY OpParts DEF Command, MvToDest
<1>4. PutDest \in Command
  BY OpParts DEF Command, PutDest, TypeInv, OpTypes
<1>5. RelativeCommand \in Command
  BY OpParts DEF Command, RelativeCommand
<1>6. ConnectOnly \in Command
  BY DEF Command, ConnectOnly
<1>7. op.kind \in {"rm", "rmdir", "mkdir"} => OnDest \in Command
  BY OpParts DEF Command, OnDest
<1>. QED BY <1>1, <1>2, <1>3, <1>4, <1>5, <1>6, <1>7

(* What a command makes of the tree of its server, and what it reads.      *)
Effect(s, c, o) ==
  LET t == tree[s] IN
  /\ o.tree \in Tree /\ o.ok \in BOOLEAN
  /\ c.do # "ls" => o.got \subseteq Things
  /\ c.do = "ls" => o.got \subseteq Names /\ o.tree = t
  /\ c.do \in {"cd", "get"} => o.tree = t
  /\ c.do = "get" /\ o.ok => o.got # {} /\ (o.got = t[c.path] \/ "error" \in faults)
  /\ c.do \in {"rm", "rmdir"} =>
       o.tree = IF o.ok THEN [t EXCEPT ![c.path] = {}] ELSE t
  /\ c.do = "mkdir" =>
       o.tree = IF o.ok THEN [t EXCEPT ![c.path] = {Directory}] ELSE t
  /\ c.do = "mv" =>
       IF o.ok THEN /\ c.path # c.to /\ t[c.path] # {}
                    /\ o.tree = [t EXCEPT ![c.path] = {}, ![c.to] = @ \cup t[c.path]]
       ELSE o.tree = t
  /\ c.do = "put" =>
       \/ o.ok /\ o.tree = [t EXCEPT ![c.path] = c.content]
       \/ ~o.ok /\ o.tree = t
       \/ /\ ~o.ok /\ MayStop
          /\ o.tree \in {[t EXCEPT ![c.path] = c.content], [t EXCEPT ![c.path] = {Part}]}
       \/ o.ok /\ "error" \in faults /\ o.tree = [t EXCEPT ![c.path] = {Part}]

LEMMA ThingTypes == New \in Things /\ Part \in Things /\ Directory \in Things
BY DEF Things

LEMMA RefusalEffect ==
  ASSUME TypeInv, NEW s \in Sites, NEW c \in Command, NEW o \in Refusal(tree[s])
  PROVE  Effect(s, c, o) /\ ~o.ok
<1>1. o = [tree |-> tree[s], ok |-> FALSE, got |-> {}]
  BY DEF Refusal, Outcome
<1>2. tree[s] \in Tree
  BY DEF TypeInv, SessionTypes
<1>. QED BY <1>1, <1>2 DEF Effect

LEMMA OutcomeEffect ==
  ASSUME TypeInv, NEW s \in Sites, NEW c \in Command, c # ConnectOnly,
         NEW o \in Outcomes(s, c)
  PROVE  Effect(s, c, o)
<1> DEFINE t == tree[s]
<1>1. t \in Tree /\ cwd[s] \in Dirs
  BY DEF TypeInv, SessionTypes
<1>2. CASE o \in Refusal(t)
  BY <1>2, RefusalEffect
<1>3. CASE c.do \in {"ls", "cd"} /\ o \notin Refusal(t)
  <2>1. c.dir \in Dirs
    BY <1>3 DEF Command
  <2>2. CASE c.do = "ls"
    <3>1. \/ o = [tree |-> t, ok |-> TRUE, got |-> Listing(t, c.dir)]
          \/ \E names \in SUBSET Listing(t, c.dir) : o = [tree |-> t, ok |-> TRUE, got |-> names]
      BY <1>3, <2>2 DEF Outcomes, List, Outcome
    <3>2. Listing(t, c.dir) \subseteq Names
      BY DEF Listing
    <3>3. o.tree = t /\ o.ok = TRUE /\ o.got \subseteq Names
      BY <3>1, <3>2
    <3>. QED BY <1>1, <2>2, <3>3 DEF Effect
  <2>3. CASE c.do = "cd"
    <3>1. o = [tree |-> t, ok |-> TRUE, got |-> {}]
      BY <1>3, <2>3 DEF Outcomes, Outcome
    <3>. QED BY <1>1, <2>3, <3>1 DEF Effect
  <2>. QED BY <1>3, <2>2, <2>3
<1>4. CASE c.do \in {"rm", "rmdir", "mkdir", "get"} /\ o \notin Refusal(t)
  <2>1. c.path \in Path
    BY <1>4 DEF Command
  <2>2. CASE c.do \in {"rm", "rmdir"}
    <3>1. o = [tree |-> [t EXCEPT ![c.path] = {}], ok |-> TRUE, got |-> {}]
      BY <1>4, <2>2 DEF Outcomes, Remove, RemoveDir, Outcome
    <3>2. [t EXCEPT ![c.path] = {}] \in Tree
      BY <1>1, <2>1 DEF Tree
    <3>. QED BY <2>2, <3>1, <3>2 DEF Effect
  <2>3. CASE c.do = "mkdir"
    <3>1. o = [tree |-> [t EXCEPT ![c.path] = {Directory}], ok |-> TRUE, got |-> {}]
      BY <1>4, <2>3 DEF Outcomes, MakeDir, Outcome
    <3>2. [t EXCEPT ![c.path] = {Directory}] \in Tree
      BY <1>1, <2>1, ThingTypes DEF Tree
    <3>. QED BY <2>3, <3>1, <3>2 DEF Effect
  <2>4. CASE c.do = "get"
    <3>1. /\ IsFile(t[c.path])
          /\ \/ o = [tree |-> t, ok |-> TRUE, got |-> t[c.path]]
             \/ o = [tree |-> t, ok |-> FALSE, got |-> t[c.path]]
             \/ o = [tree |-> t, ok |-> FALSE, got |-> {Part}]
             \/ "error" \in faults /\ o = [tree |-> t, ok |-> TRUE, got |-> {Part}]
      BY <1>4, <2>4 DEF Outcomes, Get, Outcome
    <3>2. t[c.path] \subseteq Things /\ t[c.path] # {}
      BY <1>1, <2>1, <3>1 DEF Tree, IsFile
    <3>3. /\ o.tree = t /\ o.ok \in BOOLEAN /\ o.got \subseteq Things
          /\ o.ok => o.got # {} /\ (o.got = t[c.path] \/ "error" \in faults)
      <4>1. CASE \E ok \in BOOLEAN : o = [tree |-> t, ok |-> ok, got |-> t[c.path]]
        BY <3>2, <4>1
      <4>2. CASE o = [tree |-> t, ok |-> FALSE, got |-> {Part}]
        BY <4>2, ThingTypes
      <4>3. CASE "error" \in faults /\ o = [tree |-> t, ok |-> TRUE, got |-> {Part}]
        BY <4>3, ThingTypes
      <4>. QED BY <3>1, <4>1, <4>2, <4>3
    <3>. QED BY <1>1, <2>4, <3>3 DEF Effect
  <2>. QED BY <1>4, <2>2, <2>3, <2>4
<1>5. CASE c.do = "mv" /\ o \notin Refusal(t)
  <2>1. c.path \in Path /\ c.to \in Path
    BY <1>5 DEF Command
  <2>2. /\ c.path # c.to /\ t[c.path] # {}
        /\ o = [tree |-> [t EXCEPT ![c.path] = {}, ![c.to] = @ \cup t[c.path]],
                ok |-> TRUE, got |-> {}]
    BY <1>5 DEF Outcomes, Move, Outcome
  <2>3. [t EXCEPT ![c.path] = {}, ![c.to] = @ \cup t[c.path]] \in Tree
    BY <1>1, <2>1 DEF Tree
  <2>. QED BY <1>5, <2>2, <2>3 DEF Effect
<1>6. CASE c.do = "put" /\ o \notin Refusal(t)
  <2>1. c.path \in Path /\ c.content \subseteq Things
    BY <1>6 DEF Command
  <2> DEFINE Whole == [t EXCEPT ![c.path] = c.content]
             Cut == [t EXCEPT ![c.path] = {Part}]
  <2>2. \/ o = [tree |-> Whole, ok |-> TRUE, got |-> {}]
        \/ /\ "abort" \in faults
           /\ \/ o = [tree |-> Whole, ok |-> FALSE, got |-> {}]
              \/ o = [tree |-> Cut, ok |-> FALSE, got |-> {}]
        \/ "error" \in faults /\ o = [tree |-> Cut, ok |-> TRUE, got |-> {}]
    BY <1>6 DEF Outcomes, Put, Outcome
  <2>3. Whole \in Tree /\ Cut \in Tree
    BY <1>1, <2>1, ThingTypes DEF Tree
  <2>4. /\ o.tree \in Tree /\ o.ok \in BOOLEAN /\ o.got = {}
        /\ \/ o.ok /\ o.tree = Whole
           \/ ~o.ok /\ MayStop /\ o.tree \in {Whole, Cut}
           \/ o.ok /\ "error" \in faults /\ o.tree = Cut
    <3>1. CASE o = [tree |-> Whole, ok |-> TRUE, got |-> {}]
      BY <2>3, <3>1
    <3>2. CASE /\ "abort" \in faults
               /\ \/ o = [tree |-> Whole, ok |-> FALSE, got |-> {}]
                  \/ o = [tree |-> Cut, ok |-> FALSE, got |-> {}]
      <4>1. MayStop
        BY <3>2 DEF MayStop
      <4>2. CASE o = [tree |-> Whole, ok |-> FALSE, got |-> {}]
        BY <2>3, <4>1, <4>2
      <4>3. CASE o = [tree |-> Cut, ok |-> FALSE, got |-> {}]
        BY <2>3, <4>1, <4>3
      <4>. QED BY <3>2, <4>2, <4>3
    <3>3. CASE "error" \in faults /\ o = [tree |-> Cut, ok |-> TRUE, got |-> {}]
      BY <2>3, <3>3
    <3>. QED BY <2>2, <3>1, <3>2, <3>3
  <2>. QED BY <1>6, <2>4 DEF Effect
<1>7. CASE c.do = "relative" /\ o \notin Refusal(t)
  <2>1. <<cwd[s], c.name>> \in Path
    BY <1>1, <1>7 DEF Command, Path
  <2>2. o = [tree |-> [t EXCEPT ![<<cwd[s], c.name>>] = {}], ok |-> TRUE, got |-> {}]
    BY <1>7 DEF Outcomes, Remove, Outcome
  <2>3. [t EXCEPT ![<<cwd[s], c.name>>] = {}] \in Tree
    BY <1>1, <2>1 DEF Tree
  <2>. QED BY <1>7, <2>2, <2>3 DEF Effect
<1>. QED BY <1>2, <1>3, <1>4, <1>5, <1>6, <1>7 DEF Command, ConnectOnly

(* ... when the connection breaks. *)
BrokenEffect(s, c, o) ==
  LET t == tree[s] IN
  /\ o.tree \in Tree /\ o.ok = FALSE
  /\ c.do # "ls" => o.got \subseteq Things
  /\ c.do = "ls" => o.got \subseteq Names
  /\ c.do \in {"ls", "cd", "get"} => o.tree = t
  /\ c.do \in {"rm", "rmdir"} => o.tree \in {t, [t EXCEPT ![c.path] = {}]}
  /\ c.do = "mkdir" => o.tree \in {t, [t EXCEPT ![c.path] = {Directory}]}
  /\ c.do = "mv" =>
       \/ o.tree = t
       \/ /\ c.path # c.to /\ t[c.path] # {}
          /\ o.tree = [t EXCEPT ![c.path] = {}, ![c.to] = @ \cup t[c.path]]
  /\ c.do = "put" =>
       o.tree \in {t, [t EXCEPT ![c.path] = c.content], [t EXCEPT ![c.path] = {Part}]}

LEMMA StoppedPut ==
  ASSUME TypeInv, NEW s \in Sites, NEW c \in Command, c.do = "put",
         NEW o, o = Outcome([tree[s] EXCEPT ![c.path] = {Part}], FALSE, {})
  PROVE  BrokenEffect(s, c, o)
<1>1. tree[s] \in Tree /\ c.path \in Path
  BY DEF TypeInv, SessionTypes, Command
<1>2. [tree[s] EXCEPT ![c.path] = {Part}] \in Tree
  BY <1>1, ThingTypes DEF Tree
<1>3. o.tree = [tree[s] EXCEPT ![c.path] = {Part}] /\ o.ok = FALSE /\ o.got = {}
  BY DEF Outcome
<1>. QED BY <1>2, <1>3 DEF BrokenEffect

LEMMA StoppedGet ==
  ASSUME TypeInv, NEW s \in Sites, NEW c \in Command, c.do = "get",
         NEW got \in {tree[s][c.path], {Part}}, NEW o, o = Outcome(tree[s], FALSE, got)
  PROVE  BrokenEffect(s, c, o)
<1>1. tree[s] \in Tree /\ c.path \in Path
  BY DEF TypeInv, SessionTypes, Command
<1>2. o.tree = tree[s] /\ o.ok = FALSE /\ o.got \subseteq Things
  BY <1>1, ThingTypes DEF Outcome, Tree
<1>. QED BY <1>1, <1>2 DEF BrokenEffect

LEMMA CutOffEffect ==
  ASSUME TypeInv, NEW s \in Sites, NEW c \in Command, c # ConnectOnly,
         NEW o \in CutOff(s, c)
  PROVE  BrokenEffect(s, c, o)
<1> DEFINE t == tree[s]
<1>1. t \in Tree
  BY DEF TypeInv, SessionTypes
<1>2. CASE \E q \in Outcomes(s, c) : o = Outcome(q.tree, FALSE, q.got)
  <2>1. PICK q \in Outcomes(s, c) : o = Outcome(q.tree, FALSE, q.got)
    BY <1>2
  <2>2. o.tree = q.tree /\ o.ok = FALSE /\ o.got = q.got
    BY <2>1 DEF Outcome
  <2>3. Effect(s, c, q)
    BY OutcomeEffect
  <2>. QED BY <2>2, <2>3 DEF Effect, BrokenEffect
<1>3. CASE o \in Refusal(t)
  <2>1. o.tree = t /\ o.ok = FALSE /\ o.got = {}
    BY <1>3 DEF Refusal, Outcome
  <2>. QED BY <1>1, <2>1 DEF BrokenEffect
<1>4. CASE c.do = "put" /\ o = Outcome([t EXCEPT ![c.path] = {Part}], FALSE, {})
  BY <1>4, StoppedPut
<1>5. CASE c.do = "get" /\ \E got \in {t[c.path], {Part}} : o = Outcome(t, FALSE, got)
  BY <1>5, StoppedGet
<1>. QED BY <1>2, <1>3, <1>4, <1>5 DEF CutOff

LEMMA BrokenOutcomes ==
  ASSUME TypeInv, NEW s \in Sites, NEW c \in Command, c # ConnectOnly,
         NEW o \in Broken(s, c)
  PROVE  BrokenEffect(s, c, o) /\ MayBreak(c)
<1> DEFINE t == tree[s]
<1>1. CASE "lost" \in faults /\ o \in CutOff(s, c)
  BY <1>1, CutOffEffect DEF MayBreak
<1>2. CASE /\ c.do = "get" /\ "abort" \in faults
           /\ o = Outcome(t, FALSE, {Part})
  BY <1>2, StoppedGet DEF MayBreak, MayStop
<1>3. CASE /\ c.do = "put" /\ "error" \in faults
           /\ o = Outcome([t EXCEPT ![c.path] = {Part}], FALSE, {})
  BY <1>3, StoppedPut DEF MayBreak, MayStop
<1>. QED BY <1>1, <1>2, <1>3 DEF Broken, Misread

-----------------------------------------------------------------------------
(* The steps of a command. *)
LEMMA ReadTypes ==
  ASSUME TypeInv, NEW o, o.got \subseteq Names \cup Things
  PROVE  /\ HasRead(o) \subseteq Names \cup Things
         /\ \A kind \in {Names, Things} :
              o.got \subseteq kind /\ ret.got \subseteq kind => HasRead(o) \subseteq kind
         /\ call.cmd.do # "get" => HasRead(o) = o.got
         /\ o.got # {} => HasRead(o) = o.got
BY DEF HasRead, TypeInv, SessionTypes, Result

(* While a command runs the operation waits for it. *)
LEMMA CallKept ==
  ASSUME CallInv, UNCHANGED opVars, call # NoCall,
         call' = NoCall \/ (call'.site = call.site /\ call'.cmd = call.cmd),
         pc = "listed" => ret'.got \subseteq Names,
         pc = "got" => ret'.got \subseteq Things
  PROVE  CallInv'
<1>1. UNCHANGED <<op, pc, local>> /\ pc \notin Quiet
  BY DEF opVars, CallInv
<1>2. /\ LsDest' = LsDest /\ RmDest' = RmDest /\ RmSource' = RmSource
      /\ MvToDest' = MvToDest /\ GetSource' = GetSource /\ PutDest' = PutDest
      /\ CdDest' = CdDest /\ OnDest' = OnDest /\ RelativeCommand' = RelativeCommand
  BY <1>1 DEF LsDest, RmDest, RmSource, MvToDest, GetSource, PutDest, CdDest, OnDest,
     RelativeCommand
<1>3. \A s, c : Does(s, c) => (call' # NoCall => call'.site = s /\ call'.cmd = c)
  BY DEF Does
<1>. QED BY <1>1, <1>2, <1>3 DEF CallInv, Does

LEMMA KindKept ==
  ASSUME KindInv, UNCHANGED opVars
  PROVE  KindInv'
BY DEF KindInv, opVars, ShortWay

LEMMA OpTypesKept ==
  ASSUME OpTypes, UNCHANGED opVars
  PROVE  OpTypes'
BY DEF OpTypes, opVars

(* What the command that runs is, by what it does. *)
LEMMA RunningCommand ==
  ASSUME StepInv, NEW s \in Sites, Running(s)
  PROVE  /\ call # NoCall /\ call.site = s /\ call.cmd \in Command
         /\ call.cmd # ConnectOnly /\ mapper[s] = "up" /\ call.tries \in {0, 1}
         /\ pc = "listed" => call.cmd.do = "ls"
         /\ pc = "got" => call.cmd.do = "get"
<1>1. call # NoCall /\ call.site = s /\ call.at = "run"
  BY DEF Running
<1>2. call.cmd \in Command /\ call.tries \in 0 .. 2
  BY <1>1, CallParts DEF StepInv
<1>3. mapper[s] = "up" /\ call.tries < 2 /\ call.cmd # ConnectOnly
  BY <1>1 DEF StepInv, TriesInv
<1>4. /\ pc = "listed" => call.cmd.do = "ls"
      /\ pc = "got" => call.cmd.do = "get"
  <2>1. /\ pc = "listed" => call.cmd = LsDest
        /\ pc = "got" => call.cmd = GetSource
    BY <1>1 DEF StepInv, CallInv, Does
  <2>. QED BY <2>1 DEF LsDest, GetSource
<1>. QED BY <1>1, <1>2, <1>3, <1>4

LEMMA RunCommandFacts ==
  ASSUME StepInv, NEW s \in Sites, RunCommand(s)
  PROVE  \E o : /\ Effect(s, call.cmd, o)
                /\ o \in Outcomes(s, call.cmd)
                /\ tree' = [tree EXCEPT ![s] = o.tree]
                /\ ret' = [ok |-> o.ok, got |-> HasRead(o)]
                /\ cwd' = IF call.cmd.do = "cd" /\ o.ok
                          THEN [cwd EXCEPT ![s] = call.cmd.dir] ELSE cwd
                /\ listed' = IF call.cmd.do = "ls" THEN [listed EXCEPT ![s] = o.ok]
                             ELSE listed
<1>1. Running(s)
  BY DEF RunCommand
<1>2. \A o \in Outcomes(s, call.cmd) : Effect(s, call.cmd, o)
  BY <1>1, RunningCommand, OutcomeEffect DEF StepInv
<1>. QED BY <1>2 DEF RunCommand

LEMMA LoseConnectionFacts ==
  ASSUME StepInv, NEW s \in Sites, LoseConnection(s)
  PROVE  /\ \E o : /\ BrokenEffect(s, call.cmd, o)
                   /\ tree' = [tree EXCEPT ![s] = o.tree]
                   /\ ret' = [ok |-> FALSE, got |-> HasRead(o)]
         /\ call' # NoCall /\ call' \in Call /\ call'.site = s /\ call'.cmd = call.cmd
         /\ call'.at = "connect" /\ call'.tries = call.tries + 1
         /\ MayBreak(call.cmd)
<1>1. Running(s)
  BY DEF LoseConnection
<1>2. \A o \in Broken(s, call.cmd) : BrokenEffect(s, call.cmd, o) /\ MayBreak(call.cmd)
  BY <1>1, RunningCommand, BrokenOutcomes DEF StepInv
<1>3. call \in Call /\ call.site = s /\ call.tries \in {0, 1}
  BY <1>1, RunningCommand, CallParts DEF StepInv
<1>4. call' = [call EXCEPT !.at = "connect", !.tries = @ + 1]
  BY DEF LoseConnection
<1>5. call' \in Call /\ call'.site = s /\ call'.cmd = call.cmd
      /\ call'.at = "connect" /\ call'.tries = call.tries + 1
  <2>1. call'.site = s /\ call'.cmd = call.cmd /\ call'.at = "connect"
    BY <1>3, <1>4 DEF Call
  <2>2. call'.tries = call.tries + 1 /\ call'.tries \in 0 .. 2
    BY <1>3, <1>4 DEF Call
  <2>3. call' = [site |-> s, cmd |-> call.cmd, at |-> "connect", tries |-> call.tries + 1]
    BY <1>3, <1>4 DEF Call
  <2>4. call.cmd \in Command /\ call.tries + 1 \in 0 .. 2
    BY <1>3 DEF Call
  <2>. QED BY <2>1, <2>2, <2>3, <2>4 DEF Call
<1>. QED BY <1>2, <1>5, NotNoCall DEF LoseConnection

LEMMA ProceedFacts ==
  ASSUME TypeInv, call # NoCall, Proceed
  PROVE  /\ ret' \in Result /\ ret'.got = ret.got
         /\ \/ call' = NoCall /\ ret'.ok = (call.cmd = ConnectOnly)
            \/ /\ ret' = ret
               /\ call' # NoCall /\ call' \in Call
               /\ call'.site = call.site /\ call'.cmd = call.cmd
               /\ call'.at = "run" /\ call'.tries = call.tries /\ call.tries < 2
               /\ call.cmd # ConnectOnly
<1>1. call \in Call /\ ret \in Result /\ call.tries \in 0 .. 2
  BY CallParts DEF TypeInv, SessionTypes
<1>2. CASE call.cmd = ConnectOnly \/ call.tries = 2
  <2>1. call' = NoCall /\ ret' = [ret EXCEPT !.ok = (call.cmd = ConnectOnly)]
    BY <1>2, Zenon DEF Proceed, Returning
  <2>2. (call.cmd = ConnectOnly) \in BOOLEAN
    OBVIOUS
  <2>3. ret' \in Result /\ ret'.got = ret.got /\ ret'.ok = (call.cmd = ConnectOnly)
    BY <1>1, <2>1, <2>2 DEF Result
  <2>. QED BY <2>1, <2>3
<1>3. CASE ~(call.cmd = ConnectOnly \/ call.tries = 2)
  <2>1. call' = [call EXCEPT !.at = "run"] /\ ret' = ret
    BY <1>3, Zenon DEF Proceed
  <2>2. call' \in Call /\ call'.site = call.site /\ call'.cmd = call.cmd
        /\ call'.at = "run" /\ call'.tries = call.tries
    BY <1>1, <2>1 DEF Call
  <2>. QED BY <1>1, <1>3, <2>1, <2>2, NotNoCall
<1>. QED BY <1>2, <1>3

LEMMA ConnectStep ==
  ASSUME StepInv, NEW s \in Sites, Connect(s), UNCHANGED opVars
  PROVE  StepInv'
<1>1. call # NoCall /\ call.site = s /\ Proceed /\ Configure(s)
      /\ mapper' = [mapper EXCEPT ![s] = "up"]
  BY DEF Connect, MustConnect
<1>2. /\ ret' \in Result /\ ret'.got = ret.got
      /\ \/ call' = NoCall
         \/ /\ call' # NoCall /\ call' \in Call
            /\ call'.site = call.site /\ call'.cmd = call.cmd
            /\ call'.at = "run" /\ call'.tries = call.tries /\ call.tries < 2
            /\ call.cmd # ConnectOnly
  BY <1>1, ProceedFacts DEF StepInv
<1>3. SessionTypes
  BY DEF StepInv, TypeInv
<1>4. SessionTypes'
  <2>1. mapper' \in [Sites -> {"none", "nodll", "loaded", "up", "broken"}]
        /\ cwd' \in [Sites -> Dirs] /\ listed' \in [Sites -> BOOLEAN]
        /\ UNCHANGED <<faults, tree, crashed>>
    BY <1>3, SessionAssumption DEF SessionTypes, Connect
  <2>2. config' \in [Sites -> BOOLEAN] /\ cacheOn' \in [Sites -> BOOLEAN]
    BY <1>1, <1>3 DEF SessionTypes, Configure
  <2>3. cache' \in Listings
    BY <1>1, <1>3 DEF SessionTypes, Configure, Listings, EmptyCache
  <2>. QED BY <1>2, <1>3, <2>1, <2>2, <2>3 DEF SessionTypes
<1>5. TypeInv'
  BY <1>4, OpTypesKept DEF StepInv, TypeInv
<1>6. CallInv'
  <2>1. /\ pc = "listed" => ret.got \subseteq Names
        /\ pc = "got" => ret.got \subseteq Things
    BY DEF StepInv, CallInv
  <2>. QED BY <1>1, <1>2, <2>1, CallKept DEF StepInv
<1>7. TriesInv'
  <2>1. mapper'[s] = "up" /\ faults' = faults
    BY <1>1, <1>3 DEF SessionTypes, Connect
  <2>. QED BY <1>1, <1>2, <2>1 DEF StepInv, TriesInv, MayBreak, MayStop
<1>. QED BY <1>5, <1>6, <1>7, KindKept DEF StepInv

(* The call ends and the operation goes on, with what has been read.       *)
LEMMA CallEnds ==
  ASSUME StepInv, call # NoCall, call' = NoCall, UNCHANGED opVars, SessionTypes',
         pc = "listed" => ret'.got \subseteq Names,
         pc = "got" => ret'.got \subseteq Things
  PROVE  StepInv'
<1>1. TypeInv'
  BY OpTypesKept DEF StepInv, TypeInv
<1>2. CallInv'
  BY CallKept DEF StepInv
<1>. QED BY <1>1, <1>2, KindKept DEF StepInv, TriesInv

LEMMA ConnectFailsStep ==
  ASSUME StepInv, NEW s \in Sites, ConnectFails(s), UNCHANGED opVars
  PROVE  StepInv' /\ ret'.ok = FALSE /\ ret'.got = ret.got
<1>1. call # NoCall /\ call' = NoCall /\ ret' = [ret EXCEPT !.ok = FALSE]
      /\ UNCHANGED <<faults, tree, config, cwd, listed, cacheOn, cache, crashed>>
  BY Zenon DEF ConnectFails, MustConnect, Returning
<1>2. SessionTypes
  BY DEF StepInv, TypeInv
<1>3. ret' \in Result /\ ret'.got = ret.got /\ ret'.ok = FALSE
  BY <1>1, <1>2 DEF SessionTypes, Result
<1>4. mapper' \in [Sites -> {"none", "nodll", "loaded", "up", "broken"}]
  BY <1>2 DEF ConnectFails, SessionTypes
<1>5. SessionTypes'
  BY <1>1, <1>2, <1>3, <1>4 DEF SessionTypes
<1>6. /\ pc = "listed" => ret.got \subseteq Names
      /\ pc = "got" => ret.got \subseteq Things
  BY DEF StepInv, CallInv
<1>. QED BY <1>1, <1>3, <1>5, <1>6, CallEnds

LEMMA RunCommandStep ==
  ASSUME StepInv, NEW s \in Sites, RunCommand(s), UNCHANGED opVars
  PROVE  StepInv'
<1>1. PICK o : /\ Effect(s, call.cmd, o)
               /\ tree' = [tree EXCEPT ![s] = o.tree]
               /\ ret' = [ok |-> o.ok, got |-> HasRead(o)]
               /\ cwd' = IF call.cmd.do = "cd" /\ o.ok
                         THEN [cwd EXCEPT ![s] = call.cmd.dir] ELSE cwd
               /\ listed' = IF call.cmd.do = "ls" THEN [listed EXCEPT ![s] = o.ok]
                            ELSE listed
  BY RunCommandFacts
<1>2. Running(s) /\ call' = NoCall
      /\ UNCHANGED <<faults, mapper, config, cacheOn, cache, crashed>>
  BY DEF RunCommand
<1>3. SessionTypes /\ call # NoCall /\ call.cmd \in Command
  BY <1>2, RunningCommand DEF StepInv, TypeInv
<1>4. o.tree \in Tree /\ o.ok \in BOOLEAN /\ o.got \subseteq Names \cup Things
  BY <1>1 DEF Effect
<1>5. /\ HasRead(o) \subseteq Names \cup Things
      /\ pc = "listed" => HasRead(o) \subseteq Names
      /\ pc = "got" => HasRead(o) \subseteq Things
  <2>1. /\ pc = "listed" => o.got \subseteq Names /\ ret.got \subseteq Names
        /\ pc = "got" => o.got \subseteq Things /\ ret.got \subseteq Things
    BY <1>1, <1>2, RunningCommand DEF StepInv, CallInv, Effect
  <2>. QED BY <1>4, <2>1, ReadTypes DEF StepInv
<1>6. SessionTypes'
  <2>1. tree' \in [Sites -> Tree] /\ ret' \in Result
    BY <1>1, <1>3, <1>4, <1>5 DEF SessionTypes, Result
  <2>2. cwd' \in [Sites -> Dirs]
    <3>1. call.cmd.do = "cd" => call.cmd.dir \in Dirs
      BY <1>3 DEF Command
    <3>. QED BY <1>1, <1>3, <3>1 DEF SessionTypes
  <2>3. listed' \in [Sites -> BOOLEAN]
    BY <1>1, <1>3, <1>4 DEF SessionTypes
  <2>. QED BY <1>2, <1>3, <2>1, <2>2, <2>3 DEF SessionTypes
<1>7. ret'.got = HasRead(o)
  BY <1>1
<1>. QED BY <1>2, <1>3, <1>5, <1>6, <1>7, CallEnds

LEMMA OpenDirRefusedStep ==
  ASSUME StepInv, NEW s \in Sites, OpenDirRefused(s), UNCHANGED opVars
  PROVE  StepInv'
<1>1. call # NoCall /\ call' = NoCall /\ ret' = [ok |-> listed[s], got |-> {}]
      /\ UNCHANGED <<faults, tree, mapper, config, cwd, listed, cacheOn, cache, crashed>>
  BY Zenon DEF OpenDirRefused, Running, session
<1>2. SessionTypes
  BY DEF StepInv, TypeInv
<1>3. ret' \in Result /\ ret'.got = {}
  BY <1>1, <1>2 DEF SessionTypes, Result
<1>4. SessionTypes'
  BY <1>1, <1>2, <1>3 DEF SessionTypes
<1>. QED BY <1>1, <1>3, <1>4, CallEnds

LEMMA LoseConnectionStep ==
  ASSUME StepInv, NEW s \in Sites, LoseConnection(s), UNCHANGED opVars
  PROVE  StepInv'
<1>1. PICK o : /\ BrokenEffect(s, call.cmd, o)
               /\ tree' = [tree EXCEPT ![s] = o.tree]
               /\ ret' = [ok |-> FALSE, got |-> HasRead(o)]
  BY LoseConnectionFacts
<1>2. /\ call' # NoCall /\ call' \in Call /\ call'.site = s /\ call'.cmd = call.cmd
      /\ call'.at = "connect" /\ call'.tries = call.tries + 1 /\ MayBreak(call.cmd)
  BY LoseConnectionFacts
<1>3. Running(s)
      /\ mapper' = [mapper EXCEPT ![s] = "broken"]
      /\ UNCHANGED <<faults, config, cwd, listed, cacheOn, cache, crashed>>
  BY DEF LoseConnection
<1>4. SessionTypes /\ call # NoCall /\ call.cmd \in Command /\ call.site = s
  BY <1>3, RunningCommand DEF StepInv, TypeInv
<1>5. o.tree \in Tree /\ o.got \subseteq Names \cup Things
  BY <1>1 DEF BrokenEffect
<1>6. /\ HasRead(o) \subseteq Names \cup Things
      /\ pc = "listed" => HasRead(o) \subseteq Names
      /\ pc = "got" => HasRead(o) \subseteq Things
  <2>1. /\ pc = "listed" => o.got \subseteq Names /\ ret.got \subseteq Names
        /\ pc = "got" => o.got \subseteq Things /\ ret.got \subseteq Things
    BY <1>1, <1>3, RunningCommand DEF StepInv, CallInv, BrokenEffect
  <2>. QED BY <1>5, <2>1, ReadTypes DEF StepInv
<1>7. SessionTypes'
  <2>1. tree' \in [Sites -> Tree] /\ ret' \in Result
    BY <1>1, <1>4, <1>5, <1>6 DEF SessionTypes, Result
  <2>2. mapper' \in [Sites -> {"none", "nodll", "loaded", "up", "broken"}]
    BY <1>3, <1>4 DEF SessionTypes
  <2>. QED BY <1>2, <1>3, <1>4, <2>1, <2>2 DEF SessionTypes
<1>8. TypeInv'
  BY <1>7, OpTypesKept DEF StepInv, TypeInv
<1>9. CallInv'
  <2>1. ret'.got = HasRead(o)
    BY <1>1
  <2>. QED BY <1>2, <1>4, <1>6, <2>1, CallKept DEF StepInv
<1>10. TriesInv'
  BY <1>2, <1>3 DEF TriesInv, MayBreak, MayStop
<1>. QED BY <1>8, <1>9, <1>10, KindKept DEF StepInv

LEMMA GetHangsStep ==
  ASSUME StepInv, NEW s \in Sites, GetHangs(s), UNCHANGED opVars
  PROVE  StepInv' /\ call' = [call EXCEPT !.at = "hung"] /\ call' # NoCall
<1>1. call # NoCall /\ call' = [call EXCEPT !.at = "hung"]
      /\ UNCHANGED <<faults, tree, mapper, config, cwd, listed, cacheOn, cache, ret, crashed>>
  BY Zenon DEF GetHangs, Downloads, Running, session
<1>2. /\ call \in Call /\ call' \in Call /\ call'.at = "hung" /\ call' # NoCall
      /\ call'.site = call.site /\ call'.cmd = call.cmd /\ call'.tries = call.tries
  <2>1. call \in Call
    BY <1>1, CallParts DEF StepInv
  <2>2. /\ call' \in Call /\ call'.at = "hung"
        /\ call'.site = call.site /\ call'.cmd = call.cmd /\ call'.tries = call.tries
    BY <1>1, <2>1 DEF Call
  <2>. QED BY <2>1, <2>2, NotNoCall
<1>3. SessionTypes'
  BY <1>1, <1>2 DEF StepInv, TypeInv, SessionTypes
<1>4. TypeInv'
  BY <1>3, OpTypesKept DEF StepInv, TypeInv
<1>5. CallInv'
  <2>1. /\ pc = "listed" => ret.got \subseteq Names
        /\ pc = "got" => ret.got \subseteq Things
    BY DEF StepInv, CallInv
  <2>. QED BY <1>1, <1>2, <2>1, CallKept DEF StepInv
<1>6. TriesInv'
  BY <1>1, <1>2 DEF StepInv, TriesInv, MayBreak, MayStop
<1>. QED BY <1>1, <1>2, <1>4, <1>5, <1>6, KindKept DEF StepInv

(* A crash changes nothing but that. *)
LEMMA CrashStep ==
  ASSUME StepInv, crashed' = TRUE, UNCHANGED opVars,
         UNCHANGED <<faults, tree, session, call, ret>>
  PROVE  StepInv'
<1>1. UNCHANGED <<faults, tree, mapper, config, cwd, listed, cacheOn, cache, call, ret>>
  BY DEF session
<1>2. SessionTypes'
  <2>1. SessionTypes
    BY DEF StepInv, TypeInv
  <2>2. crashed' \in BOOLEAN
    OBVIOUS
  <2>. QED BY <1>1, <2>1, <2>2 DEF SessionTypes
<1>3. TypeInv'
  BY <1>2, OpTypesKept DEF StepInv, TypeInv
<1>4. CallInv'
  <2>1. UNCHANGED <<op, pc, local>>
    BY DEF opVars
  <2>. QED BY <1>1, <2>1 DEF StepInv, CallInv, Does, LsDest, RmDest, RmSource, MvToDest,
     GetSource, PutDest, CdDest, OnDest, RelativeCommand
<1>5. TriesInv'
  BY <1>1 DEF StepInv, TriesInv, MayBreak, MayStop
<1>. QED BY <1>3, <1>4, <1>5, KindKept DEF StepInv

LEMMA CommandsStep == StepInv /\ Commands => StepInv'
<1> SUFFICES ASSUME StepInv, Commands PROVE StepInv'
  OBVIOUS
<1>1. UNCHANGED opVars
  BY DEF Commands
<1>2. PICK s \in Sites : \/ Connect(s) \/ ConnectFails(s)
                         \/ RunCommand(s) \/ OpenDirRefused(s) \/ LoseConnection(s)
                         \/ GetHangs(s) \/ GetCrashes(s)
                         \/ ClearsNullConfig(s)
  BY DEF Commands, SessionNext
<1>3. CASE GetCrashes(s) \/ ClearsNullConfig(s)
  BY <1>1, <1>3, CrashStep, Zenon DEF GetCrashes, ClearsNullConfig
<1>. QED BY <1>1, <1>2, <1>3, ConnectStep, ConnectFailsStep, RunCommandStep,
            OpenDirRefusedStep, LoseConnectionStep, GetHangsStep

-----------------------------------------------------------------------------
(* The steps of an operation: it starts a command, looks at a listing, or  *)
(* returns.                                                                *)
Started(s, c) ==
  /\ ret' \in Result /\ ret'.got = {}
  /\ IF mapper[s] = "up" /\ c = ConnectOnly
     THEN call' = NoCall /\ ret'.ok = TRUE
     ELSE /\ call' # NoCall /\ call' \in Call
          /\ call'.site = s /\ call'.cmd = c /\ call'.tries = 0
          /\ call'.at = IF mapper[s] = "up" THEN "run" ELSE "connect"
          /\ ret'.ok = FALSE

LEMMA DoCommandFacts ==
  ASSUME StepInv, NEW s \in Sites, NEW c \in Command, DoCommand(s, c),
         UNCHANGED <<mapper, faults>>
  PROVE  Started(s, c) /\ TriesInv' /\ call = NoCall
<1>1. (mapper[s] = "up" /\ c = ConnectOnly) \in BOOLEAN
  OBVIOUS
<1>2. /\ call = NoCall
      /\ call' = IF mapper[s] = "up" /\ c = ConnectOnly THEN NoCall
                 ELSE [site |-> s, cmd |-> c, tries |-> 0,
                       at |-> IF mapper[s] = "up" THEN "run" ELSE "connect"]
      /\ ret' = [NoResult EXCEPT !.ok = (mapper[s] = "up" /\ c = ConnectOnly)]
  BY Zenon DEF DoCommand
<1>3. /\ ret' \in Result /\ ret'.got = {}
      /\ ret'.ok = (mapper[s] = "up" /\ c = ConnectOnly)
  BY <1>1, <1>2 DEF NoResult, Result
<1>4. CASE mapper[s] = "up" /\ c = ConnectOnly
  BY <1>2, <1>3, <1>4 DEF Started, TriesInv
<1>5. CASE ~(mapper[s] = "up" /\ c = ConnectOnly)
  <2>1. call' = [site |-> s, cmd |-> c, tries |-> 0,
                 at |-> IF mapper[s] = "up" THEN "run" ELSE "connect"]
    BY <1>2, <1>5
  <2>2. call' \in Call /\ call'.site = s /\ call'.cmd = c /\ call'.tries = 0
        /\ call'.at = IF mapper[s] = "up" THEN "run" ELSE "connect"
    BY <2>1 DEF Call
  <2>3. call' # NoCall /\ ret'.ok = FALSE
    BY <1>3, <1>5, <2>2, NotNoCall
  <2>4. TriesInv'
    BY <1>5, <2>2 DEF TriesInv
  <2>. QED BY <1>2, <1>3, <1>5, <2>2, <2>3, <2>4 DEF Started
<1>. QED BY <1>4, <1>5

(* A step that does nothing but start a command. *)
Starts(s, c, l) ==
  /\ Started(s, c) /\ call = NoCall /\ pc' = l
  /\ UNCHANGED <<op, reply, local, last, quoted, ops>>
  /\ UNCHANGED <<faults, tree, mapper, config, cwd, listed, cacheOn, crashed>>

LEMMA RunFacts ==
  ASSUME StepInv, NEW s \in Sites, NEW c \in Command, NEW l \in Places, Run(s, c, l),
         cache' \in Listings
  PROVE  TypeInv' /\ TriesInv' /\ Starts(s, c, l)
<1>1. /\ DoCommand(s, c) /\ pc' = l
      /\ UNCHANGED <<op, reply, local, last, quoted, ops>>
      /\ UNCHANGED <<faults, tree, mapper, config, cwd, listed, cacheOn, crashed>>
  BY Zenon DEF Run, Step
<1>2. Started(s, c) /\ TriesInv' /\ call = NoCall
  BY <1>1, DoCommandFacts
<1>3. SessionTypes'
  BY <1>1, <1>2 DEF SessionTypes, StepInv, TypeInv, Started
<1>4. OpTypes'
  BY <1>1 DEF OpTypes, StepInv, TypeInv
<1>. QED BY <1>1, <1>2, <1>3, <1>4 DEF TypeInv, Starts

LEMMA ReturnFacts ==
  ASSUME StepInv, NEW r \in Replies, NEW loc \in SUBSET Things, Return(r, loc),
         call = NoCall, cache' \in Listings
  PROVE  /\ StepInv' /\ pc' = "idle" /\ reply' = r /\ call' = NoCall
         /\ local' = IF op.kind = "ren" THEN {} ELSE loc
         /\ UNCHANGED <<op, last, quoted, ops>>
         /\ UNCHANGED <<faults, tree, mapper, config, cwd, listed, cacheOn, crashed>>
<1>1. /\ pc' = "idle" /\ reply' = r /\ call' = call /\ ret' = NoResult
      /\ local' = IF op.kind = "ren" THEN {} ELSE loc
      /\ UNCHANGED <<op, last, quoted, ops>>
      /\ UNCHANGED <<faults, tree, mapper, config, cwd, listed, cacheOn, crashed>>
  BY Zenon DEF Return
<1>2. SessionTypes'
  BY <1>1 DEF SessionTypes, StepInv, TypeInv, NoResult, Result
<1>3. OpTypes'
  BY <1>1 DEF OpTypes, StepInv, TypeInv, Places, Quiet
<1>4. CallInv' /\ TriesInv'
  BY <1>1 DEF CallInv, TriesInv
<1>5. KindInv'
  BY <1>1 DEF KindInv, StepInv
<1>. QED BY <1>1, <1>2, <1>3, <1>4, <1>5 DEF StepInv, TypeInv

LEMMA FoundFacts ==
  ASSUME StepInv, NEW names \in SUBSET Names, Found(names), call = NoCall,
         pc \in {"exists", "listed"}, cache' \in Listings
  PROVE  /\ StepInv' /\ pc' = "decide" /\ call' = NoCall
         /\ op' = [op EXCEPT !.exists = op.dest[2] \in names]
         /\ op' \in Op /\ op'.kind = op.kind /\ op'.from = op.from /\ op'.path = op.path
         /\ op'.to = op.to /\ op'.dest = op.dest /\ op'.move = op.move
         /\ op'.force = op.force /\ op'.content = op.content /\ op'.before = op.before
         /\ op'.exists = (op.dest[2] \in names)
         /\ UNCHANGED <<reply, local, last, quoted, ops>>
         /\ UNCHANGED <<faults, tree, mapper, config, cwd, listed, cacheOn, crashed>>
<1>1. /\ pc' = "decide" /\ op' = [op EXCEPT !.exists = op.dest[2] \in names]
      /\ UNCHANGED <<reply, local, last, quoted, ops>> /\ UNCHANGED <<call, ret>>
      /\ UNCHANGED <<faults, tree, mapper, config, cwd, listed, cacheOn, crashed>>
  BY Zenon DEF Found
<1>2. op \in Op /\ (op.dest[2] \in names) \in BOOLEAN
  BY DEF StepInv, TypeInv, OpTypes
<1>3. /\ op' \in Op /\ op'.kind = op.kind /\ op'.from = op.from /\ op'.path = op.path
      /\ op'.to = op.to /\ op'.dest = op.dest /\ op'.move = op.move
      /\ op'.force = op.force /\ op'.content = op.content /\ op'.before = op.before
      /\ op'.exists = (op.dest[2] \in names)
  BY <1>1, <1>2 DEF Op
<1>4. SessionTypes'
  BY <1>1 DEF SessionTypes, StepInv, TypeInv
<1>5. OpTypes'
  BY <1>1, <1>3 DEF OpTypes, StepInv, TypeInv, Places, Quiet
<1>6. CallInv' /\ TriesInv'
  BY <1>1 DEF CallInv, TriesInv
<1>7. KindInv'
  BY <1>1, <1>3 DEF KindInv, StepInv, ShortWay
<1>. QED BY <1>1, <1>3, <1>4, <1>5, <1>6, <1>7 DEF StepInv, TypeInv

LEMMA CacheTypes ==
  ASSUME StepInv
  PROVE  /\ cache \in Listings
         /\ \A s, p : \A c \in Listings : Erase(c, s, p) \in Listings
         /\ \A s, p : RemoveName(cache, s, p) \in Listings
         /\ \A s, d : \A names \in SUBSET Names : UpdateDirCache(s, d, names) \in Listings
<1>1. cache \in Listings
  BY DEF StepInv, TypeInv, SessionTypes
<1>2. \A s, p : \A c \in Listings : Erase(c, s, p) \in Listings
  BY DEF Erase, Listings
<1>3. ASSUME NEW s, NEW p PROVE RemoveName(cache, s, p) \in Listings
  <2>1. CASE cache[s][p[1]] = NotCached
    BY <1>1, <2>1 DEF RemoveName
  <2>2. CASE cache[s][p[1]] # NotCached /\ s \in Sites /\ p[1] \in Dirs
    <3>1. cache[s][p[1]] \subseteq Names
      BY <1>1, <2>2 DEF Listings
    <3>. QED BY <1>1, <2>2, <3>1 DEF RemoveName, Listings
  <2>3. CASE cache[s][p[1]] # NotCached /\ ~(s \in Sites /\ p[1] \in Dirs)
    BY <1>1, <2>3 DEF RemoveName, Listings
  <2>. QED BY <2>1, <2>2, <2>3
<1>4. ASSUME NEW s, NEW d, NEW names \in SUBSET Names
      PROVE  UpdateDirCache(s, d, names) \in Listings
  BY <1>1 DEF UpdateDirCache, Listings, EmptyCache
<1>. QED BY <1>1, <1>2, <1>3, <1>4

(* The command that a step starts is the one of the place it goes to.      *)
LEMMA StartsStep ==
  ASSUME StepInv, NEW s, NEW c, NEW l \in Places \ Quiet, TypeInv', TriesInv', KindInv',
         Starts(s, c, l),
         \/ l = "listed" /\ s = op.to /\ c = LsDest
         \/ l = "target gone" /\ s = op.to /\ c = RmDest
         \/ l = "moved" /\ s = op.to /\ c = MvToDest
         \/ l = "get" /\ s = op.from /\ c = ConnectOnly
         \/ l = "got" /\ s = op.from /\ c = GetSource
         \/ l = "put" /\ s = op.to /\ c = ConnectOnly
         \/ l = "stored" /\ s = op.to /\ c = PutDest
         \/ /\ l = "done" /\ s = op.to
            /\ c = IF op.kind = "quote" THEN RelativeCommand ELSE OnDest
         \/ l = "in dir" /\ s = op.to /\ c = CdDest
  PROVE  StepInv'
<1>1. /\ UNCHANGED <<op, local>> /\ pc' = l /\ ret'.got = {}
      /\ call' # NoCall => call'.site = s /\ call'.cmd = c
  BY DEF Starts, Started
<1>2. /\ LsDest' = LsDest /\ RmDest' = RmDest /\ RmSource' = RmSource
      /\ MvToDest' = MvToDest /\ GetSource' = GetSource /\ PutDest' = PutDest
      /\ CdDest' = CdDest /\ OnDest' = OnDest /\ RelativeCommand' = RelativeCommand
  BY <1>1 DEF LsDest, RmDest, RmSource, MvToDest, GetSource, PutDest, CdDest, OnDest,
     RelativeCommand
<1>3. CallInv'
  BY <1>1, <1>2 DEF CallInv, Does, Quiet
<1>. QED BY <1>3 DEF StepInv

LEMMA LookOnServerStep ==
  ASSUME StepInv, LookOnServer
  PROVE  StepInv' /\ Starts(op.to, LsDest, "listed") /\ cache' = cache /\ pc = "exists"
<1>1. At("exists") /\ Run(op.to, LsDest, "listed") /\ cache' = cache
  BY DEF LookOnServer, LsDest
<1>2. TypeInv' /\ TriesInv' /\ Starts(op.to, LsDest, "listed")
  BY <1>1, RunFacts, OpParts, CommandTypes, CacheTypes DEF StepInv, Places
<1>3. KindInv'
  BY <1>1, <1>2 DEF KindInv, StepInv, Starts, At, ShortWay
<1>. QED BY <1>1, <1>2, <1>3, StartsStep DEF At, Places, Quiet

LEMMA RenameStep ==
  ASSUME StepInv, RenameDirectly \/ RenameAfterRemove
  PROVE  /\ StepInv' /\ Starts(op.to, MvToDest, "moved") /\ cache' = cache
         /\ (pc = "decide" /\ ~op.exists) \/ pc = "target gone"
         /\ ShortWay
<1>1. /\ Run(op.to, MvToDest, "moved") /\ cache' = cache
      /\ (pc = "decide" /\ ShortWay /\ ~op.exists) \/ pc = "target gone"
  BY Zenon DEF RenameDirectly, RenameAfterRemove, MvToDest, MayWrite, At
<1>2. TypeInv' /\ TriesInv' /\ Starts(op.to, MvToDest, "moved")
  BY <1>1, RunFacts, OpParts, CommandTypes, CacheTypes DEF StepInv, Places
<1>3. ShortWay
  BY <1>1 DEF StepInv, KindInv
<1>4. KindInv'
  BY <1>2, <1>3 DEF KindInv, StepInv, Starts, ShortWay
<1>. QED BY <1>1, <1>2, <1>3, <1>4, StartsStep DEF Places, Quiet

LEMMA RemoveTargetStep ==
  ASSUME StepInv, RemoveTarget
  PROVE  /\ StepInv' /\ Starts(op.to, RmDest, "target gone") /\ pc = "decide"
         /\ ShortWay /\ op.exists /\ cache' = Erase(cache, op.to, op.dest)
<1>1. /\ Run(op.to, RmDest, "target gone") /\ cache' = Erase(cache, op.to, op.dest)
      /\ pc = "decide" /\ ShortWay /\ op.exists
  BY Zenon DEF RemoveTarget, RmDest, MayWrite, At, EraseListing
<1>2. TypeInv' /\ TriesInv' /\ Starts(op.to, RmDest, "target gone")
  BY <1>1, RunFacts, OpParts, CommandTypes, CacheTypes DEF StepInv, Places
<1>3. KindInv'
  BY <1>1, <1>2 DEF KindInv, StepInv, Starts, ShortWay
<1>. QED BY <1>1, <1>2, <1>3, StartsStep DEF Places, Quiet

LEMMA GetAsciiStep ==
  ASSUME StepInv, GetAscii
  PROVE  /\ StepInv' /\ Starts(op.from, ConnectOnly, "get") /\ pc = "get ascii"
         /\ cache' = cache
<1>1. Run(op.from, ConnectOnly, "get") /\ cache' = cache /\ pc = "get ascii"
  BY DEF GetAscii, At
<1>2. TypeInv' /\ TriesInv' /\ Starts(op.from, ConnectOnly, "get")
  BY <1>1, RunFacts, OpParts, CommandTypes, CacheTypes DEF StepInv, Places
<1>3. KindInv'
  BY <1>1, <1>2 DEF KindInv, StepInv, Starts, ShortWay
<1>. QED BY <1>1, <1>2, <1>3, StartsStep DEF Places, Quiet

LEMMA StartGetStep ==
  ASSUME StepInv, StartGet
  PROVE  /\ StepInv' /\ Starts(op.from, GetSource, "got") /\ pc = "get" /\ cache' = cache
<1>1. Run(op.from, GetSource, "got") /\ cache' = cache /\ pc = "get"
  BY DEF StartGet, At, GetSource
<1>2. TypeInv' /\ TriesInv' /\ Starts(op.from, GetSource, "got")
  BY <1>1, RunFacts, OpParts, CommandTypes, CacheTypes DEF StepInv, Places
<1>3. KindInv'
  BY <1>1, <1>2 DEF KindInv, StepInv, Starts, ShortWay
<1>. QED BY <1>1, <1>2, <1>3, StartsStep DEF Places, Quiet

LEMMA PutAsciiStep ==
  ASSUME StepInv, PutAscii
  PROVE  /\ StepInv' /\ Starts(op.to, ConnectOnly, "put") /\ pc = "decide"
         /\ cache' = cache /\ (op.kind = "put" \/ local # {})
<1>1. /\ Run(op.to, ConnectOnly, "put") /\ cache' = cache /\ pc = "decide"
      /\ ~op.exists \/ op.force
      /\ op.kind = "put" \/ local # {}
      /\ op.kind # "list"
  BY Zenon DEF PutAscii, At, MayWrite
<1>2. TypeInv' /\ TriesInv' /\ Starts(op.to, ConnectOnly, "put")
  BY <1>1, RunFacts, OpParts, CommandTypes, CacheTypes DEF StepInv, Places
<1>3. ~ShortWay /\ op.kind \in {"put", "ren"}
  BY <1>1 DEF StepInv, KindInv, ShortWay
<1>4. KindInv'
  BY <1>1, <1>2, <1>3 DEF KindInv, StepInv, Starts, ShortWay
<1>. QED BY <1>1, <1>2, <1>4, StartsStep DEF Places, Quiet

LEMMA StartPutStep ==
  ASSUME StepInv, StartPut
  PROVE  /\ StepInv' /\ Starts(op.to, PutDest, "stored") /\ pc = "put" /\ call = NoCall
         /\ cache' = cache /\ local # {} /\ mapper[op.to] = "up"
<1>1. /\ Run(op.to, PutDest, "stored") /\ cache' = cache /\ pc = "put" /\ call = NoCall
      /\ local # {} /\ mapper[op.to] = "up"
  BY DEF StartPut, At, PutDest
<1>2. TypeInv' /\ TriesInv' /\ Starts(op.to, PutDest, "stored")
  BY <1>1, RunFacts, OpParts, CommandTypes, CacheTypes DEF StepInv, Places
<1>3. KindInv'
  BY <1>1, <1>2 DEF KindInv, StepInv, Starts, ShortWay
<1>. QED BY <1>1, <1>2, <1>3, StartsStep DEF Places, Quiet

LEMMA StartRemoveStep ==
  ASSUME StepInv, StartRemove
  PROVE  /\ StepInv' /\ Starts(op.to, OnDest, "done") /\ op.kind \in {"rm", "rmdir"}
         /\ pc = op.kind /\ cache' = Erase(cache, op.to, op.dest)
<1>1. PICK kind \in {"rm", "rmdir"} :
        pc = kind /\ Run(op.to, [do |-> kind, path |-> op.dest], "done")
  BY DEF StartRemove, At
<1>2. op.kind = pc /\ OnDest = [do |-> pc, path |-> op.dest]
  BY <1>1 DEF StepInv, KindInv, OnDest
<1>3. cache' = Erase(cache, op.to, op.dest)
  BY DEF StartRemove, EraseListing
<1>4. TypeInv' /\ TriesInv' /\ Starts(op.to, OnDest, "done")
  BY <1>1, <1>2, <1>3, RunFacts, OpParts, CommandTypes, CacheTypes DEF StepInv, Places
<1>5. KindInv'
  BY <1>1, <1>2, <1>4 DEF KindInv, StepInv, Starts, ShortWay
<1>. QED BY <1>1, <1>2, <1>3, <1>4, <1>5, StartsStep DEF Places, Quiet

LEMMA StartMkDirStep ==
  ASSUME StepInv, StartMkDir
  PROVE  /\ StepInv' /\ Starts(op.to, OnDest, "done") /\ op.kind = "mkdir"
         /\ pc = "mkdir" /\ cache' = cache
<1>1. /\ pc = "mkdir" /\ Run(op.to, [do |-> "mkdir", path |-> op.dest], "done")
      /\ cache' = cache
  BY DEF StartMkDir, At
<1>2. op.kind = "mkdir" /\ OnDest = [do |-> "mkdir", path |-> op.dest]
  BY <1>1 DEF StepInv, KindInv, OnDest
<1>3. TypeInv' /\ TriesInv' /\ Starts(op.to, OnDest, "done")
  BY <1>1, <1>2, RunFacts, OpParts, CommandTypes, CacheTypes DEF StepInv, Places
<1>4. KindInv'
  BY <1>1, <1>2, <1>3 DEF KindInv, StepInv, Starts, ShortWay
<1>. QED BY <1>1, <1>2, <1>3, <1>4, StartsStep DEF Places, Quiet

LEMMA ChangeDirStep ==
  ASSUME StepInv, ChangeDir
  PROVE  StepInv' /\ Starts(op.to, CdDest, "in dir") /\ pc = "quote" /\ cache' = cache
<1>1. Run(op.to, CdDest, "in dir") /\ cache' = cache /\ pc = "quote"
  BY DEF ChangeDir, At, CdDest
<1>2. TypeInv' /\ TriesInv' /\ Starts(op.to, CdDest, "in dir")
  BY <1>1, RunFacts, OpParts, CommandTypes, CacheTypes DEF StepInv, Places
<1>3. KindInv'
  BY <1>1, <1>2 DEF KindInv, StepInv, Starts, ShortWay
<1>. QED BY <1>1, <1>2, <1>3, StartsStep DEF Places, Quiet

LEMMA ExecuteStep ==
  ASSUME StepInv, Execute
  PROVE  /\ StepInv' /\ Starts(op.to, RelativeCommand, "done") /\ pc = "in dir"
         /\ Succeeded /\ cache' = cache /\ op.kind = "quote"
<1>1. /\ Run(op.to, RelativeCommand, "done") /\ cache' = cache /\ pc = "in dir"
      /\ Succeeded
  BY DEF Execute, At, Succeeded
<1>2. op.kind = "quote"
  BY <1>1 DEF StepInv, KindInv
<1>3. TypeInv' /\ TriesInv' /\ Starts(op.to, RelativeCommand, "done")
  BY <1>1, RunFacts, OpParts, CommandTypes, CacheTypes DEF StepInv, Places
<1>4. KindInv'
  BY <1>1, <1>2, <1>3 DEF KindInv, StepInv, Starts, ShortWay
<1>. QED BY <1>1, <1>2, <1>3, <1>4, StartsStep DEF Places, Quiet

(* The steps that do not start a command. *)
LEMMA SlowWayStep ==
  ASSUME StepInv, SlowWay
  PROVE  /\ StepInv' /\ pc = "decide" /\ pc' = "get ascii" /\ op.kind = "ren" /\ ~ShortWay
         /\ local = {} /\ call = NoCall
         /\ UNCHANGED <<op, reply, local, last, quoted, ops>> /\ UNCHANGED sessionVars
<1>1. /\ pc = "decide" /\ pc' = "get ascii" /\ op.kind = "ren" /\ ~ShortWay
      /\ local = {} /\ call = NoCall
      /\ UNCHANGED <<op, reply, local, last, quoted, ops>> /\ UNCHANGED sessionVars
  BY Zenon DEF SlowWay, Step, MayWrite, At
<1>2. UNCHANGED <<faults, tree, mapper, config, cwd, listed, cacheOn, cache, call, ret, crashed>>
  BY <1>1 DEF sessionVars, session
<1>3. TypeInv'
  <2>1. SessionTypes'
    BY <1>2 DEF StepInv, TypeInv, SessionTypes
  <2>2. OpTypes'
    BY <1>1 DEF StepInv, TypeInv, OpTypes, Places, Quiet
  <2>. QED BY <2>1, <2>2 DEF TypeInv
<1>4. CallInv' /\ TriesInv'
  BY <1>1, <1>2 DEF CallInv, TriesInv
<1>5. KindInv'
  BY <1>1 DEF KindInv, StepInv, ShortWay
<1>. QED BY <1>1, <1>3, <1>4, <1>5 DEF StepInv

LEMMA WrittenType ==
  ASSUME StepInv, pc = "got"
  PROVE  Written \subseteq Things
BY DEF StepInv, CallInv, TypeInv, OpTypes, Written

LEMMA GotAndRemoveStep ==
  ASSUME StepInv, GotAndRemove
  PROVE  /\ StepInv' /\ Started(op.from, RmSource) /\ pc = "got" /\ Succeeded /\ op.move
         /\ pc' = "source gone" /\ local' = Written
         /\ cache' = Erase(cache, op.from, op.path)
         /\ UNCHANGED <<op, reply, last, quoted, ops>>
         /\ UNCHANGED <<faults, tree, mapper, config, cwd, listed, cacheOn, crashed>>
<1>1. /\ pc = "got" /\ Succeeded /\ op.move /\ DoCommand(op.from, RmSource)
      /\ pc' = "source gone" /\ local' = Written
      /\ cache' = Erase(cache, op.from, op.path)
      /\ UNCHANGED <<op, reply, last, quoted, ops>>
      /\ UNCHANGED <<faults, tree, mapper, config, cwd, listed, cacheOn, crashed>>
  BY Zenon DEF GotAndRemove, At, Succeeded, RmSource, EraseListing
<1>2. Started(op.from, RmSource) /\ TriesInv'
  BY <1>1, DoCommandFacts, OpParts, CommandTypes DEF StepInv
<1>3. TypeInv'
  <2>1. cache' \in Listings
    BY <1>1, CacheTypes
  <2>2. SessionTypes'
    BY <1>1, <1>2, <2>1 DEF StepInv, TypeInv, SessionTypes, Started
  <2>3. OpTypes'
    BY <1>1, WrittenType DEF StepInv, TypeInv, OpTypes, Places, Quiet
  <2>. QED BY <2>2, <2>3 DEF TypeInv
<1>4. CallInv'
  <2>1. RmSource' = RmSource
    BY <1>1 DEF RmSource
  <2>. QED BY <1>1, <1>2, <2>1 DEF CallInv, Does, Started, Quiet
<1>5. KindInv'
  BY <1>1 DEF KindInv, StepInv, ShortWay
<1>. QED BY <1>1, <1>2, <1>3, <1>4, <1>5 DEF StepInv

(* A copy between servers goes on with the target. *)
LEMMA GoesOnWithTarget ==
  ASSUME StepInv, call = NoCall, pc \in {"got", "source gone"}, op.kind = "ren",
         pc' = "exists", local' \subseteq Things,
         UNCHANGED <<sessionVars, op, reply, last, quoted, ops>>
  PROVE  StepInv'
<1>1. UNCHANGED <<faults, tree, mapper, config, cwd, listed, cacheOn, cache, call, ret, crashed>>
  BY DEF sessionVars, session
<1>2. SessionTypes'
  BY <1>1 DEF StepInv, TypeInv, SessionTypes
<1>3. OpTypes'
  BY DEF StepInv, TypeInv, OpTypes, Places, Quiet
<1>4. CallInv' /\ TriesInv'
  BY <1>1 DEF CallInv, TriesInv
<1>5. KindInv'
  BY DEF KindInv, StepInv, ShortWay
<1>. QED BY <1>2, <1>3, <1>4, <1>5 DEF StepInv, TypeInv

Returns(r, loc) ==
  /\ call = NoCall /\ call' = NoCall
  /\ pc' = "idle" /\ reply' = r
  /\ local' = IF op.kind = "ren" THEN {} ELSE loc
  /\ UNCHANGED <<op, last, quoted, ops>>
  /\ UNCHANGED <<faults, tree, mapper, config, cwd, listed, cacheOn, crashed>>

LEMMA ReturnsStep ==
  ASSUME StepInv, NEW r \in Replies, NEW loc \in SUBSET Things, Return(r, loc),
         call = NoCall, cache' \in Listings
  PROVE  StepInv' /\ Returns(r, loc)
BY ReturnFacts, Zenon DEF Returns

LEMMA LocalType == StepInv => local \in SUBSET Things
BY DEF StepInv, TypeInv, OpTypes

LEMMA ListDoneStep ==
  ASSUME StepInv, ListDone
  PROVE  /\ StepInv' /\ \E r \in Replies : Returns(r, local)
         /\ cache' = cache /\ op.kind = "list"
<1>1. /\ call = NoCall /\ op.kind = "list" /\ cache' = cache
      /\ Return("FAILED", local) \/ Return("OK", local)
  BY Zenon DEF ListDone, At
<1>. QED BY <1>1, ReturnsStep, LocalType, CacheTypes DEF Replies

LEMMA AskFirstStep ==
  ASSUME StepInv, AskFirst
  PROVE  /\ StepInv' /\ Returns("EXISTS", local) /\ cache' = cache
         /\ pc = "decide" /\ op.exists /\ op.kind # "list"
<1>1. /\ call = NoCall /\ pc = "decide" /\ op.exists /\ op.kind # "list"
      /\ cache' = cache /\ Return("EXISTS", local)
  BY Zenon DEF AskFirst, At
<1>. QED BY <1>1, ReturnsStep, LocalType, CacheTypes DEF Replies

LEMMA RenamedStep ==
  ASSUME StepInv, Renamed
  PROVE  /\ StepInv' /\ Returns(IF ret.ok THEN "OK" ELSE "ERROR", local) /\ pc = "moved"
         /\ cache' = IF ret.ok THEN MovedListings ELSE cache
<1>1. /\ call = NoCall /\ pc = "moved"
      /\ Return(IF ret.ok THEN "OK" ELSE "ERROR", local)
      /\ cache' = IF ret.ok THEN MovedListings ELSE cache
  BY Zenon DEF Renamed, At
<1>2. MovedListings \in Listings /\ cache \in Listings
  BY CacheTypes DEF MovedListings
<1>. QED BY <1>1, <1>2, ReturnsStep, LocalType DEF Replies

LEMMA GetFailedStep ==
  ASSUME StepInv, GetFailed
  PROVE  /\ StepInv' /\ Returns("FAILED", Written) /\ pc = "got" /\ cache' = cache
<1>1. call = NoCall /\ pc = "got" /\ cache' = cache /\ Return("FAILED", Written)
  BY Zenon DEF GetFailed, At
<1>. QED BY <1>1, ReturnsStep, WrittenType, CacheTypes DEF Replies

LEMMA SourceStaysStep ==
  ASSUME StepInv, SourceStays
  PROVE  /\ StepInv' /\ Returns("NOTFOUND", local) /\ pc = "source gone" /\ cache' = cache
<1>1. call = NoCall /\ pc = "source gone" /\ cache' = cache /\ Return("NOTFOUND", local)
  BY Zenon DEF SourceStays, At
<1>. QED BY <1>1, ReturnsStep, LocalType, CacheTypes DEF Replies

LEMMA PutUnreadableStep ==
  ASSUME StepInv, PutUnreadable
  PROVE  /\ StepInv' /\ Returns("FAILED", local) /\ pc = "put" /\ cache' = cache
<1>1. call = NoCall /\ pc = "put" /\ cache' = cache /\ Return("FAILED", local)
  BY Zenon DEF PutUnreadable, At
<1>. QED BY <1>1, ReturnsStep, LocalType, CacheTypes DEF Replies

LEMMA StoredStep ==
  ASSUME StepInv, Stored
  PROVE  /\ StepInv' /\ Returns("OK", IF op.move THEN {} ELSE local)
         /\ pc = "stored" /\ Succeeded /\ cache' = Erase(cache, op.to, op.dest)
<1>1. /\ call = NoCall /\ pc = "stored" /\ Succeeded
      /\ Return("OK", IF op.move THEN {} ELSE local)
      /\ cache' = Erase(cache, op.to, op.dest)
  BY Zenon DEF Stored, At, Succeeded, EraseListing
<1>2. (IF op.move THEN {} ELSE local) \in SUBSET Things
  BY LocalType
<1>. QED BY <1>1, <1>2, ReturnsStep, CacheTypes DEF Replies

LEMMA NotStoredStep ==
  ASSUME StepInv, NotStored
  PROVE  /\ StepInv' /\ Returns("FAILED", local) /\ pc = "stored" /\ cache' = cache
         /\ ~Succeeded
<1>1. /\ call = NoCall /\ pc = "stored" /\ cache' = cache /\ Return("FAILED", local)
      /\ ~Succeeded
  BY Zenon DEF NotStored, At, Succeeded
<1>. QED BY <1>1, ReturnsStep, LocalType, CacheTypes DEF Replies

LEMMA DoneStep ==
  ASSUME StepInv, Done
  PROVE  /\ StepInv' /\ Returns(IF ret.ok THEN "OK" ELSE "FAILED", local) /\ pc = "done"
         /\ cache' = IF op.kind = "mkdir" /\ ret.ok THEN Erase(cache, op.to, op.dest)
                     ELSE cache
<1>1. /\ call = NoCall /\ pc = "done"
      /\ Return(IF ret.ok THEN "OK" ELSE "FAILED", local)
      /\ cache' = IF op.kind = "mkdir" /\ ret.ok THEN Erase(cache, op.to, op.dest)
                  ELSE cache
  BY Zenon DEF Done, At, EraseListing
<1>. QED BY <1>1, ReturnsStep, LocalType, CacheTypes DEF Replies

LEMMA NotInDirStep ==
  ASSUME StepInv, NotInDir
  PROVE  /\ StepInv' /\ Returns("FAILED", local) /\ pc = "in dir" /\ cache' = cache
<1>1. call = NoCall /\ pc = "in dir" /\ cache' = cache /\ Return("FAILED", local)
  BY Zenon DEF NotInDir, At
<1>. QED BY <1>1, ReturnsStep, LocalType, CacheTypes DEF Replies

(* A get that has succeeded: the operation returns, or goes on.            *)
Fetched(loc) ==
  /\ call = NoCall /\ call' = NoCall /\ cache' = cache /\ local' = loc
  /\ \/ op.kind = "get" /\ pc' = "idle" /\ reply' = "OK"
     \/ op.kind = "ren" /\ pc' = "exists"
  /\ UNCHANGED op
  /\ UNCHANGED <<faults, tree, mapper, config, cwd, listed, cacheOn, crashed>>

LEMMA FetchedStep ==
  ASSUME StepInv, NEW loc \in SUBSET Things, call = NoCall, pc \in {"got", "source gone"},
         GetReturns(loc)
  PROVE  StepInv' /\ Fetched(loc)
<1>1. CASE op.kind = "get"
  <2>1. Return("OK", loc) /\ cache' = cache
    BY <1>1, Zenon DEF GetReturns
  <2>2. StepInv' /\ Returns("OK", loc)
    BY <2>1, ReturnsStep, CacheTypes DEF Replies
  <2>3. local' = loc
    BY <1>1, <2>2 DEF Returns
  <2>. QED BY <1>1, <2>1, <2>2, <2>3, Zenon DEF Returns, Fetched
<1>2. CASE op.kind # "get"
  <2>1. pc' = "exists" /\ local' = loc /\ UNCHANGED <<sessionVars, op, reply, last, quoted, ops>>
    BY <1>2, Zenon DEF GetReturns
  <2>2. op.kind = "ren"
    BY <1>2 DEF StepInv, KindInv
  <2>3. StepInv'
    BY <2>1, <2>2, GoesOnWithTarget
  <2>4. UNCHANGED <<faults, tree, mapper, config, cwd, listed, cacheOn, cache, call, crashed>>
    BY <2>1 DEF sessionVars, session
  <2>. QED BY <2>1, <2>2, <2>3, <2>4 DEF Fetched
<1>. QED BY <1>1, <1>2

LEMMA GotStep ==
  ASSUME StepInv, Got
  PROVE  StepInv' /\ Fetched(Written) /\ pc = "got" /\ Succeeded /\ ~op.move
<1>1. call = NoCall /\ pc = "got" /\ Succeeded /\ ~op.move /\ GetReturns(Written)
  BY Zenon DEF Got, At, Succeeded
<1>. QED BY <1>1, FetchedStep, WrittenType

LEMMA SourceRemovedStep ==
  ASSUME StepInv, SourceRemoved
  PROVE  StepInv' /\ Fetched(local) /\ pc = "source gone" /\ Succeeded
<1>1. call = NoCall /\ pc = "source gone" /\ Succeeded /\ GetReturns(local)
  BY Zenon DEF SourceRemoved, At, Succeeded
<1>. QED BY <1>1, FetchedStep, LocalType

LEMMA PutNoMapperStep ==
  ASSUME StepInv, PutNoMapper
  PROVE  /\ StepInv' /\ pc = "put" /\ call = NoCall /\ mapper[op.to] # "up"
         /\ UNCHANGED opVars /\ crashed' = TRUE
         /\ UNCHANGED <<faults, tree, mapper, config, cwd, listed, cacheOn, cache, call, ret>>
<1>1. /\ pc = "put" /\ call = NoCall /\ mapper[op.to] # "up"
      /\ UNCHANGED opVars /\ crashed' = TRUE
      /\ UNCHANGED <<faults, tree, mapper, config, cwd, listed, cacheOn, cache, call, ret>>
  BY DEF PutNoMapper, At, session
<1>2. UNCHANGED <<op, pc, local>>
  BY <1>1 DEF opVars
<1>3. SessionTypes'
  <2>1. SessionTypes
    BY DEF StepInv, TypeInv
  <2>2. crashed' \in BOOLEAN
    BY <1>1
  <2>. QED BY <1>1, <2>1, <2>2 DEF SessionTypes
<1>4. TypeInv'
  BY <1>1, <1>3, OpTypesKept DEF StepInv, TypeInv
<1>5. CallInv'
  BY <1>1, <1>2 DEF StepInv, CallInv, Does
<1>6. TriesInv'
  BY <1>1 DEF TriesInv
<1>. QED BY <1>1, <1>4, <1>5, <1>6, KindKept DEF StepInv

(* The target has been looked up. *)
LooksUp(names) ==
  /\ call = NoCall /\ call' = NoCall /\ pc' = "decide"
  /\ op'.kind = op.kind /\ op'.from = op.from /\ op'.path = op.path
  /\ op'.to = op.to /\ op'.dest = op.dest /\ op'.move = op.move
  /\ op'.force = op.force /\ op'.content = op.content /\ op'.before = op.before
  /\ op'.exists = (op.dest[2] \in names)
  /\ UNCHANGED <<reply, local, last, quoted, ops>>
  /\ UNCHANGED <<faults, tree, mapper, config, cwd, listed, cacheOn, crashed>>

LEMMA LookInCacheStep ==
  ASSUME StepInv, LookInCache
  PROVE  /\ StepInv' /\ LooksUp(cache[op.to][op.dest[1]]) /\ pc = "exists"
         /\ cache[op.to][op.dest[1]] # NotCached /\ cacheOn[op.to] /\ cache' = cache
<1>1. /\ call = NoCall /\ pc = "exists" /\ cacheOn[op.to]
      /\ cache[op.to][op.dest[1]] # NotCached /\ cache' = cache
      /\ Found(cache[op.to][op.dest[1]])
  BY Zenon DEF LookInCache, At
<1>2. cache[op.to][op.dest[1]] \in SUBSET Names
  BY <1>1, OpParts, CacheTypes DEF StepInv, Listings
<1>. QED BY <1>1, <1>2, FoundFacts, CacheTypes DEF LooksUp

LEMMA ListedStep ==
  ASSUME StepInv, Listed
  PROVE  /\ StepInv' /\ LooksUp(ret.got) /\ pc = "listed" /\ Succeeded
         /\ ret.got \in SUBSET Names
         /\ cache' = UpdateDirCache(op.to, op.dest[1], ret.got)
<1>1. /\ call = NoCall /\ pc = "listed" /\ Succeeded /\ Found(ret.got)
      /\ cache' = UpdateDirCache(op.to, op.dest[1], ret.got)
  BY Zenon DEF Listed, At, Succeeded
<1>2. ret.got \in SUBSET Names
  BY <1>1 DEF StepInv, CallInv
<1>. QED BY <1>1, <1>2, FoundFacts, CacheTypes DEF LooksUp

LEMMA NotListedStep ==
  ASSUME StepInv, NotListed
  PROVE  StepInv' /\ LooksUp(Names) /\ pc = "listed" /\ cache' = cache
<1>1. call = NoCall /\ pc = "listed" /\ Found(Names) /\ cache' = cache
  BY Zenon DEF NotListed, At
<1>. QED BY <1>1, FoundFacts, CacheTypes DEF LooksUp

-----------------------------------------------------------------------------
(* Between operations. *)
Stay == /\ pc = "idle" /\ call = NoCall /\ call' = NoCall
        /\ UNCHANGED <<faults, tree, crashed>>
        /\ \A s \in Sites, d \in Dirs : cache'[s][d] \in {cache[s][d], NotCached}
        /\ quoted' = quoted \/ quoted' = TRUE

Begun ==
  /\ Stay /\ pc' \in {"exists", "get ascii", "rm", "rmdir", "mkdir", "quote"}
  /\ op' \in Op /\ op'.exists = FALSE /\ op'.before = tree[op'.to]
  /\ op'.kind = "put" => op'.content = {New} /\ local' \in {{New}, {}}
  /\ op'.kind \in {"get", "ren"} => op'.content = tree[op'.from][op'.path]
  /\ op'.kind = "ren" => local' = {}
  /\ UNCHANGED <<mapper, config, cwd, listed, cacheOn>>

Matching(kind, start, s, p, t, q) ==
  /\ \/ start = "exists" /\ kind \in {"list", "put", "ren"}
     \/ start = "get ascii" /\ kind = "get"
     \/ start \in {"rm", "rmdir", "mkdir", "quote"} /\ kind = start
  /\ IF kind = "ren" THEN <<s, p>> # <<t, q>> ELSE s = t /\ p = q

Lists ==
  /\ cache' \in Listings /\ last' \in { {} } \cup { {x} : x \in Sites \X Dirs }
  /\ \A s \in Sites, d \in Dirs : cache'[s][d] \in {cache[s][d], NotCached}

Takes(kind, s, p, content) ==
  /\ content \in SUBSET Things /\ local' \in SUBSET Things
  /\ IF kind = "quote" THEN quoted' = TRUE ELSE quoted' = quoted
  /\ kind = "put" => content = {New} /\ local' \in {{New}, {}}
  /\ kind \in {"get", "ren"} => content = tree[s][p]
  /\ kind = "ren" => local' = {}

LEMMA BeginFacts ==
  ASSUME StepInv, NEW kind, NEW start,
         NEW s \in Sites, NEW p \in Path, NEW t \in Sites, NEW q \in Path,
         NEW mv \in BOOLEAN, NEW fc \in BOOLEAN, NEW content,
         Begin(kind, s, p, t, q, mv, fc, content, start),
         Matching(kind, start, s, p, t, q), Lists, Takes(kind, s, p, content)
  PROVE  StepInv' /\ Begun
<1>1. /\ pc = "idle" /\ ~crashed /\ ops < MaxOps
      /\ op' = [ kind |-> kind, from |-> s, path |-> p, to |-> t, dest |-> q,
                 move |-> mv, force |-> fc, exists |-> FALSE,
                 content |-> content, before |-> tree[t] ]
      /\ pc' = start /\ ops' = ops + 1
      /\ UNCHANGED <<faults, tree, mapper, config, cwd, listed, cacheOn, call, ret,
                     crashed, reply>>
  BY Zenon DEF Begin, Ready
<1>2. call = NoCall
  BY <1>1 DEF StepInv, CallInv, Quiet
<1>3. kind \in Kinds /\ start \in {"exists", "get ascii", "rm", "rmdir", "mkdir", "quote"}
  BY DEF Matching, Kinds
<1>4. tree[t] \in Tree
  BY DEF StepInv, TypeInv, SessionTypes
<1>5. /\ op'.kind = kind /\ op'.from = s /\ op'.path = p /\ op'.to = t /\ op'.dest = q
      /\ op'.exists = FALSE /\ op'.content = content /\ op'.before = tree[t]
  BY <1>1
<1>6. op' \in Op
  BY <1>1, <1>3, <1>4 DEF Op, Tree, Takes
<1>7. SessionTypes'
  BY <1>1 DEF Lists, StepInv, TypeInv, SessionTypes
<1>8. quoted' \in BOOLEAN
  BY Zenon DEF StepInv, TypeInv, OpTypes, Takes
<1>9. OpTypes'
  <2>1. ops' \in 0 .. MaxOps
    BY <1>1, FileOpsAssumption DEF StepInv, TypeInv, OpTypes
  <2>2. pc' \in Places /\ reply' \in Replies
    BY <1>1, <1>3 DEF StepInv, TypeInv, OpTypes, Places, Quiet
  <2>3. local' \subseteq Things /\ last' \in { {} } \cup { {x} : x \in Sites \X Dirs }
    BY DEF Takes, Lists
  <2>. QED BY <1>6, <1>8, <2>1, <2>2, <2>3 DEF OpTypes
<1>10. CallInv' /\ TriesInv'
  BY <1>1, <1>2, <1>3 DEF CallInv, TriesInv
<1>11. KindInv'
  <2>1. /\ op'.kind = "ren" => <<op'.from, op'.path>> # <<op'.to, op'.dest>> /\ local' = {}
        /\ op'.kind # "ren" => op'.from = op'.to /\ op'.path = op'.dest
    BY <1>5 DEF Matching, Takes
  <2>2. op'.kind = "quote" => quoted'
    BY <1>5, Zenon DEF Takes
  <2>3. /\ pc' = "exists" => op'.kind \in {"list", "put", "ren"}
        /\ pc' = "get ascii" => op'.kind = "get"
        /\ pc' \in {"rm", "rmdir", "mkdir", "quote"} => op'.kind = pc'
    BY <1>1, <1>5 DEF Matching
  <2>. QED BY <1>1, <1>3, <2>1, <2>2, <2>3 DEF KindInv, ShortWay
<1>12. Begun
  <2>1. quoted' = quoted \/ quoted' = TRUE
    BY Zenon DEF Takes
  <2>2. Stay
    BY <1>1, <1>2, <2>1 DEF Stay, Lists
  <2>3. /\ op'.kind = "put" => op'.content = {New} /\ local' \in {{New}, {}}
        /\ op'.kind \in {"get", "ren"} => op'.content = tree[op'.from][op'.path]
        /\ op'.kind = "ren" => local' = {}
    BY <1>5 DEF Takes
  <2>. QED BY <1>1, <1>3, <1>5, <1>6, <2>2, <2>3 DEF Begun
<1>. QED BY <1>7, <1>9, <1>10, <1>11, <1>12 DEF StepInv, TypeInv

LEMMA ReloadTypes ==
  ASSUME StepInv, NoReload
  PROVE  Lists
BY CacheTypes DEF NoReload, Lists

LEMMA BeginListStep ==
  ASSUME StepInv, NEW s \in Sites, NEW d \in Dirs, BeginList(s, d)
  PROVE  StepInv' /\ Begun
<1>1. PICK n \in Names :
        Begin("list", s, <<d, n>>, s, <<d, n>>, FALSE, FALSE, {}, "exists")
  BY DEF BeginList
<1>2. /\ last' = {<<s, d>>} /\ local' = local /\ quoted' = quoted
      /\ cache' = cache \/ cache' = [cache EXCEPT ![s][d] = NotCached]
  BY DEF BeginList
<1>3. Lists
  <2>1. /\ cache' \in Listings
        /\ \A r \in Sites, e \in Dirs : cache'[r][e] \in {cache[r][e], NotCached}
    BY <1>2, CacheTypes DEF Listings
  <2>2. last' \in { {} } \cup { {x} : x \in Sites \X Dirs }
    BY <1>2
  <2>. QED BY <2>1, <2>2 DEF Lists
<1>4. Takes("list", s, <<d, n>>, {})
  BY <1>2, LocalType DEF Takes
<1>5. <<d, n>> \in Path /\ Matching("list", "exists", s, <<d, n>>, s, <<d, n>>)
  BY DEF Path, Matching
<1>. QED BY <1>1, <1>2, <1>3, <1>4, <1>5, BeginFacts

LEMMA BeginOpenPathStep ==
  ASSUME StepInv, NEW s \in Sites, NEW p \in Path, BeginOpenPath(s, p)
  PROVE  StepInv' /\ Begun
<1>1. /\ Begin("list", s, p, s, p, FALSE, FALSE, {}, "exists") /\ NoReload
      /\ UNCHANGED <<local, quoted>>
  BY DEF BeginOpenPath
<1>2. Matching("list", "exists", s, p, s, p)
  BY DEF Matching
<1>3. Takes("list", s, p, {})
  BY <1>1, LocalType DEF Takes
<1>. QED BY <1>1, <1>2, <1>3, ReloadTypes, BeginFacts

LEMMA BeginGetStep ==
  ASSUME StepInv, NEW s \in Sites, NEW p \in Path, NEW mv \in BOOLEAN, BeginGet(s, p, mv)
  PROVE  StepInv' /\ Begun
<1>1. /\ Begin("get", s, p, s, p, mv, TRUE, tree[s][p], "get ascii") /\ NoReload
      /\ local' \in {{}, {Part}} /\ quoted' = quoted
  BY DEF BeginGet
<1>2. Matching("get", "get ascii", s, p, s, p)
  BY DEF Matching
<1>3. Takes("get", s, p, tree[s][p])
  BY <1>1, ThingTypes DEF Takes, StepInv, TypeInv, SessionTypes, Tree
<1>. QED BY <1>1, <1>2, <1>3, ReloadTypes, BeginFacts

LEMMA BeginPutStep ==
  ASSUME StepInv, NEW t \in Sites, NEW q \in Path, NEW mv \in BOOLEAN, NEW fc \in BOOLEAN,
         BeginPut(t, q, mv, fc)
  PROVE  StepInv' /\ Begun
<1>1. /\ Begin("put", t, q, t, q, mv, fc, {New}, "exists") /\ NoReload
      /\ local' \in {{New}, {}} /\ quoted' = quoted
  BY DEF BeginPut
<1>2. Matching("put", "exists", t, q, t, q)
  BY DEF Matching
<1>3. Takes("put", t, q, {New})
  BY <1>1, ThingTypes DEF Takes
<1>. QED BY <1>1, <1>2, <1>3, ReloadTypes, BeginFacts

LEMMA BeginRenMovStep ==
  ASSUME StepInv, NEW s \in Sites, NEW p \in Path, NEW t \in Sites, NEW q \in Path,
         NEW mv \in BOOLEAN, NEW fc \in BOOLEAN, BeginRenMov(s, p, t, q, mv, fc)
  PROVE  StepInv' /\ Begun
<1>1. /\ Begin("ren", s, p, t, q, mv, fc, tree[s][p], "exists") /\ NoReload
      /\ <<s, p>> # <<t, q>> /\ local' = {} /\ quoted' = quoted
  BY DEF BeginRenMov
<1>2. Matching("ren", "exists", s, p, t, q)
  BY <1>1 DEF Matching
<1>3. Takes("ren", s, p, tree[s][p])
  BY <1>1 DEF Takes, StepInv, TypeInv, SessionTypes, Tree
<1>. QED BY <1>1, <1>2, <1>3, ReloadTypes, BeginFacts

LEMMA BeginOnPathStep ==
  ASSUME StepInv, NEW kind \in {"rm", "rmdir", "mkdir"}, NEW s \in Sites, NEW p \in Path,
         BeginOnPath(kind, s, p)
  PROVE  StepInv' /\ Begun
<1>1. /\ Begin(kind, s, p, s, p, FALSE, FALSE, {}, kind) /\ NoReload
      /\ UNCHANGED <<local, quoted>>
  BY DEF BeginOnPath
<1>2. Matching(kind, kind, s, p, s, p)
  BY DEF Matching
<1>3. Takes(kind, s, p, {})
  BY <1>1, LocalType DEF Takes
<1>. QED BY <1>1, <1>2, <1>3, ReloadTypes, BeginFacts

LEMMA BeginQuoteStep ==
  ASSUME StepInv, NEW s \in Sites, NEW p \in Path, BeginQuote(s, p)
  PROVE  StepInv' /\ Begun
<1>1. /\ Begin("quote", s, p, s, p, FALSE, FALSE, {}, "quote") /\ NoReload
      /\ quoted' = TRUE /\ local' = local
  BY DEF BeginQuote
<1>2. Matching("quote", "quote", s, p, s, p)
  BY DEF Matching
<1>3. Takes("quote", s, p, {})
  BY <1>1, LocalType DEF Takes
<1>. QED BY <1>1, <1>2, <1>3, ReloadTypes, BeginFacts

(* A session that has been up has its configuration. *)
Configured(s) == mapper[s] \in {"up", "broken"} => config[s]

(* What is done to a server without a command. *)

Aside ==
  /\ Stay /\ pc' = "idle"
  /\ UNCHANGED <<cwd, op, reply, local, quoted>>
  /\ \A s \in Sites : Configured(s) => Configured(s)'

LEMMA AsideFacts ==
  ASSUME StepInv, NEW s \in Sites, Other(s), last' \in {last, {}},
         mapper' \in [Sites -> {"none", "nodll", "loaded", "up", "broken"}],
         config' \in [Sites -> BOOLEAN], cacheOn' \in [Sites -> BOOLEAN],
         cache' \in Listings,
         \A r \in Sites, d \in Dirs : cache'[r][d] \in {cache[r][d], NotCached},
         \A r \in Sites : Configured(r) => Configured(r)'
  PROVE  StepInv' /\ Aside
<1>1. /\ pc = "idle" /\ ops < MaxOps /\ ops' = ops + 1
      /\ UNCHANGED <<faults, tree, cwd, listed, call, ret, crashed, op, pc, reply,
                     local, quoted>>
  BY Zenon DEF Other, Ready
<1>2. call = NoCall
  BY <1>1 DEF StepInv, CallInv, Quiet
<1>3. SessionTypes'
  BY <1>1 DEF StepInv, TypeInv, SessionTypes
<1>4. OpTypes'
  <2>1. ops' \in 0 .. MaxOps
    BY <1>1, FileOpsAssumption DEF StepInv, TypeInv, OpTypes
  <2>2. last' \in { {} } \cup { {x} : x \in Sites \X Dirs }
    BY DEF StepInv, TypeInv, OpTypes
  <2>. QED BY <1>1, <2>1, <2>2 DEF StepInv, TypeInv, OpTypes
<1>5. CallInv' /\ TriesInv'
  BY <1>1, <1>2 DEF CallInv, TriesInv, Quiet
<1>6. KindInv'
  BY <1>1 DEF StepInv, KindInv, ShortWay
<1>7. Aside
  BY <1>1, <1>2 DEF Aside, Stay
<1>. QED BY <1>3, <1>4, <1>5, <1>6, <1>7 DEF StepInv, TypeInv

LEMMA SessionParts ==
  StepInv => /\ mapper \in [Sites -> {"none", "nodll", "loaded", "up", "broken"}]
             /\ config \in [Sites -> BOOLEAN] /\ cacheOn \in [Sites -> BOOLEAN]
             /\ cache \in [Sites -> [Dirs -> (SUBSET Names) \cup {NotCached}]]
BY DEF StepInv, TypeInv, SessionTypes, Listings

LEMMA OpenStep ==
  ASSUME StepInv, NEW s \in Sites, Open(s)
  PROVE  StepInv' /\ Aside
<1>1. PICK m \in {"none", "nodll", "loaded", "up", "broken"} :
        /\ IsLoaded(s, m)
        /\ mapper' = [mapper EXCEPT ![s] = m]
        /\ config' = [config EXCEPT ![s] = @ \/ m # "nodll"]
  BY DEF Open
<1>2. Other(s) /\ last' \in {last, {}} /\ UNCHANGED <<cacheOn, cache>>
  BY DEF Open
<1>3. mapper' \in [Sites -> {"none", "nodll", "loaded", "up", "broken"}]
  BY <1>1, SessionParts
<1>4. config' \in [Sites -> BOOLEAN]
  <2>1. (config[s] \/ m # "nodll") \in BOOLEAN
    OBVIOUS
  <2>2. config' = [config EXCEPT ![s] = (config[s] \/ m # "nodll")]
    BY <1>1
  <2>. QED BY <2>1, <2>2, SessionParts
<1>5. /\ cacheOn' \in [Sites -> BOOLEAN] /\ cache' \in Listings
      /\ \A r \in Sites, d \in Dirs : cache'[r][d] \in {cache[r][d], NotCached}
  BY <1>2, SessionParts DEF Listings
<1>6. ASSUME NEW r \in Sites, Configured(r) PROVE Configured(r)'
  <2>1. CASE r = s
    <3>1. mapper'[r] = m /\ config'[r] = (config[s] \/ m # "nodll")
      BY <1>1, <2>1, SessionParts
    <3>2. m \in {"up", "broken"} => config'[r]
      BY <3>1
    <3>. QED BY <3>1, <3>2 DEF Configured
  <2>2. CASE r # s
    BY <1>1, <1>6, <2>2, SessionParts DEF Configured
  <2>. QED BY <2>1, <2>2
<1>. QED BY <1>2, <1>3, <1>4, <1>5, <1>6, AsideFacts

LEMMA ConfigureTypes ==
  ASSUME StepInv, NEW s \in Sites, Configure(s)
  PROVE  /\ config' \in [Sites -> BOOLEAN] /\ cacheOn' \in [Sites -> BOOLEAN]
         /\ cache' \in Listings
         /\ \A r \in Sites, d \in Dirs : cache'[r][d] \in {cache[r][d], NotCached}
<1>1. config' \in [Sites -> BOOLEAN]
  BY SessionParts DEF Configure
<1>2. cacheOn' \in [Sites -> BOOLEAN]
  <2>1. (s \in CachingSites) \in BOOLEAN
    OBVIOUS
  <2>2. cacheOn' = [cacheOn EXCEPT ![s] = (s \in CachingSites)]
    BY DEF Configure
  <2>. QED BY <2>1, <2>2, SessionParts
<1>3. cache' = cache \/ cache' = [cache EXCEPT ![s] = EmptyCache]
  BY DEF Configure
<1>4. /\ cache' \in Listings
      /\ \A r \in Sites, d \in Dirs : cache'[r][d] \in {cache[r][d], NotCached}
  BY <1>3, SessionParts DEF Listings, EmptyCache
<1>. QED BY <1>1, <1>2, <1>4

LEMMA PropertiesStep ==
  ASSUME StepInv, NEW s \in Sites, Properties(s)
  PROVE  StepInv' /\ Aside
<1>1. PICK m \in {"none", "nodll", "loaded", "up", "broken"} :
        /\ IsLoaded(s, m)
        /\ mapper' = [mapper EXCEPT ![s] = m]
        /\ \/ m # "nodll" /\ Configure(s)
           \/ (m = "nodll" \/ "cancelled" \in faults) /\ UNCHANGED <<config, cacheOn, cache>>
  BY DEF Properties
<1>2. Other(s) /\ last' \in {last, {}}
  BY DEF Properties
<1>3. mapper' \in [Sites -> {"none", "nodll", "loaded", "up", "broken"}]
  BY <1>1, SessionParts
<1>4. Configure(s) \/ UNCHANGED <<config, cacheOn, cache>>
  BY <1>1
<1>5. /\ config' \in [Sites -> BOOLEAN] /\ cacheOn' \in [Sites -> BOOLEAN]
      /\ cache' \in Listings
      /\ \A r \in Sites, d \in Dirs : cache'[r][d] \in {cache[r][d], NotCached}
  <2>1. CASE Configure(s)
    BY <2>1, ConfigureTypes
  <2>2. CASE UNCHANGED <<config, cacheOn, cache>>
    BY <2>2, SessionParts DEF Listings
  <2>. QED BY <1>4, <2>1, <2>2
<1>6. ASSUME NEW r \in Sites, Configured(r) PROVE Configured(r)'
  <2>1. config'[r] = config[r] \/ config'[r] = TRUE
    BY <1>4, SessionParts DEF Configure
  <2>2. mapper'[r] \in {"up", "broken"} => mapper[r] \in {"up", "broken"}
    BY <1>1, SessionParts DEF IsLoaded
  <2>. QED BY <1>6, <2>1, <2>2 DEF Configured
<1>. QED BY <1>2, <1>3, <1>5, <1>6, AsideFacts

LEMMA SwitchCacheStep ==
  ASSUME StepInv, NEW s \in Sites, SwitchCache(s)
  PROVE  StepInv' /\ Aside
<1>1. /\ Other(s) /\ last' \in {last, {}}
      /\ cache' = [cache EXCEPT ![s] = EmptyCache]
      /\ UNCHANGED <<mapper, config>>
  BY DEF SwitchCache
<1>2. cacheOn' \in [Sites -> BOOLEAN]
  BY SessionParts DEF SwitchCache
<1>3. /\ cache' \in Listings
      /\ \A r \in Sites, d \in Dirs : cache'[r][d] \in {cache[r][d], NotCached}
  BY <1>1, SessionParts DEF Listings, EmptyCache
<1>4. \A r \in Sites : Configured(r) => Configured(r)'
  BY <1>1 DEF Configured
<1>. QED BY <1>1, <1>2, <1>3, <1>4, SessionParts, AsideFacts

LEMMA DisconnectStep ==
  ASSUME StepInv, NEW s \in Sites, Disconnect(s)
  PROVE  StepInv' /\ Aside
<1>1. /\ Other(s) /\ last' \in {last, {}}
      /\ mapper' = [mapper EXCEPT ![s] = "none"]
      /\ config' = [config EXCEPT ![s] = FALSE]
      /\ cacheOn' = [cacheOn EXCEPT ![s] = FALSE]
      /\ cache' = [cache EXCEPT ![s] = EmptyCache]
  BY DEF Disconnect
<1>2. /\ mapper' \in [Sites -> {"none", "nodll", "loaded", "up", "broken"}]
      /\ config' \in [Sites -> BOOLEAN] /\ cacheOn' \in [Sites -> BOOLEAN]
  BY <1>1, SessionParts
<1>3. /\ cache' \in Listings
      /\ \A r \in Sites, d \in Dirs : cache'[r][d] \in {cache[r][d], NotCached}
  BY <1>1, SessionParts DEF Listings, EmptyCache
<1>4. \A r \in Sites : Configured(r) => Configured(r)'
  BY <1>1, SessionParts DEF Configured
<1>. QED BY <1>1, <1>2, <1>3, <1>4, AsideFacts

LEMMA BeginsStep ==
  ASSUME StepInv, Begins
  PROVE  StepInv' /\ (Begun \/ Aside)
<1>1. PICK s \in Sites, p \in Path :
        \/ BeginList(s, p[1]) \/ BeginOpenPath(s, p)
        \/ \E mv \in BOOLEAN : BeginGet(s, p, mv)
        \/ \E mv, fc \in BOOLEAN : BeginPut(s, p, mv, fc)
        \/ \E t \in Sites, q \in Path, mv, fc \in BOOLEAN : BeginRenMov(s, p, t, q, mv, fc)
        \/ \E kind \in {"rm", "rmdir", "mkdir"} : BeginOnPath(kind, s, p)
        \/ BeginQuote(s, p)
        \/ Open(s) \/ Properties(s) \/ SwitchCache(s) \/ Disconnect(s)
  BY DEF Begins
<1>2. p[1] \in Dirs
  BY DEF Path
<1>3. CASE BeginList(s, p[1])
  BY <1>2, <1>3, BeginListStep
<1>4. CASE BeginOpenPath(s, p)
  BY <1>4, BeginOpenPathStep
<1>5. CASE \E mv \in BOOLEAN : BeginGet(s, p, mv)
  BY <1>5, BeginGetStep
<1>6. CASE \E mv, fc \in BOOLEAN : BeginPut(s, p, mv, fc)
  BY <1>6, BeginPutStep
<1>7. CASE \E t \in Sites, q \in Path, mv, fc \in BOOLEAN : BeginRenMov(s, p, t, q, mv, fc)
  BY <1>7, BeginRenMovStep
<1>8. CASE \E kind \in {"rm", "rmdir", "mkdir"} : BeginOnPath(kind, s, p)
  BY <1>8, BeginOnPathStep
<1>9. CASE BeginQuote(s, p)
  BY <1>9, BeginQuoteStep
<1>10. CASE Open(s) \/ Properties(s) \/ SwitchCache(s) \/ Disconnect(s)
  BY <1>10, OpenStep, PropertiesStep, SwitchCacheStep, DisconnectStep
<1>. QED BY <1>1, <1>3, <1>4, <1>5, <1>6, <1>7, <1>8, <1>9, <1>10

-----------------------------------------------------------------------------
LEMMA InitStepInv == Init => StepInv
<1> SUFFICES ASSUME Init PROVE StepInv
  OBVIOUS
<1>1. /\ faults \in FaultSets /\ call = NoCall /\ ret = NoResult /\ crashed = FALSE
      /\ mapper = [s \in Sites |-> "none"] /\ config = [s \in Sites |-> FALSE]
      /\ cwd = [s \in Sites |-> Home] /\ listed = [s \in Sites |-> FALSE]
      /\ cacheOn = [s \in Sites |-> FALSE] /\ cache = [s \in Sites |-> EmptyCache]
  BY DEF Init, SessionInit
<1>2. tree \in [Sites -> Tree]
  <2>1. PICK place \in [Contents -> Spots], dir \in Spots :
          tree = [s \in Sites |-> [p \in Path |->
                    { c \in Contents : <<s, p>> \in place[c] }
                      \cup { x \in {Directory} : <<s, p>> \in dir }]]
    BY DEF Init, SessionInit
  <2>2. \A s \in Sites, p \in Path :
          { c \in Contents : <<s, p>> \in place[c] }
            \cup { x \in {Directory} : <<s, p>> \in dir } \subseteq Things
    BY DEF Things
  <2>. QED BY <2>1, <2>2 DEF Tree
<1>3. SessionTypes
  <2>1. cache \in Listings
    BY <1>1 DEF Listings, EmptyCache
  <2>2. ret \in Result
    BY <1>1 DEF Result, NoResult
  <2>. QED BY <1>1, <1>2, <2>1, <2>2, SessionAssumption DEF SessionTypes
<1>4. /\ pc = "idle" /\ reply = "OK" /\ local = {} /\ last = {} /\ quoted = FALSE /\ ops = 0
  BY DEF Init
<1>5. PICK s, p : /\ s = (CHOOSE t \in Sites : TRUE) /\ p = (CHOOSE q \in Path : TRUE)
                  /\ op = [ kind |-> "other", from |-> s, path |-> p, to |-> s, dest |-> p,
                            move |-> FALSE, force |-> FALSE, exists |-> FALSE,
                            content |-> {}, before |-> tree[s] ]
  BY Zenon DEF Init
<1>6. s \in Sites /\ p \in Path
  <2>1. (\E t \in Sites : TRUE) /\ (\E q \in Path : TRUE)
    <3>1. PICK t \in Sites, n \in Names : TRUE
      BY FileOpsAssumption
    <3>2. <<Home, n>> \in Path
      BY SessionAssumption DEF Path
    <3>. QED BY <3>1, <3>2
  <2>2. (CHOOSE t \in Sites : TRUE) \in Sites /\ (CHOOSE q \in Path : TRUE) \in Path
    BY <2>1, Zenon
  <2>. QED BY <1>5, <2>2
<1>7. op \in Op /\ op.kind = "other" /\ op.from = op.to /\ op.path = op.dest
  <2>1. tree[s] \in Tree
    BY <1>2, <1>6
  <2>2. op = [ kind |-> "other", from |-> s, path |-> p, to |-> s, dest |-> p,
               move |-> FALSE, force |-> FALSE, exists |-> FALSE,
               content |-> {}, before |-> tree[s] ]
    BY <1>5
  <2>3. op.kind = "other" /\ op.from = s /\ op.to = s /\ op.path = p /\ op.dest = p
    BY <2>2
  <2>4. op \in Op
    <3>1. "other" \in Kinds /\ {} \in SUBSET Things /\ FALSE \in BOOLEAN
      BY DEF Kinds
    <3>2. tree[s] \in [Path -> SUBSET Things]
      BY <2>1 DEF Tree
    <3>. QED BY <1>6, <2>2, <3>1, <3>2 DEF Op
  <2>. QED BY <2>3, <2>4
<1>8. OpTypes
  <2>1. pc \in Places /\ reply \in Replies
    BY <1>4 DEF Places, Quiet, Replies
  <2>2. local \subseteq Things /\ last \in { {} } \cup { {x} : x \in Sites \X Dirs }
    BY <1>4
  <2>3. quoted \in BOOLEAN
    BY <1>4
  <2>4. ops \in 0 .. MaxOps
    BY <1>4, FileOpsAssumption
  <2>. QED BY <1>7, <2>1, <2>2, <2>3, <2>4 DEF OpTypes
<1>9. CallInv /\ TriesInv
  BY <1>1, <1>4 DEF CallInv, TriesInv
<1>10. KindInv
  BY <1>4, <1>7 DEF KindInv
<1>. QED BY <1>3, <1>8, <1>9, <1>10 DEF StepInv, TypeInv

LEMMA StepsStep == StepInv /\ Steps => StepInv'
<1> SUFFICES ASSUME StepInv, Steps PROVE StepInv'
  OBVIOUS
<1>1. CASE LookInCache \/ LookOnServer \/ Listed \/ NotListed \/ ListDone \/ AskFirst
  BY <1>1, LookInCacheStep, LookOnServerStep, ListedStep, NotListedStep, ListDoneStep,
     AskFirstStep
<1>2. CASE RenameDirectly \/ RemoveTarget \/ RenameAfterRemove \/ Renamed \/ SlowWay
  BY <1>2, RenameStep, RemoveTargetStep, RenamedStep, SlowWayStep
<1>3. CASE GetAscii \/ StartGet \/ GetFailed \/ GotAndRemove \/ Got \/ SourceRemoved \/ SourceStays
  BY <1>3, GetAsciiStep, StartGetStep, GetFailedStep, GotAndRemoveStep, GotStep,
     SourceRemovedStep, SourceStaysStep
<1>4. CASE PutAscii \/ PutUnreadable \/ PutNoMapper \/ StartPut \/ Stored \/ NotStored
  BY <1>4, PutAsciiStep, PutUnreadableStep, PutNoMapperStep, StartPutStep, StoredStep,
     NotStoredStep
<1>5. CASE StartRemove \/ StartMkDir \/ Done \/ ChangeDir \/ Execute \/ NotInDir
  BY <1>5, StartRemoveStep, StartMkDirStep, DoneStep, ChangeDirStep, ExecuteStep,
     NotInDirStep
<1>. QED BY <1>1, <1>2, <1>3, <1>4, <1>5 DEF Steps

LEMMA Unchanged ==
  ASSUME UNCHANGED vars
  PROVE  /\ UNCHANGED <<op, pc, reply, local, last, quoted, ops>>
         /\ UNCHANGED <<faults, tree, mapper, config, cwd, listed, cacheOn, cache, call,
                        ret, crashed>>
BY DEF vars, opVars, sessionVars, session

LEMMA StutterStep == StepInv /\ UNCHANGED vars => StepInv'
<1> SUFFICES ASSUME StepInv, UNCHANGED vars PROVE StepInv'
  OBVIOUS
<1>1. /\ UNCHANGED <<op, pc, reply, local, last, quoted, ops>>
      /\ UNCHANGED <<faults, tree, mapper, config, cwd, listed, cacheOn, cache, call,
                     ret, crashed>>
  BY Unchanged
<1>2. SessionTypes' /\ OpTypes'
  BY <1>1 DEF StepInv, TypeInv, SessionTypes, OpTypes
<1>3. CallInv'
  <2>1. /\ LsDest' = LsDest /\ RmDest' = RmDest /\ RmSource' = RmSource
        /\ MvToDest' = MvToDest /\ GetSource' = GetSource /\ PutDest' = PutDest
        /\ CdDest' = CdDest /\ OnDest' = OnDest /\ RelativeCommand' = RelativeCommand
    BY <1>1 DEF LsDest, RmDest, RmSource, MvToDest, GetSource, PutDest, CdDest, OnDest,
       RelativeCommand
  <2>. QED BY <1>1, <2>1 DEF StepInv, CallInv, Does
<1>4. TriesInv'
  BY <1>1 DEF StepInv, TriesInv, MayBreak, MayStop
<1>5. KindInv'
  BY <1>1 DEF StepInv, KindInv, ShortWay
<1>. QED BY <1>2, <1>3, <1>4, <1>5 DEF StepInv, TypeInv

LEMMA NextStepInv == StepInv /\ [Next]_vars => StepInv'
BY BeginsStep, CommandsStep, StepsStep, StutterStep DEF Next, Finished

(* The command that runs, and what is known, belong to the place of the    *)
(* operation: doCommand is called by one function at a time, with what     *)
(* that function has computed, and repeats nothing but that.               *)
THEOREM StepsInOrder == Spec => []StepInv
BY InitStepInv, NextStepInv, PTL DEF Spec

(* The state has its types at every step of every operation: a command is  *)
(* never run a third time, and what has been read is a listing of names or *)
(* the content of a file.                                                  *)
THEOREM TypeCorrect == Spec => []TypeOK
<1>1. StepInv => TypeOK
  BY DEF StepInv, TypeInv, SessionTypes, OpTypes, TypeOK, SessionTypeOK, Result, Tree,
     Listings, Places, Quiet
<1>. QED BY <1>1, StepsInOrder, PTL

-----------------------------------------------------------------------------
(* A session that has been up has a configuration to clear, and only such  *)
(* a session is connected again.                                           *)
ConfigInv ==
  /\ \A s \in Sites : Configured(s)
  /\ call # NoCall =>
       (call.at = "connect" /\ call.tries > 0 => mapper[call.site] = "broken")

LEMMA CommandParts ==
  ASSUME StepInv, Commands
  PROVE  /\ \E s \in Sites : \/ Connect(s) \/ ConnectFails(s) \/ RunCommand(s)
                             \/ OpenDirRefused(s) \/ LoseConnection(s)
                             \/ GetHangs(s) \/ GetCrashes(s) \/ ClearsNullConfig(s)
         /\ UNCHANGED <<op, pc, reply, local, last, quoted, ops>>
         /\ call # NoCall /\ ~crashed
<1>1. PICK s \in Sites : \/ Connect(s) \/ ConnectFails(s) \/ RunCommand(s)
                         \/ OpenDirRefused(s) \/ LoseConnection(s)
                         \/ GetHangs(s) \/ GetCrashes(s) \/ ClearsNullConfig(s)
  BY DEF Commands, SessionNext
<1>2. call # NoCall /\ ~crashed
  BY <1>1, Zenon DEF Connect, ConnectFails, RunCommand, OpenDirRefused, LoseConnection,
     GetHangs, GetCrashes, Downloads, ClearsNullConfig, MustConnect, Running
<1>3. UNCHANGED <<op, pc, reply, local, last, quoted, ops>>
  BY DEF Commands, opVars
<1>. QED BY <1>1, <1>2, <1>3

LEMMA CommandsConfig == StepInv /\ ConfigInv /\ Commands => ConfigInv'
<1> SUFFICES ASSUME StepInv, ConfigInv, Commands PROVE ConfigInv'
  OBVIOUS
<1>1. PICK s \in Sites : \/ Connect(s) \/ ConnectFails(s) \/ RunCommand(s)
                         \/ OpenDirRefused(s) \/ LoseConnection(s)
                         \/ GetHangs(s) \/ GetCrashes(s) \/ ClearsNullConfig(s)
  BY CommandParts
<1>2. CASE Connect(s)
  <2>1. /\ mapper' = [mapper EXCEPT ![s] = "up"] /\ config' = [config EXCEPT ![s] = TRUE]
        /\ call # NoCall /\ Proceed
    BY <1>2, Zenon DEF Connect, Configure, MustConnect
  <2>2. call' = NoCall \/ call'.at = "run"
    BY <2>1, ProceedFacts DEF StepInv
  <2>3. \A r \in Sites : Configured(r)'
    BY <2>1, SessionParts DEF ConfigInv, Configured
  <2>. QED BY <2>2, <2>3 DEF ConfigInv
<1>3. CASE ConnectFails(s)
  <2>1. call' = NoCall /\ config' = config
    BY <1>3, Zenon DEF ConnectFails, Returning
  <2>2. PICK m \in {"none", "nodll"} : mapper' = [mapper EXCEPT ![s] = m]
    BY <1>3 DEF ConnectFails
  <2>3. \A r \in Sites : Configured(r)'
    BY <2>1, <2>2, SessionParts DEF ConfigInv, Configured
  <2>. QED BY <2>1, <2>3 DEF ConfigInv
<1>4. CASE RunCommand(s) \/ OpenDirRefused(s)
  <2>1. UNCHANGED <<mapper, config>> /\ call' = NoCall
    BY <1>4, Zenon DEF RunCommand, OpenDirRefused, session
  <2>. QED BY <2>1 DEF ConfigInv, Configured
<1>5. CASE LoseConnection(s)
  <2>1. /\ mapper' = [mapper EXCEPT ![s] = "broken"] /\ config' = config
        /\ mapper[s] = "up" /\ call' # NoCall /\ call'.site = s
    BY <1>5, RunningCommand, LoseConnectionFacts DEF LoseConnection
  <2>2. \A r \in Sites : Configured(r)'
    BY <2>1, SessionParts DEF ConfigInv, Configured
  <2>3. mapper'[call'.site] = "broken"
    BY <2>1, SessionParts
  <2>. QED BY <2>2, <2>3 DEF ConfigInv
<1>6. CASE GetHangs(s)
  <2>1. UNCHANGED <<mapper, config>> /\ call # NoCall /\ call \in Call
    BY <1>6, CommandParts, CallParts DEF GetHangs, session, StepInv
  <2>2. call' = [call EXCEPT !.at = "hung"]
    BY <1>6 DEF GetHangs
  <2>3. call'.at = "hung"
    BY <2>1, <2>2 DEF Call
  <2>. QED BY <2>1, <2>3 DEF ConfigInv, Configured
<1>7. CASE GetCrashes(s) \/ ClearsNullConfig(s)
  <2>1. UNCHANGED <<mapper, config, call>>
    BY <1>7, Zenon DEF GetCrashes, ClearsNullConfig, session
  <2>. QED BY <2>1 DEF ConfigInv, Configured
<1>. QED BY <1>1, <1>2, <1>3, <1>4, <1>5, <1>6, <1>7

(* The steps of an operation, by what they leave alone. *)
LEMMA StepsKeep ==
  ASSUME StepInv, Steps
  PROVE  /\ UNCHANGED <<faults, tree, mapper, config, cwd, cacheOn>>
         /\ crashed' = crashed \/ PutNoMapper
         /\ UNCHANGED <<quoted, op.kind, op.from, op.path, op.to, op.dest, op.move,
                        op.force, op.content, op.before>>
         /\ call = NoCall
<1>1. CASE LookInCache \/ Listed \/ NotListed
  BY <1>1, LookInCacheStep, ListedStep, NotListedStep DEF LooksUp
<1>2. CASE LookOnServer \/ RenameDirectly \/ RemoveTarget \/ RenameAfterRemove \/ GetAscii
        \/ StartGet \/ PutAscii \/ StartPut \/ StartRemove \/ StartMkDir \/ ChangeDir \/ Execute
  BY <1>2, LookOnServerStep, RenameStep, RemoveTargetStep, GetAsciiStep, StartGetStep,
     PutAsciiStep, StartPutStep, StartRemoveStep, StartMkDirStep, ChangeDirStep,
     ExecuteStep DEF Starts
<1>3. CASE ListDone \/ AskFirst \/ Renamed \/ GetFailed \/ SourceStays \/ PutUnreadable
        \/ Stored \/ NotStored \/ Done \/ NotInDir
  BY <1>3, ListDoneStep, AskFirstStep, RenamedStep, GetFailedStep, SourceStaysStep,
     PutUnreadableStep, StoredStep, NotStoredStep, DoneStep, NotInDirStep DEF Returns
<1>4. CASE SlowWay
  BY <1>4, SlowWayStep DEF sessionVars, session
<1>5. CASE GotAndRemove
  <2>1. call = NoCall
    BY <1>5, Zenon DEF GotAndRemove, At
  <2>. QED BY <1>5, <2>1, GotAndRemoveStep
<1>6. CASE Got \/ SourceRemoved
  <2>1. quoted' = quoted
    BY <1>6, Zenon DEF Got, SourceRemoved, GetReturns, Return
  <2>. QED BY <1>6, <2>1, GotStep, SourceRemovedStep DEF Fetched
<1>7. CASE PutNoMapper
  BY <1>7, PutNoMapperStep DEF opVars
<1>. QED BY <1>1, <1>2, <1>3, <1>4, <1>5, <1>6, <1>7 DEF Steps

(* ... and where they go. *)
LEMMA StepsGo ==
  ASSUME StepInv, Steps
  PROVE  /\ pc' = "put" => PutNoMapper \/ PutAscii
         /\ pc' = "in dir" => ChangeDir
         /\ pc' = "done" => Execute \/ (op.kind # "quote" /\ Starts(op.to, OnDest, "done"))
         /\ pc' = "target gone" => RemoveTarget
         /\ pc' = "source gone" => GotAndRemove
         /\ pc' = "moved" => RenameDirectly \/ RenameAfterRemove
         /\ pc' = "listed" => LookOnServer
         /\ pc' = "stored" => StartPut
<1>1. CASE LookInCache \/ Listed \/ NotListed
  BY <1>1, LookInCacheStep, ListedStep, NotListedStep DEF LooksUp
<1>2. CASE LookOnServer \/ RenameDirectly \/ RemoveTarget \/ RenameAfterRemove \/ GetAscii
        \/ StartGet \/ PutAscii \/ StartPut \/ ChangeDir \/ Execute
  BY <1>2, LookOnServerStep, RenameStep, RemoveTargetStep, GetAsciiStep, StartGetStep,
     PutAsciiStep, StartPutStep, ChangeDirStep, ExecuteStep DEF Starts
<1>3. CASE StartRemove \/ StartMkDir
  BY <1>3, StartRemoveStep, StartMkDirStep DEF Starts
<1>4. CASE ListDone \/ AskFirst \/ Renamed \/ GetFailed \/ SourceStays \/ PutUnreadable
        \/ Stored \/ NotStored \/ Done \/ NotInDir
  BY <1>4, ListDoneStep, AskFirstStep, RenamedStep, GetFailedStep, SourceStaysStep,
     PutUnreadableStep, StoredStep, NotStoredStep, DoneStep, NotInDirStep DEF Returns
<1>5. CASE SlowWay \/ GotAndRemove \/ Got \/ SourceRemoved
  BY <1>5, SlowWayStep, GotAndRemoveStep, GotStep, SourceRemovedStep DEF Fetched
<1>6. CASE PutNoMapper
  BY <1>6, PutNoMapperStep DEF opVars
<1>. QED BY <1>1, <1>2, <1>3, <1>4, <1>5, <1>6 DEF Steps

(* A command that an operation starts has not been run yet.                *)
LEMMA StepsStart ==
  ASSUME StepInv, Steps
  PROVE  call' = NoCall \/ call'.tries = 0
<1>1. CASE LookInCache \/ Listed \/ NotListed
  BY <1>1, LookInCacheStep, ListedStep, NotListedStep DEF LooksUp
<1>2. CASE LookOnServer \/ RenameDirectly \/ RemoveTarget \/ RenameAfterRemove \/ GetAscii
        \/ StartGet \/ PutAscii \/ StartPut \/ StartRemove \/ StartMkDir \/ ChangeDir \/ Execute
  <2>1. \E t, c, l : Starts(t, c, l)
    BY <1>2, LookOnServerStep, RenameStep, RemoveTargetStep, GetAsciiStep, StartGetStep,
       PutAsciiStep, StartPutStep, StartRemoveStep, StartMkDirStep, ChangeDirStep,
       ExecuteStep, Zenon
  <2>. QED BY <2>1 DEF Starts, Started
<1>3. CASE ListDone \/ AskFirst \/ Renamed \/ GetFailed \/ SourceStays \/ PutUnreadable
        \/ Stored \/ NotStored \/ Done \/ NotInDir
  BY <1>3, ListDoneStep, AskFirstStep, RenamedStep, GetFailedStep, SourceStaysStep,
     PutUnreadableStep, StoredStep, NotStoredStep, DoneStep, NotInDirStep DEF Returns
<1>4. CASE SlowWay \/ GotAndRemove
  BY <1>4, SlowWayStep, GotAndRemoveStep DEF sessionVars, Started
<1>5. CASE Got \/ SourceRemoved
  BY <1>5, GotStep, SourceRemovedStep DEF Fetched
<1>6. CASE PutNoMapper
  BY <1>6, PutNoMapperStep
<1>. QED BY <1>1, <1>2, <1>3, <1>4, <1>5, <1>6 DEF Steps

LEMMA StepsConfig == StepInv /\ ConfigInv /\ Steps => ConfigInv'
<1> SUFFICES ASSUME StepInv, ConfigInv, Steps PROVE ConfigInv'
  OBVIOUS
<1>1. UNCHANGED <<mapper, config>> /\ call = NoCall
  BY StepsKeep
<1>2. call' = NoCall \/ call'.tries = 0
  BY StepsStart
<1>. QED BY <1>1, <1>2 DEF ConfigInv, Configured

LEMMA BeginsConfig == StepInv /\ ConfigInv /\ Begins => ConfigInv'
<1> SUFFICES ASSUME StepInv, ConfigInv, Begins PROVE ConfigInv'
  OBVIOUS
<1>1. call' = NoCall /\ (UNCHANGED <<mapper, config>> \/ Aside)
  BY BeginsStep DEF Begun, Aside, Stay
<1>2. \A r \in Sites : Configured(r)'
  <2>1. CASE UNCHANGED <<mapper, config>>
    BY <2>1 DEF ConfigInv, Configured
  <2>2. CASE Aside
    BY <2>2 DEF Aside, ConfigInv
  <2>. QED BY <1>1, <2>1, <2>2
<1>. QED BY <1>1, <1>2 DEF ConfigInv

LEMMA StutterConfig == ConfigInv /\ UNCHANGED vars => ConfigInv'
BY Unchanged DEF ConfigInv, Configured

LEMMA InitConfig == Init => ConfigInv
BY DEF Init, SessionInit, ConfigInv, Configured

(* The retry of doCommand never clears a configuration that is not there,  *)
(* however connections break and dialogs are cancelled, and whatever is    *)
(* opened or closed between two operations: a command is repeated only in  *)
(* a session that has been up, and such a session is configured.           *)
THEOREM RetriesAreSafe == Spec => []RetryIsSafe
<1>1. StepInv /\ ConfigInv /\ [Next]_vars => ConfigInv'
  BY BeginsConfig, CommandsConfig, StepsConfig, StutterConfig DEF Next, Finished
<1>2. ConfigInv => RetryIsSafe
  BY DEF ConfigInv, Configured, RetryIsSafe, MustConnect, CanClear
<1>. QED BY InitConfig, StepsInOrder, <1>1, <1>2, PTL DEF Spec

-----------------------------------------------------------------------------
(* What a command has done, at the place of the operation that waits.      *)
Changes(s, p, x) == tree' = [tree EXCEPT ![s] = [tree[s] EXCEPT ![p] = x]]

Idles ==
  /\ tree' = tree
  /\ ret'.got = ret.got \/ (call.cmd.do = "ls" /\ "denied" \in faults)
  /\ call' = NoCall /\ ret'.ok =>
       call.cmd = ConnectOnly \/ (call.cmd.do = "ls" /\ "denied" \in faults)

Ran ==
  \E o : /\ Effect(call.site, call.cmd, o) /\ o \in Outcomes(call.site, call.cmd)
         /\ tree' = [tree EXCEPT ![call.site] = o.tree]
         /\ ret' = [ok |-> o.ok, got |-> HasRead(o)]
         /\ call' = NoCall /\ call.cmd # ConnectOnly /\ cache' = cache

Broke ==
  /\ MayBreak(call.cmd) /\ call' # NoCall /\ cache' = cache /\ call.cmd # ConnectOnly
  /\ \E o : /\ BrokenEffect(call.site, call.cmd, o)
            /\ tree' = [tree EXCEPT ![call.site] = o.tree]
            /\ ret' = [ok |-> FALSE, got |-> HasRead(o)]

LEMMA CommandEffect ==
  ASSUME StepInv, Commands
  PROVE  /\ call # NoCall /\ call.cmd \in Command /\ call.site \in Sites
         /\ UNCHANGED <<op, pc, reply, local, last, quoted, ops>> /\ faults' = faults
         /\ \A r \in Sites, d \in Dirs : cache'[r][d] \in {cache[r][d], NotCached}
         /\ Idles \/ Ran \/ Broke
<1>1. PICK s \in Sites : \/ Connect(s) \/ ConnectFails(s) \/ RunCommand(s)
                         \/ OpenDirRefused(s) \/ LoseConnection(s)
                         \/ GetHangs(s) \/ GetCrashes(s) \/ ClearsNullConfig(s)
  BY CommandParts
<1>2. call # NoCall /\ UNCHANGED <<op, pc, reply, local, last, quoted, ops>>
  BY CommandParts
<1>3. call.cmd \in Command /\ call.site \in Sites
  BY <1>2, CallParts DEF StepInv
<1>4. faults' = faults
  BY <1>1, Zenon DEF Connect, ConnectFails, RunCommand, OpenDirRefused, LoseConnection,
     GetHangs, GetCrashes, ClearsNullConfig
<1>5. CASE Connect(s)
  <2>1. tree' = tree /\ Proceed /\ Configure(s)
    BY <1>5 DEF Connect
  <2>2. ret'.got = ret.got /\ (call' = NoCall /\ ret'.ok => call.cmd = ConnectOnly)
    BY <1>2, <2>1, ProceedFacts DEF StepInv
  <2>3. \A r \in Sites, d \in Dirs : cache'[r][d] \in {cache[r][d], NotCached}
    BY <2>1, ConfigureTypes
  <2>4. Idles
    BY <2>1, <2>2 DEF Idles
  <2>. QED BY <1>2, <1>3, <1>4, <2>3, <2>4
<1>6. CASE ConnectFails(s)
  <2>1. tree' = tree /\ cache' = cache /\ ret' = [ret EXCEPT !.ok = FALSE]
    BY <1>6, Zenon DEF ConnectFails, Returning
  <2>2. ret'.ok = FALSE /\ ret'.got = ret.got
    BY <2>1 DEF StepInv, TypeInv, SessionTypes, Result
  <2>3. Idles
    BY <2>1, <2>2 DEF Idles
  <2>. QED BY <1>2, <1>3, <1>4, <2>1, <2>3
<1>7. CASE RunCommand(s)
  <2>1. call.site = s /\ call.cmd # ConnectOnly /\ call' = NoCall /\ cache' = cache
    BY <1>7, RunningCommand DEF RunCommand
  <2>2. Ran
    BY <1>7, <2>1, RunCommandFacts DEF Ran
  <2>. QED BY <1>2, <1>3, <1>4, <2>1, <2>2
<1>8. CASE OpenDirRefused(s)
  <2>1. tree' = tree /\ cache' = cache /\ call.cmd.do = "ls" /\ "denied" \in faults
    BY <1>8, Zenon DEF OpenDirRefused, session
  <2>2. Idles
    BY <2>1 DEF Idles
  <2>. QED BY <1>2, <1>3, <1>4, <2>1, <2>2
<1>9. CASE LoseConnection(s)
  <2>1. call.site = s /\ call' # NoCall /\ cache' = cache /\ MayBreak(call.cmd)
        /\ call.cmd # ConnectOnly
    BY <1>9, RunningCommand, LoseConnectionFacts DEF LoseConnection
  <2>2. Broke
    BY <1>9, <2>1, LoseConnectionFacts DEF Broke
  <2>. QED BY <1>2, <1>3, <1>4, <2>1, <2>2
<1>10. CASE GetCrashes(s) \/ ClearsNullConfig(s)
  <2>1. UNCHANGED <<tree, cache, call, ret>>
    BY <1>10, Zenon DEF GetCrashes, ClearsNullConfig, session
  <2>2. Idles
    BY <1>2, <2>1 DEF Idles
  <2>. QED BY <1>2, <1>3, <1>4, <2>1, <2>2
<1>11. CASE GetHangs(s)
  <2>1. UNCHANGED <<tree, cache, ret>>
    BY <1>11, Zenon DEF GetHangs, session
  <2>2. call' # NoCall
    BY <1>11, CommandParts, GetHangsStep, Zenon DEF opVars
  <2>3. Idles
    BY <2>1, <2>2 DEF Idles
  <2>. QED BY <1>2, <1>3, <1>4, <2>1, <2>3
<1>. QED BY <1>1, <1>5, <1>6, <1>7, <1>8, <1>9, <1>10, <1>11

LEMMA TreeType == ASSUME StepInv, NEW s \in Sites PROVE tree \in [Sites -> Tree] /\ tree[s] \in Tree
BY DEF StepInv, TypeInv, SessionTypes

LEMMA WhatTheyDo ==
  /\ LsDest.do = "ls" /\ LsDest.dir = op.dest[1]
  /\ CdDest.do = "cd" /\ CdDest.dir = op.dest[1]
  /\ ConnectOnly.do = "connect only"
  /\ GetSource.do = "get" /\ GetSource.path = op.path
  /\ RmDest.do = "rm" /\ RmDest.path = op.dest
  /\ RmSource.do = "rm" /\ RmSource.path = op.path
  /\ MvToDest.do = "mv" /\ MvToDest.path = op.path /\ MvToDest.to = op.dest
  /\ PutDest.do = "put" /\ PutDest.path = op.dest /\ PutDest.content = local
  /\ OnDest.do = op.kind /\ OnDest.path = op.dest
  /\ RelativeCommand.do = "relative" /\ RelativeCommand.dir = op.dest[1]
BY DEF LsDest, CdDest, ConnectOnly, GetSource, RmDest, RmSource, MvToDest, PutDest, OnDest,
   RelativeCommand

(* No read or write of the data of a copy fails.                           *)
Exact == "error" \notin faults

(* The commands that only look or connect. *)
LEMMA LooksOnly ==
  ASSUME StepInv, Commands, pc \in {"listed", "get", "got", "put", "in dir"}
  PROVE  /\ tree' = tree
         /\ pc = "got" /\ Succeeded' => ret'.got # {} /\ (Exact => ret'.got = Src)
<1>1. /\ call # NoCall /\ call.site \in Sites
      /\ Idles \/ Ran \/ Broke
  BY CommandEffect
<1>2. \/ call.cmd = ConnectOnly /\ pc \in {"get", "put"}
      \/ (call.cmd = LsDest \/ call.cmd = CdDest) /\ pc # "got"
      \/ call.cmd = GetSource /\ call.site = op.from /\ pc = "got"
  BY <1>1 DEF StepInv, CallInv, Does
<1>3. tree = [tree EXCEPT ![call.site] = tree[call.site]]
  BY <1>1, TreeType
<1>4. CASE Idles
  <2>1. tree' = tree
    BY <1>4 DEF Idles
  <2>2. pc = "got" => ~Succeeded'
    BY <1>2, <1>4, WhatTheyDo DEF Idles, Succeeded
  <2>. QED BY <2>1, <2>2
<1>5. CASE Ran
  <2>1. PICK o : /\ Effect(call.site, call.cmd, o)
                 /\ tree' = [tree EXCEPT ![call.site] = o.tree]
                 /\ ret' = [ok |-> o.ok, got |-> HasRead(o)]
                 /\ call.cmd # ConnectOnly
    BY <1>5 DEF Ran
  <2>2. call.cmd.do \in {"ls", "cd", "get"}
    BY <1>2, <2>1, WhatTheyDo
  <2>3. o.tree = tree[call.site]
    BY <2>1, <2>2 DEF Effect
  <2>4. tree' = tree
    BY <1>3, <2>1, <2>3
  <2>5. ASSUME pc = "got", Succeeded' PROVE ret'.got # {} /\ (Exact => ret'.got = Src)
    <3>1. call.cmd = GetSource /\ call.site = op.from /\ o.ok
      BY <1>2, <2>1, <2>5 DEF Succeeded
    <3>2. call.cmd.do = "get" /\ o.ok =>
            o.got # {} /\ (o.got = tree[call.site][call.cmd.path] \/ "error" \in faults)
      BY <2>1, Zenon DEF Effect
    <3>3. call.cmd.do = "get" /\ call.cmd.path = op.path
      BY <3>1, WhatTheyDo
    <3>4. o.got # {} /\ (Exact => o.got = tree[op.from][op.path])
      BY <3>1, <3>2, <3>3, Zenon DEF Exact
    <3>5. ret'.got = HasRead(o)
      BY <2>1
    <3>6. HasRead(o) = o.got
      BY <3>4, Zenon DEF HasRead
    <3>. QED BY <3>4, <3>5, <3>6, Zenon DEF Src
  <2>. QED BY <2>4, <2>5
<1>6. CASE Broke
  <2>1. PICK o : /\ BrokenEffect(call.site, call.cmd, o)
                 /\ tree' = [tree EXCEPT ![call.site] = o.tree]
    BY <1>6 DEF Broke
  <2>2. call' # NoCall
    BY <1>6 DEF Broke
  <2>3. call.cmd.do \in {"ls", "cd", "get"} => o.tree = tree[call.site]
    BY <2>1 DEF BrokenEffect
  <2>4. call.cmd # ConnectOnly
    BY <1>6 DEF Broke
  <2>5. tree' = tree
    BY <1>2, <1>3, <2>1, <2>3, <2>4, WhatTheyDo
  <2>. QED BY <2>2, <2>5 DEF Succeeded
<1>. QED BY <1>1, <1>4, <1>5, <1>6

(* The commands that change the server. *)
LEMMA OneCell ==
  ASSUME StepInv, Commands, call.cmd.do \in {"rm", "rmdir", "mkdir"}, NEW x,
         x = IF call.cmd.do = "mkdir" THEN {Directory} ELSE {}
  PROVE  \/ tree' = tree /\ ~Succeeded'
         \/ /\ Changes(call.site, call.cmd.path, x)
            /\ Succeeded' \/ "lost" \in faults
<1>1. /\ call # NoCall /\ call.site \in Sites
      /\ Idles \/ Ran \/ Broke
  BY CommandEffect
<1>2. tree = [tree EXCEPT ![call.site] = tree[call.site]]
  BY <1>1, TreeType
<1>3. CASE Idles
  <2>1. call.cmd # ConnectOnly /\ call.cmd.do # "ls"
    BY WhatTheyDo
  <2>. QED BY <1>3, <2>1 DEF Idles, Succeeded
<1>4. CASE Ran
  <2>1. PICK o : /\ Effect(call.site, call.cmd, o)
                 /\ tree' = [tree EXCEPT ![call.site] = o.tree]
                 /\ ret' = [ok |-> o.ok, got |-> HasRead(o)]
                 /\ call' = NoCall
    BY <1>4 DEF Ran
  <2>2. o.tree = IF o.ok THEN [tree[call.site] EXCEPT ![call.cmd.path] = x]
                 ELSE tree[call.site]
    BY <2>1, Zenon DEF Effect
  <2>3. CASE o.ok
    BY <2>1, <2>2, <2>3 DEF Changes, Succeeded
  <2>4. CASE ~o.ok
    <3>1. tree' = tree
      BY <1>2, <2>1, <2>2, <2>4
    <3>2. ~Succeeded'
      BY <2>1, <2>4 DEF Succeeded
    <3>. QED BY <3>1, <3>2
  <2>. QED BY <2>3, <2>4
<1>5. CASE Broke
  <2>1. PICK o : /\ BrokenEffect(call.site, call.cmd, o)
                 /\ tree' = [tree EXCEPT ![call.site] = o.tree]
    BY <1>5 DEF Broke
  <2>2. o.tree \in {tree[call.site], [tree[call.site] EXCEPT ![call.cmd.path] = x]}
    BY <2>1, Zenon DEF BrokenEffect
  <2>3. ~Succeeded' /\ "lost" \in faults
    BY <1>5, Zenon DEF Broke, Succeeded, MayBreak
  <2>. QED BY <1>2, <2>1, <2>2, <2>3 DEF Changes
<1>. QED BY <1>1, <1>3, <1>4, <1>5

Moves ==
  /\ tree[op.to][op.path] # {} /\ op.path # op.dest
  /\ tree' = [tree EXCEPT ![op.to] = [tree[op.to] EXCEPT
                ![op.path] = {}, ![op.dest] = @ \cup tree[op.to][op.path]]]

LEMMA MovesOnly ==
  ASSUME StepInv, Commands, pc = "moved"
  PROVE  \/ tree' = tree /\ ~Succeeded'
         \/ Moves /\ (Succeeded' \/ "lost" \in faults)
<1>1. /\ call # NoCall /\ call.site \in Sites
      /\ Idles \/ Ran \/ Broke
  BY CommandEffect
<1>2. tree = [tree EXCEPT ![call.site] = tree[call.site]]
  BY <1>1, TreeType
<1>3. call.site = op.to /\ call.cmd = MvToDest
  BY <1>1 DEF StepInv, CallInv, Does
<1>4. call.cmd.do = "mv" /\ call.cmd.path = op.path /\ call.cmd.to = op.dest
  BY <1>3, WhatTheyDo
<1>5. CASE Idles
  <2>1. call.cmd # ConnectOnly /\ call.cmd.do # "ls"
    BY <1>4, WhatTheyDo
  <2>. QED BY <1>5, <2>1 DEF Idles, Succeeded
<1>6. CASE Ran
  <2>1. PICK o : /\ Effect(call.site, call.cmd, o)
                 /\ tree' = [tree EXCEPT ![call.site] = o.tree]
                 /\ ret' = [ok |-> o.ok, got |-> HasRead(o)]
                 /\ call' = NoCall
    BY <1>6 DEF Ran
  <2>2. IF o.ok
        THEN /\ call.cmd.path # call.cmd.to /\ tree[call.site][call.cmd.path] # {}
             /\ o.tree = [tree[call.site] EXCEPT ![call.cmd.path] = {},
                            ![call.cmd.to] = @ \cup tree[call.site][call.cmd.path]]
        ELSE o.tree = tree[call.site]
    BY <1>4, <2>1, Zenon DEF Effect
  <2>3. CASE o.ok
    BY <1>3, <1>4, <2>1, <2>2, <2>3 DEF Moves, Succeeded
  <2>4. CASE ~o.ok
    <3>1. tree' = tree
      BY <1>2, <2>1, <2>2, <2>4
    <3>2. ~Succeeded'
      BY <2>1, <2>4 DEF Succeeded
    <3>. QED BY <3>1, <3>2
  <2>. QED BY <2>3, <2>4
<1>7. CASE Broke
  <2>1. PICK o : /\ BrokenEffect(call.site, call.cmd, o)
                 /\ tree' = [tree EXCEPT ![call.site] = o.tree]
    BY <1>7 DEF Broke
  <2>2. \/ o.tree = tree[call.site]
        \/ /\ call.cmd.path # call.cmd.to /\ tree[call.site][call.cmd.path] # {}
           /\ o.tree = [tree[call.site] EXCEPT ![call.cmd.path] = {},
                          ![call.cmd.to] = @ \cup tree[call.site][call.cmd.path]]
    BY <1>4, <2>1, Zenon DEF BrokenEffect
  <2>3. ~Succeeded' /\ "lost" \in faults
    BY <1>4, <1>7 DEF Broke, Succeeded, MayBreak
  <2>4. CASE o.tree = tree[call.site]
    BY <1>2, <2>1, <2>3, <2>4
  <2>5. CASE /\ call.cmd.path # call.cmd.to /\ tree[call.site][call.cmd.path] # {}
             /\ o.tree = [tree[call.site] EXCEPT ![call.cmd.path] = {},
                            ![call.cmd.to] = @ \cup tree[call.site][call.cmd.path]]
    BY <1>3, <1>4, <2>1, <2>3, <2>5 DEF Moves
  <2>. QED BY <2>2, <2>4, <2>5
<1>. QED BY <1>1, <1>5, <1>6, <1>7

LEMMA PutsOnly ==
  ASSUME StepInv, Commands, pc = "stored"
  PROVE  \/ Succeeded' /\ Changes(op.to, op.dest, local)
         \/ ~Succeeded' /\ tree' = tree
         \/ ~Succeeded' /\ MayBreak(PutDest) /\ \E x : Changes(op.to, op.dest, x)
         \/ Succeeded' /\ ~Exact /\ \E x : Changes(op.to, op.dest, x)
<1>1. /\ call # NoCall /\ call.site \in Sites
      /\ Idles \/ Ran \/ Broke
  BY CommandEffect
<1>2. tree = [tree EXCEPT ![call.site] = tree[call.site]]
  BY <1>1, TreeType
<1>3. call.site = op.to /\ call.cmd = PutDest
  BY <1>1 DEF StepInv, CallInv, Does
<1>4. call.cmd.do = "put" /\ call.cmd.path = op.dest /\ call.cmd.content = local
  BY <1>3, WhatTheyDo
<1>5. CASE Idles
  <2>1. call.cmd # ConnectOnly /\ call.cmd.do # "ls"
    BY <1>4, WhatTheyDo
  <2>. QED BY <1>5, <2>1 DEF Idles, Succeeded
<1>6. CASE Ran
  <2>1. PICK o : /\ Effect(call.site, call.cmd, o)
                 /\ tree' = [tree EXCEPT ![call.site] = o.tree]
                 /\ ret' = [ok |-> o.ok, got |-> HasRead(o)]
                 /\ call' = NoCall
    BY <1>6 DEF Ran
  <2>2. \/ o.ok /\ o.tree = [tree[call.site] EXCEPT ![call.cmd.path] = call.cmd.content]
        \/ ~o.ok /\ o.tree = tree[call.site]
        \/ /\ ~o.ok /\ MayStop
           /\ o.tree \in {[tree[call.site] EXCEPT ![call.cmd.path] = call.cmd.content],
                         [tree[call.site] EXCEPT ![call.cmd.path] = {Part}]}
        \/ /\ o.ok /\ "error" \in faults
           /\ o.tree = [tree[call.site] EXCEPT ![call.cmd.path] = {Part}]
    BY <1>4, <2>1, Zenon DEF Effect
  <2>3. CASE o.ok /\ o.tree = [tree[call.site] EXCEPT ![call.cmd.path] = call.cmd.content]
    BY <1>3, <1>4, <2>1, <2>3 DEF Changes, Succeeded
  <2>4. CASE ~o.ok /\ o.tree = tree[call.site]
    <3>1. tree' = tree
      BY <1>2, <2>1, <2>4
    <3>2. ~Succeeded'
      BY <2>1, <2>4 DEF Succeeded
    <3>. QED BY <3>1, <3>2
  <2>5. CASE /\ ~o.ok /\ MayStop
             /\ o.tree \in {[tree[call.site] EXCEPT ![call.cmd.path] = call.cmd.content],
                           [tree[call.site] EXCEPT ![call.cmd.path] = {Part}]}
    <3>1. Changes(op.to, op.dest, local) \/ Changes(op.to, op.dest, {Part})
      BY <1>3, <1>4, <2>1, <2>5 DEF Changes
    <3>2. ~Succeeded'
      BY <2>1, <2>5 DEF Succeeded
    <3>3. MayBreak(PutDest)
      BY <1>3, <1>4, <2>5, Zenon DEF MayBreak
    <3>. QED BY <3>1, <3>2, <3>3
  <2>6. CASE /\ o.ok /\ "error" \in faults
             /\ o.tree = [tree[call.site] EXCEPT ![call.cmd.path] = {Part}]
    <3>1. Changes(op.to, op.dest, {Part})
      BY <1>3, <1>4, <2>1, <2>6 DEF Changes
    <3>2. Succeeded' /\ ~Exact
      BY <2>1, <2>6 DEF Succeeded, Exact
    <3>. QED BY <3>1, <3>2
  <2>. QED BY <2>2, <2>3, <2>4, <2>5, <2>6
<1>7. CASE Broke
  <2>1. PICK o : /\ BrokenEffect(call.site, call.cmd, o)
                 /\ tree' = [tree EXCEPT ![call.site] = o.tree]
    BY <1>7 DEF Broke
  <2>2. o.tree \in {tree[call.site],
                    [tree[call.site] EXCEPT ![call.cmd.path] = call.cmd.content],
                    [tree[call.site] EXCEPT ![call.cmd.path] = {Part}]}
    BY <1>4, <2>1, Zenon DEF BrokenEffect
  <2>3. ~Succeeded' /\ MayBreak(PutDest)
    BY <1>3, <1>7, Zenon DEF Broke, Succeeded
  <2>4. \/ tree' = tree
        \/ Changes(op.to, op.dest, local)
        \/ Changes(op.to, op.dest, {Part})
    BY <1>2, <1>3, <1>4, <2>1, <2>2 DEF Changes
  <2>. QED BY <2>3, <2>4
<1>. QED BY <1>1, <1>5, <1>6, <1>7

LEMMA CellFacts ==
  ASSUME StepInv, NEW s \in Sites, NEW p \in Path, NEW x, Changes(s, p, x)
  PROVE  /\ tree'[s][p] = x
         /\ \A r \in Sites, q \in Path :
              <<r, q>> # <<s, p>> => tree'[r][q] = tree[r][q]
BY TreeType DEF Changes, Tree

LEMMA MovesFacts ==
  ASSUME StepInv, Moves
  PROVE  /\ tree'[op.to][op.path] = {}
         /\ tree'[op.to][op.dest] = tree[op.to][op.dest] \cup tree[op.to][op.path]
         /\ \A r \in Sites, q \in Path :
              ~(r = op.to /\ q \in {op.path, op.dest}) => tree'[r][q] = tree[r][q]
<1>1. op.to \in Sites /\ op.path \in Path /\ op.dest \in Path /\ op.path # op.dest
  BY OpParts DEF StepInv, Moves
<1>. QED BY <1>1, TreeType DEF Moves, Tree

-----------------------------------------------------------------------------
(* Where the content is that an operation copies or moves, and what has    *)
(* been done when it succeeds.                                             *)
Early == {"exists", "listed", "decide"}

LocalInv ==
  pc # "idle" =>
    /\ op.kind = "put" => op.content = {New} /\ local \in {{New}, {}}
    /\ op.kind = "ren" /\ Exact => local \in {op.content, {}}
    /\ op.kind = "ren" /\ pc \in {"put", "stored"} => local # {}
    /\ pc = "source gone" => local # {} /\ (Exact => local = op.content)

SourceInv ==
  /\ op.kind = "ren" /\ local = {} /\ pc \in Early => Src = op.content
  /\ pc \in {"get ascii", "get", "got", "target gone"} => Src = op.content
  /\ op.kind = "ren" /\ op.move /\ local # {} /\ pc \in Early \cup {"put", "stored"} =>
       Src = {}
  /\ pc = "got" /\ Succeeded => ret.got # {} /\ (Exact => ret.got = op.content)
  /\ pc = "source gone" /\ Succeeded => Src = {}

MovedInv ==
  pc = "moved" =>
    \/ ~Succeeded /\ Src = op.content
    \/ Src = {} /\ op.content \subseteq Dst

DoneInv ==
  /\ pc = "stored" /\ Succeeded /\ Exact => Dst = local
  /\ pc = "done" /\ Succeeded =>
       /\ op.kind \in {"rm", "rmdir"} => Dst = {}
       /\ op.kind = "mkdir" => Dst = {Directory}
  /\ op.kind = "ren" /\ op.move /\ op.from = op.to /\ pc = "idle" =>
       op.content \subseteq Src \/ op.content \subseteq Dst
  /\ OkMeansDone

CellInv == LocalInv /\ SourceInv /\ MovedInv /\ DoneInv

LEMMA InitCells == Init => CellInv
BY DEF Init, CellInv, LocalInv, SourceInv, MovedInv, DoneInv, OkMeansDone, Early, Returned

(* A command does what its operation counts on. *)
LEMMA CommandsCells == StepInv /\ CellInv /\ Commands => CellInv'
<1> SUFFICES ASSUME StepInv, CellInv, Commands PROVE CellInv'
  OBVIOUS
<1>0. faults' = faults /\ (Exact' <=> Exact)
  BY CommandEffect DEF Exact
<1>1. call # NoCall /\ UNCHANGED <<op, pc, reply, local>>
  BY CommandEffect
<1>2. pc \in Places \ Quiet
  BY <1>1 DEF StepInv, CallInv, TypeInv, OpTypes
<1>3. LocalInv'
  BY <1>0, <1>1 DEF CellInv, LocalInv
<1>4. OkMeansDone' /\ pc' # "idle"
  BY <1>1, <1>2 DEF OkMeansDone, Returned, Quiet
<1>5. /\ op.from \in Sites /\ op.to \in Sites /\ op.path \in Path /\ op.dest \in Path
  BY OpParts DEF StepInv
<1>6. CASE pc \in {"listed", "get", "got", "put", "in dir"}
  <2>1. /\ tree' = tree
        /\ pc = "got" /\ Succeeded' => ret'.got # {} /\ (Exact => ret'.got = Src)
    BY <1>6, LooksOnly
  <2>2. Src' = Src /\ Dst' = Dst
    BY <1>1, <2>1 DEF Src, Dst
  <2>3. SourceInv'
    BY <1>0, <1>1, <1>6, <2>1, <2>2 DEF CellInv, SourceInv, Early
  <2>. QED BY <1>1, <1>3, <1>4, <1>6, <2>3 DEF CellInv, MovedInv, DoneInv
<1>7. CASE pc = "target gone"
  <2>1. call.site = op.to /\ call.cmd = RmDest
    BY <1>1, <1>7 DEF StepInv, CallInv, Does
  <2>2. call.cmd.do = "rm" /\ call.cmd.path = op.dest
    BY <2>1, WhatTheyDo
  <2>3. tree' = tree \/ Changes(op.to, op.dest, {})
    BY <2>1, <2>2, OneCell
  <2>4. <<op.from, op.path>> # <<op.to, op.dest>>
    BY <1>7 DEF StepInv, KindInv, ShortWay
  <2>5. Src' = Src
    BY <1>1, <1>5, <2>3, <2>4, CellFacts DEF Src
  <2>6. SourceInv'
    BY <1>1, <1>7, <2>5 DEF CellInv, SourceInv, Early
  <2>. QED BY <1>1, <1>3, <1>4, <1>7, <2>6 DEF CellInv, MovedInv, DoneInv
<1>8. CASE pc = "moved"
  <2>1. op.from = op.to /\ op.kind = "ren" /\ op.move
    BY <1>8 DEF StepInv, KindInv, ShortWay
  <2>2. CASE tree' = tree /\ ~Succeeded'
    <3>1. Src' = Src /\ Dst' = Dst
      BY <1>1, <2>2 DEF Src, Dst
    <3>2. MovedInv'
      BY <1>1, <2>2, <3>1 DEF CellInv, MovedInv
    <3>. QED BY <1>1, <1>3, <1>4, <1>8, <3>2 DEF CellInv, SourceInv, DoneInv, Early
  <2>3. CASE Moves
    <3>1. Src' = {} /\ Dst' = Dst \cup Src
      BY <1>1, <2>1, <2>3, MovesFacts DEF Src, Dst
    <3>2. Src # {}
      BY <2>1, <2>3 DEF Moves, Src
    <3>3. op.content \subseteq Dst \cup Src
      BY <1>8, <3>2 DEF CellInv, MovedInv
    <3>4. MovedInv'
      BY <1>1, <3>1, <3>3 DEF MovedInv
    <3>. QED BY <1>1, <1>3, <1>4, <1>8, <3>4 DEF CellInv, SourceInv, DoneInv, Early
  <2>. QED BY <1>8, <2>2, <2>3, MovesOnly
<1>9. CASE pc = "source gone"
  <2>1. call.site = op.from /\ call.cmd = RmSource
    BY <1>1, <1>9 DEF StepInv, CallInv, Does
  <2>2. call.cmd.do = "rm" /\ call.cmd.path = op.path
    BY <2>1, WhatTheyDo
  <2>3. ~Succeeded' \/ Changes(op.from, op.path, {})
    BY <2>1, <2>2, OneCell
  <2>4. Succeeded' => Src' = {}
    BY <1>1, <1>5, <2>3, CellFacts DEF Src
  <2>5. SourceInv'
    BY <1>1, <1>9, <2>4 DEF SourceInv, Early
  <2>. QED BY <1>1, <1>3, <1>4, <1>9, <2>5 DEF CellInv, MovedInv, DoneInv
<1>10. CASE pc = "stored"
  <2>1. \/ Succeeded' /\ Changes(op.to, op.dest, local)
        \/ ~Succeeded' /\ tree' = tree
        \/ ~(Succeeded' /\ Exact) /\ \E x : Changes(op.to, op.dest, x)
    BY <1>10, PutsOnly
  <2>2. Succeeded' /\ Exact' => Dst' = local'
    <3>1. SUFFICES ASSUME Succeeded', Exact PROVE Dst' = local'
      BY <1>0
    <3>2. Changes(op.to, op.dest, local)
      BY <2>1, <3>1
    <3>. QED BY <1>1, <1>5, <3>2, CellFacts DEF Dst
  <2>3. op.kind = "ren" => Src' = Src
    <3>1. op.kind = "ren" => <<op.from, op.path>> # <<op.to, op.dest>>
      BY DEF StepInv, KindInv
    <3>2. CASE tree' = tree
      BY <1>1, <3>2 DEF Src
    <3>3. CASE \E x : Changes(op.to, op.dest, x)
      <4>1. PICK x : Changes(op.to, op.dest, x)
        BY <3>3
      <4>. QED BY <1>1, <1>5, <3>1, <4>1, CellFacts DEF Src
    <3>. QED BY <2>1, <3>2, <3>3
  <2>4. SourceInv'
    BY <1>1, <1>10, <2>3 DEF CellInv, SourceInv, Early
  <2>. QED BY <1>1, <1>3, <1>4, <1>10, <2>2, <2>4 DEF CellInv, MovedInv, DoneInv
<1>11. CASE pc = "done"
  <2>1. call.site = op.to /\ call.cmd = IF op.kind = "quote" THEN RelativeCommand ELSE OnDest
    BY <1>1, <1>11 DEF StepInv, CallInv, Does
  <2>2. ASSUME op.kind \in {"rm", "rmdir", "mkdir"}, Succeeded'
        PROVE  Dst' = IF op.kind = "mkdir" THEN {Directory} ELSE {}
    <3>1. call.cmd.do = op.kind /\ call.cmd.path = op.dest
      BY <2>1, <2>2, WhatTheyDo
    <3>2. Changes(op.to, op.dest, IF op.kind = "mkdir" THEN {Directory} ELSE {})
      BY <2>1, <2>2, <3>1, OneCell
    <3>. QED BY <1>1, <1>5, <3>2, CellFacts DEF Dst
  <2>3. DoneInv'
    BY <1>1, <1>4, <1>11, <2>2 DEF DoneInv
  <2>. QED BY <1>1, <1>3, <1>11, <2>3 DEF CellInv, SourceInv, MovedInv, Early
<1>. QED BY <1>2, <1>6, <1>7, <1>8, <1>9, <1>10, <1>11 DEF Places, Quiet

LEMMA NotYet ==
  ASSUME NEW s, NEW c, Started(s, c), c.do # "connect only"
  PROVE  call' # NoCall /\ ~Succeeded'
<1>1. c # ConnectOnly
  BY WhatTheyDo
<1>. QED BY <1>1 DEF Started, Succeeded

LEMMA SameCells ==
  ASSUME tree' = tree, UNCHANGED <<op.from, op.path, op.to, op.dest>>
  PROVE  Src' = Src /\ Dst' = Dst
BY DEF Src, Dst

(* A step that is not a return, by what it needs of the place it leaves.   *)
LEMMA GoesOnCells ==
  ASSUME StepInv, CellInv, UNCHANGED <<faults, tree, local>>, pc # "idle", pc' # "idle",
         UNCHANGED <<op.kind, op.from, op.path, op.to, op.dest, op.move, op.content>>,
         pc' \in {"got", "target gone", "source gone", "moved", "stored", "done"} => ~Succeeded',
         \/ pc \in Early /\ pc' \in Early
         \/ pc \in Early /\ op.kind = "ren" /\ local = {}
              /\ pc' \in {"target gone", "moved", "get ascii"}
         \/ pc = "target gone" /\ pc' = "moved"
         \/ pc \in {"get ascii", "get"} /\ pc' \in {"get", "got"}
         \/ pc = "decide" /\ pc' = "put" /\ (op.kind = "ren" => local # {})
         \/ pc = "put" /\ pc' = "stored" /\ local # {}
         \/ pc' \in {"done", "in dir"}
  PROVE  CellInv'
<1>1. Src' = Src /\ Dst' = Dst
  BY SameCells
<1>2. LocalInv'
  <2>1. Exact' <=> Exact
    BY DEF Exact
  <2>. QED BY <2>1 DEF CellInv, LocalInv, Early
<1>3. SourceInv'
  BY <1>1 DEF CellInv, SourceInv, Early
<1>4. MovedInv'
  BY <1>1 DEF CellInv, MovedInv, SourceInv, Early
<1>5. DoneInv'
  BY DEF DoneInv, OkMeansDone, Returned
<1>. QED BY <1>2, <1>3, <1>4, <1>5 DEF CellInv

LEMMA LooksUpCells ==
  ASSUME StepInv, CellInv, LookInCache \/ Listed \/ NotListed
  PROVE  CellInv'
<1>1. pc \in {"exists", "listed"} /\ \E names : LooksUp(names)
  BY LookInCacheStep, ListedStep, NotListedStep
<1>2. /\ UNCHANGED <<faults, tree, local>> /\ pc' = "decide"
      /\ UNCHANGED <<op.kind, op.from, op.path, op.to, op.dest, op.move, op.content>>
  BY <1>1, Zenon DEF LooksUp
<1>. QED BY <1>1, <1>2, GoesOnCells DEF Early

LEMMA StartsCells ==
  ASSUME StepInv, CellInv,
         \/ LookOnServer \/ RenameDirectly \/ RemoveTarget \/ RenameAfterRemove \/ GetAscii
         \/ StartGet \/ PutAscii \/ StartPut \/ StartRemove \/ StartMkDir \/ ChangeDir
         \/ Execute
  PROVE  CellInv'
<1>0. /\ UNCHANGED <<faults, tree, local>>
      /\ UNCHANGED <<op.kind, op.from, op.path, op.to, op.dest, op.move, op.content>>
  BY LookOnServerStep, RenameStep, RemoveTargetStep, GetAsciiStep, StartGetStep,
     PutAsciiStep, StartPutStep, StartRemoveStep, StartMkDirStep, ChangeDirStep,
     ExecuteStep DEF Starts
<1>1. CASE LookOnServer
  <2>1. Starts(op.to, LsDest, "listed") /\ pc = "exists"
    BY <1>1, LookOnServerStep
  <2>2. pc' = "listed"
    BY <2>1 DEF Starts
  <2>. QED BY <1>0, <2>1, <2>2, GoesOnCells DEF Early
<1>2. CASE RenameDirectly \/ RenameAfterRemove
  <2>1. /\ Starts(op.to, MvToDest, "moved") /\ pc \in {"decide", "target gone"} /\ ShortWay
    BY <1>2, RenameStep
  <2>2. ~Succeeded'
    BY <2>1, WhatTheyDo, NotYet DEF Starts
  <2>3. op.kind = "ren" /\ (pc = "decide" => local = {})
    BY <2>1 DEF StepInv, KindInv, ShortWay
  <2>4. pc' = "moved"
    BY <2>1 DEF Starts
  <2>. QED BY <1>0, <2>1, <2>2, <2>3, <2>4, GoesOnCells DEF Early
<1>3. CASE RemoveTarget
  <2>1. Starts(op.to, RmDest, "target gone") /\ pc = "decide" /\ ShortWay
    BY <1>3, RemoveTargetStep
  <2>2. ~Succeeded'
    BY <2>1, WhatTheyDo, NotYet DEF Starts
  <2>3. op.kind = "ren" /\ local = {}
    BY <2>1 DEF StepInv, KindInv, ShortWay
  <2>4. pc' = "target gone"
    BY <2>1 DEF Starts
  <2>. QED BY <1>0, <2>1, <2>2, <2>3, <2>4, GoesOnCells DEF Early
<1>4. CASE GetAscii
  <2>1. Starts(op.from, ConnectOnly, "get") /\ pc = "get ascii"
    BY <1>4, GetAsciiStep
  <2>2. pc' = "get"
    BY <2>1 DEF Starts
  <2>. QED BY <1>0, <2>1, <2>2, GoesOnCells
<1>5. CASE StartGet
  <2>1. Starts(op.from, GetSource, "got") /\ pc = "get"
    BY <1>5, StartGetStep
  <2>2. ~Succeeded'
    BY <2>1, WhatTheyDo, NotYet DEF Starts
  <2>3. pc' = "got"
    BY <2>1 DEF Starts
  <2>. QED BY <1>0, <2>1, <2>2, <2>3, GoesOnCells
<1>6. CASE PutAscii
  <2>1. /\ Starts(op.to, ConnectOnly, "put") /\ pc = "decide"
        /\ op.kind = "put" \/ local # {}
    BY <1>6, PutAsciiStep
  <2>2. op.kind = "ren" => local # {}
    BY <2>1
  <2>3. pc' = "put"
    BY <2>1 DEF Starts
  <2>. QED BY <1>0, <2>1, <2>2, <2>3, GoesOnCells
<1>7. CASE StartPut
  <2>1. Starts(op.to, PutDest, "stored") /\ pc = "put" /\ local # {}
    BY <1>7, StartPutStep
  <2>2. ~Succeeded'
    BY <2>1, WhatTheyDo, NotYet DEF Starts
  <2>3. pc' = "stored"
    BY <2>1 DEF Starts
  <2>. QED BY <1>0, <2>1, <2>2, <2>3, GoesOnCells
<1>8. CASE StartRemove \/ StartMkDir
  <2>1. /\ Starts(op.to, OnDest, "done") /\ op.kind \in {"rm", "rmdir", "mkdir"}
        /\ pc = op.kind
    BY <1>8, StartRemoveStep, StartMkDirStep
  <2>2. ~Succeeded'
    BY <2>1, WhatTheyDo, NotYet DEF Starts
  <2>3. pc' = "done"
    BY <2>1 DEF Starts
  <2>. QED BY <1>0, <2>1, <2>2, <2>3, GoesOnCells
<1>9. CASE ChangeDir
  <2>1. Starts(op.to, CdDest, "in dir") /\ pc = "quote"
    BY <1>9, ChangeDirStep
  <2>2. pc' = "in dir"
    BY <2>1 DEF Starts
  <2>. QED BY <1>0, <2>1, <2>2, GoesOnCells
<1>10. CASE Execute
  <2>1. Starts(op.to, RelativeCommand, "done") /\ pc = "in dir"
    BY <1>10, ExecuteStep
  <2>2. ~Succeeded'
    BY <2>1, WhatTheyDo, NotYet DEF Starts
  <2>3. pc' = "done"
    BY <2>1 DEF Starts
  <2>. QED BY <1>0, <2>1, <2>2, <2>3, GoesOnCells
<1>. QED BY <1>1, <1>2, <1>3, <1>4, <1>5, <1>6, <1>7, <1>8, <1>9, <1>10

LEMMA SlowWayCells ==
  ASSUME StepInv, CellInv, SlowWay
  PROVE  CellInv'
<1>1. /\ pc = "decide" /\ pc' = "get ascii" /\ op.kind = "ren" /\ local = {}
      /\ UNCHANGED <<op, local, faults, tree>>
  BY SlowWayStep DEF sessionVars
<1>. QED BY <1>1, GoesOnCells DEF Early

(* What has been fetched is in the local file before the source is removed. *)
LEMMA FetchCells ==
  ASSUME StepInv, CellInv, GotAndRemove \/ Got \/ SourceRemoved
  PROVE  CellInv'
<1>1. CASE GotAndRemove
  <2>1. /\ Started(op.from, RmSource) /\ pc = "got" /\ Succeeded /\ op.move
        /\ pc' = "source gone" /\ local' = Written
        /\ op' = op /\ tree' = tree /\ faults' = faults
    BY <1>1, GotAndRemoveStep
  <2>2. ~Succeeded'
    BY <2>1, WhatTheyDo, NotYet
  <2>3. local' # {} /\ (Exact' => local' = op.content)
    <3>1. ret.got # {} /\ (Exact => ret.got = op.content)
      BY <2>1 DEF CellInv, SourceInv
    <3>2. local' = ret.got
      BY <2>1, <3>1, Zenon DEF Written
    <3>. QED BY <2>1, <3>1, <3>2 DEF Exact
  <2>4. LocalInv'
    <3>1. op.kind # "put"
      BY <2>1 DEF StepInv, KindInv
    <3>. QED BY <2>1, <2>3, <3>1 DEF LocalInv
  <2>5. SourceInv' /\ MovedInv'
    BY <2>1, <2>2 DEF SourceInv, MovedInv, Early
  <2>6. DoneInv'
    BY <2>1 DEF DoneInv, OkMeansDone, Returned
  <2>. QED BY <2>4, <2>5, <2>6 DEF CellInv
<1>2. CASE Got \/ SourceRemoved
  <2>1. PICK loc : /\ Fetched(loc) /\ loc # {} /\ (Exact => loc = op.content)
                   /\ op.move => Src = {}
    <3>1. CASE Got
      <4>1. Fetched(Written) /\ pc = "got" /\ Succeeded /\ ~op.move
        BY <3>1, GotStep
      <4>2. ret.got # {} /\ (Exact => ret.got = op.content)
        BY <4>1 DEF CellInv, SourceInv
      <4>3. Written = ret.got
        BY <4>2, Zenon DEF Written
      <4>. QED BY <4>1, <4>2, <4>3, Zenon
    <3>2. CASE SourceRemoved
      <4>1. Fetched(local) /\ pc = "source gone" /\ Succeeded
        BY <3>2, SourceRemovedStep
      <4>2. local # {} /\ (Exact => local = op.content) /\ Src = {}
        BY <4>1 DEF CellInv, SourceInv, LocalInv
      <4>. QED BY <4>1, <4>2, Zenon
    <3>. QED BY <1>2, <3>1, <3>2
  <2>2. /\ local' = loc /\ op' = op /\ tree' = tree /\ faults' = faults
        /\ \/ op.kind = "get" /\ pc' = "idle" /\ reply' = "OK"
           \/ op.kind = "ren" /\ pc' = "exists"
    BY <2>1, Zenon DEF Fetched
  <2>3. Src' = Src
    BY <2>2, SameCells
  <2>4. CASE op.kind = "get"
    <3>1. pc' = "idle"
      BY <2>2, <2>4
    <3>2. LocalInv' /\ SourceInv' /\ MovedInv'
      BY <2>2, <2>4, <3>1 DEF LocalInv, SourceInv, MovedInv, Early
    <3>3. OkMeansDone'
      BY <2>1, <2>2, <2>3, <2>4 DEF OkMeansDone, Copies, Exact, Src
    <3>. QED BY <2>2, <2>4, <3>1, <3>2, <3>3 DEF CellInv, DoneInv
  <2>5. CASE op.kind = "ren"
    <3>1. pc' = "exists"
      BY <2>2, <2>5
    <3>3. LocalInv' /\ MovedInv'
      BY <2>1, <2>2, <2>5, <3>1 DEF LocalInv, MovedInv, Exact
    <3>4. SourceInv'
      BY <2>1, <2>2, <2>3, <2>5, <3>1 DEF SourceInv, Early
    <3>5. DoneInv'
      BY <2>2, <3>1 DEF DoneInv, OkMeansDone, Returned
    <3>. QED BY <3>3, <3>4, <3>5 DEF CellInv
  <2>. QED BY <2>2, <2>4, <2>5
<1>. QED BY <1>1, <1>2

(* Where nothing is promised: an answer that is not OK, or a kind of which *)
(* nothing is asked.                                                       *)
LEMMA ReturnCells ==
  ASSUME StepInv, pc' = "idle", UNCHANGED <<op, tree>>,
         ShortWay => op.content \subseteq Src \/ op.content \subseteq Dst,
         OkMeansDone'
  PROVE  CellInv'
<1>1. Src' = Src /\ Dst' = Dst
  BY SameCells
<1>2. LocalInv' /\ SourceInv' /\ MovedInv'
  BY DEF LocalInv, SourceInv, MovedInv, Early
<1>3. DoneInv'
  BY <1>1 DEF DoneInv, ShortWay
<1>. QED BY <1>2, <1>3 DEF CellInv

LEMMA RefusesCells ==
  ASSUME StepInv, CellInv,
         \/ ListDone \/ AskFirst \/ GetFailed \/ SourceStays \/ PutUnreadable \/ NotStored
         \/ NotInDir
  PROVE  CellInv'
<1>1. /\ pc' = "idle" /\ UNCHANGED <<op, tree>>
      /\ reply' # "OK" \/ op.kind = "list"
      /\ pc \in {"got", "source gone", "put", "stored", "in dir"} \/ op.kind = "list"
           \/ AskFirst
  BY ListDoneStep, AskFirstStep, GetFailedStep, SourceStaysStep, PutUnreadableStep,
     NotStoredStep, NotInDirStep DEF Returns
<1>2. OkMeansDone'
  BY <1>1 DEF OkMeansDone, Returned
<1>3. ShortWay => op.content \subseteq Src
  <2>1. CASE AskFirst
    <3>1. pc = "decide"
      BY <2>1, AskFirstStep
    <3>. QED BY <3>1 DEF StepInv, KindInv, CellInv, SourceInv, Early, ShortWay
  <2>2. CASE ~AskFirst
    BY <1>1, <2>2 DEF StepInv, KindInv, ShortWay
  <2>. QED BY <2>1, <2>2
<1>. QED BY <1>1, <1>2, <1>3, ReturnCells

LEMMA SucceedsCells ==
  ASSUME StepInv, CellInv, Renamed \/ Stored \/ Done
  PROVE  CellInv'
<1>1. CASE Renamed
  <2>1. /\ Returns(IF ret.ok THEN "OK" ELSE "ERROR", local) /\ pc = "moved"
    BY <1>1, RenamedStep
  <2>2. /\ pc' = "idle" /\ UNCHANGED <<op, tree>> /\ call = NoCall
        /\ reply' = IF ret.ok THEN "OK" ELSE "ERROR"
    BY <2>1, Zenon DEF Returns
  <2>3. op.kind = "ren" /\ (op.content \subseteq Src \/ op.content \subseteq Dst)
    BY <2>1 DEF StepInv, KindInv, ShortWay, CellInv, MovedInv
  <2>4. ret.ok => op.content \subseteq Dst /\ Src = {}
    BY <2>1, <2>2 DEF CellInv, MovedInv, Succeeded
  <2>5. OkMeansDone'
    <3>1. op.kind = "ren"
      BY <2>1 DEF StepInv, KindInv, ShortWay
    <3>2. ret.ok \/ reply' # "OK"
      BY <2>2
    <3>. QED BY <2>2, <2>4, <3>1, <3>2 DEF OkMeansDone, Returned, Src, Dst
  <2>. QED BY <2>2, <2>3, <2>5, ReturnCells
<1>2. CASE Stored
  <2>1. /\ Returns("OK", IF op.move THEN {} ELSE local) /\ pc = "stored" /\ Succeeded
    BY <1>2, StoredStep
  <2>2. /\ pc' = "idle" /\ UNCHANGED <<op, tree>> /\ reply' = "OK"
    BY <2>1, Zenon DEF Returns
  <2>3. /\ op.kind \in {"put", "ren"} /\ ~ShortWay /\ local # {}
    BY <2>1 DEF StepInv, KindInv
  <2>4. Exact => Dst = op.content
    <3>1. Exact => Dst = local /\ local = op.content
      BY <2>1, <2>3 DEF CellInv, LocalInv, DoneInv
    <3>. QED BY <3>1
  <2>5. op.kind = "ren" /\ op.move => Src = {}
    BY <2>1, <2>3 DEF CellInv, SourceInv
  <2>6. OkMeansDone'
    <3>1. faults' = faults /\ Copies
      BY <2>1, <2>3, Zenon DEF Returns, Copies
    <3>. QED BY <2>2, <2>3, <2>4, <2>5, <3>1 DEF OkMeansDone, Copies, ShortWay, Exact, Src, Dst
  <2>. QED BY <2>2, <2>3, <2>6, ReturnCells
<1>3. CASE Done
  <2>1. Returns(IF ret.ok THEN "OK" ELSE "FAILED", local) /\ pc = "done"
    BY <1>3, DoneStep
  <2>2. /\ pc' = "idle" /\ UNCHANGED <<op, tree>> /\ call = NoCall
        /\ reply' = IF ret.ok THEN "OK" ELSE "FAILED"
    BY <2>1, Zenon DEF Returns
  <2>3. op.kind \in {"rm", "rmdir", "mkdir", "quote"}
    BY <2>1 DEF StepInv, KindInv
  <2>4. ret.ok => /\ op.kind \in {"rm", "rmdir"} => Dst = {}
                  /\ op.kind = "mkdir" => Dst = {Directory}
    BY <2>1, <2>2 DEF CellInv, DoneInv, Succeeded
  <2>5. OkMeansDone'
    <3>1. ret.ok \/ reply' # "OK"
      BY <2>2
    <3>. QED BY <2>2, <2>3, <2>4, <3>1 DEF OkMeansDone, Returned, Dst
  <2>. QED BY <2>2, <2>3, <2>5, ReturnCells DEF ShortWay
<1>. QED BY <1>1, <1>2, <1>3

LEMMA SameAll ==
  ASSUME UNCHANGED <<op, pc, reply, local, faults, tree, call, ret>>, CellInv
  PROVE  CellInv'
<1>1. Src' = Src /\ Dst' = Dst /\ (Succeeded' <=> Succeeded) /\ (Exact' <=> Exact)
  BY DEF Src, Dst, Succeeded, Exact
<1>2. OkMeansDone'
  BY DEF CellInv, DoneInv, OkMeansDone, Returned, Copies, ShortWay
<1>3. LocalInv'
  BY <1>1 DEF CellInv, LocalInv
<1>4. SourceInv'
  BY <1>1 DEF CellInv, SourceInv, Early
<1>5. MovedInv' /\ DoneInv'
  BY <1>1, <1>2 DEF CellInv, MovedInv, DoneInv
<1>. QED BY <1>3, <1>4, <1>5 DEF CellInv

LEMMA StepsCells == StepInv /\ CellInv /\ Steps => CellInv'
<1> SUFFICES ASSUME StepInv, CellInv, Steps PROVE CellInv'
  OBVIOUS
<1>1. CASE LookInCache \/ Listed \/ NotListed
  BY <1>1, LooksUpCells
<1>2. CASE LookOnServer \/ RenameDirectly \/ RemoveTarget \/ RenameAfterRemove \/ GetAscii
        \/ StartGet \/ PutAscii \/ StartPut \/ StartRemove \/ StartMkDir \/ ChangeDir \/ Execute
  BY <1>2, StartsCells
<1>3. CASE ListDone \/ AskFirst \/ GetFailed \/ SourceStays \/ PutUnreadable \/ NotStored \/ NotInDir
  BY <1>3, RefusesCells
<1>4. CASE Renamed \/ Stored \/ Done
  BY <1>4, SucceedsCells
<1>5. CASE SlowWay \/ GotAndRemove \/ Got \/ SourceRemoved
  BY <1>5, SlowWayCells, FetchCells
<1>6. CASE PutNoMapper
  BY <1>6, PutNoMapperStep, SameAll DEF opVars
<1>. QED BY <1>1, <1>2, <1>3, <1>4, <1>5, <1>6 DEF Steps

LEMMA BeginsCells == StepInv /\ CellInv /\ Begins => CellInv'
<1> SUFFICES ASSUME StepInv, CellInv, Begins PROVE CellInv'
  OBVIOUS
<1>1. CASE Begun
  <2>1. /\ pc' \in {"exists", "get ascii", "rm", "rmdir", "mkdir", "quote"} /\ tree' = tree
        /\ op'.kind = "put" => op'.content = {New} /\ local' \in {{New}, {}}
        /\ op'.kind \in {"get", "ren"} => op'.content = tree[op'.from][op'.path]
        /\ op'.kind = "ren" => local' = {}
    BY <1>1 DEF Begun, Stay
  <2>2. pc' = "get ascii" => op'.kind \in {"get", "ren"}
    BY BeginsStep DEF StepInv, KindInv
  <2>3. op'.kind \in {"get", "ren"} => Src' = op'.content
    BY <2>1 DEF Src
  <2>4. LocalInv'
    BY <2>1 DEF LocalInv
  <2>5. SourceInv' /\ MovedInv'
    BY <2>1, <2>2, <2>3 DEF SourceInv, MovedInv, Early
  <2>6. DoneInv'
    BY <2>1 DEF DoneInv, OkMeansDone, Returned
  <2>. QED BY <2>4, <2>5, <2>6 DEF CellInv
<1>2. CASE Aside
  <2>1. pc' = "idle" /\ UNCHANGED <<op, tree, reply, local>> /\ pc = "idle"
    BY <1>2 DEF Aside, Stay
  <2>2. Src' = Src /\ Dst' = Dst
    BY <2>1, SameCells
  <2>3. OkMeansDone'
    <3>1. faults' = faults
      BY <1>2 DEF Aside, Stay
    <3>. QED BY <2>1, <3>1 DEF CellInv, DoneInv, OkMeansDone, Returned, Copies, ShortWay
  <2>4. ShortWay => op.content \subseteq Src \/ op.content \subseteq Dst
    BY <2>1 DEF CellInv, DoneInv, ShortWay
  <2>. QED BY <2>1, <2>3, <2>4, ReturnCells
<1>. QED BY <1>1, <1>2, BeginsStep

LEMMA StutterCells == CellInv /\ UNCHANGED vars => CellInv'
BY Unchanged, SameAll

(* At each place of a copy, a move or a rename the content is where the    *)
(* rest of the operation counts on it to be.                               *)
THEOREM CellsInOrder == Spec => []CellInv
<1>1. StepInv /\ CellInv /\ [Next]_vars => CellInv'
  BY BeginsCells, CommandsCells, StepsCells, StutterCells DEF Next, Finished
<1>. QED BY InitCells, StepsInOrder, <1>1, PTL DEF Spec

(* FS_FILE_OK is returned only for what has been done, for whatever broke, *)
(* was refused, cancelled or repeated on the way: what was renamed is at   *)
(* the target and what was deleted is gone.  Of a copy that holds as long  *)
(* as no read or write of its data fails: a file that was put or copied is *)
(* then at the target with its content, and one that was got is the local  *)
(* file.                                                                   *)
THEOREM OkIsTrue == Spec => []OkMeansDone
<1>1. CellInv => OkMeansDone
  BY DEF CellInv, DoneInv
<1>. QED BY CellsInOrder, <1>1, PTL

(* A file that is renamed or moved on one server is at its old or its new  *)
(* place after every step, the removal of an existing target and every     *)
(* broken connection included.                                             *)
THEOREM RenameLosesNothing == Spec => []RenamedFileIsSomewhere
<1>1. StepInv /\ CellInv => RenamedFileIsSomewhere
  <2> SUFFICES ASSUME StepInv, CellInv, op.from = op.to, op.kind = "ren", op.move
               PROVE  Somewhere(op.content)
    BY DEF RenamedFileIsSomewhere, MovedFileIsSomewhere
  <2>1. /\ op.from \in Sites /\ op.to \in Sites /\ op.path \in Path /\ op.dest \in Path
        /\ pc \in Places /\ ShortWay
    BY OpParts DEF StepInv, TypeInv, OpTypes, ShortWay
  <2>2. op.content \subseteq Src \/ op.content \subseteq Dst
    <3>1. CASE pc = "idle"
      BY <3>1 DEF CellInv, DoneInv
    <3>2. CASE pc \in Early
      BY <2>1, <3>2 DEF CellInv, SourceInv, StepInv, KindInv, Early
    <3>3. CASE pc \in {"target gone", "moved"}
      BY <3>3 DEF CellInv, SourceInv, MovedInv
    <3>. QED BY <2>1, <3>1, <3>2, <3>3 DEF StepInv, KindInv, Places, Quiet, Early
  <2>. QED BY <2>1, <2>2 DEF Somewhere, Src, Dst
<1>. QED BY StepsInOrder, CellsInOrder, <1>1, PTL

-----------------------------------------------------------------------------
(* A quoted command starts in the session in which its cd has succeeded;   *)
(* only a repetition is run in a new one.                                  *)
DirInv ==
  /\ pc = "in dir" /\ Succeeded => mapper[op.to] = "up" /\ cwd[op.to] = op.dest[1]
  /\ pc = "done" /\ op.kind = "quote" /\ call # NoCall =>
       (call.tries = 0 => call.at = "run" /\ cwd[op.to] = op.dest[1])

LEMMA InitDir == Init => DirInv
BY DEF Init, DirInv

LEMMA BeginsDir == StepInv /\ Begins => DirInv'
<1> SUFFICES ASSUME StepInv, Begins PROVE DirInv'
  OBVIOUS
<1>1. pc' \notin {"in dir", "done"}
  BY BeginsStep DEF Begun, Aside
<1>. QED BY <1>1 DEF DirInv

LEMMA CommandsDir == StepInv /\ DirInv /\ Commands => DirInv'
<1> SUFFICES ASSUME StepInv, DirInv, Commands PROVE DirInv'
  OBVIOUS
<1>1. PICK s \in Sites : \/ Connect(s) \/ ConnectFails(s) \/ RunCommand(s)
                         \/ OpenDirRefused(s) \/ LoseConnection(s)
                         \/ GetHangs(s) \/ GetCrashes(s) \/ ClearsNullConfig(s)
  BY CommandParts
<1>2. UNCHANGED <<op, pc>> /\ call # NoCall
  BY CommandParts
<1>3. ASSUME pc = "in dir" PROVE Succeeded' => mapper'[op.to] = "up" /\ cwd'[op.to] = op.dest[1]
  <2>1. call.site = op.to /\ call.cmd = CdDest
    BY <1>2, <1>3 DEF StepInv, CallInv, Does
  <2>2. call.cmd.do = "cd" /\ call.cmd.dir = op.dest[1] /\ call.cmd # ConnectOnly
    BY <2>1, WhatTheyDo
  <2>3. CASE Connect(s)
    <3>1. call' # NoCall \/ ret'.ok = FALSE
      BY <1>2, <2>2, <2>3, ProceedFacts DEF StepInv, Connect
    <3>. QED BY <3>1 DEF Succeeded
  <2>4. CASE ConnectFails(s)
    <3>1. ret'.ok = FALSE
      BY <2>4 DEF ConnectFails, Returning, StepInv, TypeInv, SessionTypes, Result
    <3>. QED BY <3>1 DEF Succeeded
  <2>5. CASE RunCommand(s)
    <3>1. PICK o : /\ ret' = [ok |-> o.ok, got |-> HasRead(o)]
                   /\ cwd' = IF call.cmd.do = "cd" /\ o.ok
                             THEN [cwd EXCEPT ![s] = call.cmd.dir] ELSE cwd
      BY <2>5, RunCommandFacts
    <3>2. /\ call.site = s /\ mapper[s] = "up" /\ mapper' = mapper
      BY <2>5, RunningCommand DEF RunCommand
    <3>3. CASE o.ok
      <4>1. cwd' = [cwd EXCEPT ![s] = op.dest[1]]
        BY <2>2, <3>1, <3>3
      <4>2. cwd'[s] = op.dest[1]
        BY <4>1 DEF StepInv, TypeInv, SessionTypes
      <4>. QED BY <2>1, <3>2, <4>2
    <3>4. CASE ~o.ok
      BY <3>1, <3>4 DEF Succeeded
    <3>. QED BY <3>3, <3>4
  <2>6. CASE OpenDirRefused(s)
    BY <2>2, <2>6 DEF OpenDirRefused
  <2>7. CASE LoseConnection(s)
    BY <2>7, LoseConnectionFacts DEF Succeeded
  <2>8. CASE GetCrashes(s) \/ ClearsNullConfig(s)
    BY <1>2, <2>8 DEF GetCrashes, ClearsNullConfig, Succeeded
  <2>9. CASE GetHangs(s)
    BY <2>2, <2>9 DEF GetHangs, Downloads
  <2>. QED BY <1>1, <2>3, <2>4, <2>5, <2>6, <2>7, <2>8, <2>9
<1>4. ASSUME pc = "done", op.kind = "quote", call' # NoCall, call'.tries = 0
      PROVE  call'.at = "run" /\ cwd'[op.to] = op.dest[1]
  <2>1. call.tries \in 0 .. 2
    BY <1>2, CallParts DEF StepInv
  <2>2. CASE Connect(s)
    <3>1. call.at = "connect" /\ Proceed
      BY <2>2 DEF Connect, MustConnect
    <3>2. call.tries = 0
      BY <1>2, <1>4, <3>1, ProceedFacts DEF StepInv
    <3>. QED BY <1>2, <1>4, <3>1, <3>2 DEF DirInv
  <2>3. CASE ConnectFails(s) \/ RunCommand(s) \/ OpenDirRefused(s)
    BY <1>4, <2>3, Zenon DEF ConnectFails, Returning, RunCommand, OpenDirRefused
  <2>4. CASE LoseConnection(s)
    BY <1>4, <2>1, <2>4, LoseConnectionFacts
  <2>5. CASE GetCrashes(s) \/ ClearsNullConfig(s)
    <3>1. UNCHANGED <<call, cwd>>
      BY <2>5, Zenon DEF GetCrashes, ClearsNullConfig, session
    <3>. QED BY <1>2, <1>4, <3>1 DEF DirInv
  <2>6. CASE GetHangs(s)
    <3>1. call.cmd = RelativeCommand
      BY <1>2, <1>4 DEF StepInv, CallInv, Does
    <3>. QED BY <2>6, <3>1, WhatTheyDo DEF GetHangs, Downloads
  <2>. QED BY <1>1, <2>2, <2>3, <2>4, <2>5, <2>6
<1>. QED BY <1>2, <1>3, <1>4 DEF DirInv

LEMMA StepsDir == StepInv /\ DirInv /\ Steps => DirInv'
<1> SUFFICES ASSUME StepInv, DirInv, Steps PROVE DirInv'
  OBVIOUS
<1>1. CASE pc' \notin {"in dir", "done"}
  BY <1>1 DEF DirInv
<1>2. CASE ChangeDir
  <2>1. Starts(op.to, CdDest, "in dir")
    BY <1>2, ChangeDirStep
  <2>2. ~Succeeded' /\ pc' = "in dir"
    BY <2>1, WhatTheyDo, NotYet DEF Starts
  <2>. QED BY <2>2 DEF DirInv
<1>3. CASE Execute
  <2>1. Starts(op.to, RelativeCommand, "done") /\ pc = "in dir" /\ Succeeded
    BY <1>3, ExecuteStep
  <2>2. call' # NoCall /\ pc' = "done"
    BY <2>1, WhatTheyDo, NotYet DEF Starts
  <2>3. mapper[op.to] = "up" /\ cwd[op.to] = op.dest[1]
    BY <2>1 DEF DirInv
  <2>4. UNCHANGED <<op, cwd>>
    BY <2>1 DEF Starts
  <2>5. call'.at = "run"
    <3>1. RelativeCommand # ConnectOnly
      BY WhatTheyDo
    <3>. QED BY <2>1, <2>3, <3>1 DEF Starts, Started
  <2>. QED BY <2>2, <2>3, <2>4, <2>5 DEF DirInv
<1>4. CASE op.kind # "quote" /\ pc' = "done"
  <2>1. op'.kind = op.kind
    BY StepsKeep
  <2>. QED BY <1>4, <2>1 DEF DirInv
<1>. QED BY <1>1, <1>2, <1>3, <1>4, StepsGo

LEMMA StutterDir == DirInv /\ UNCHANGED vars => DirInv'
BY Unchanged DEF DirInv, Succeeded

(* The first run of a quoted command is in the directory it was meant for: *)
(* the cd before it has succeeded, in the very session that runs it.       *)
THEOREM QuotedWhereMeant == Spec => []FirstRunInItsDirectory
<1>1. StepInv /\ DirInv /\ [Next]_vars => DirInv'
  BY BeginsDir, CommandsDir, StepsDir, StutterDir DEF Next, Finished
<1>2. StepInv /\ DirInv => FirstRunInItsDirectory
  <2> SUFFICES ASSUME StepInv, DirInv, call # NoCall, call.tries = 0,
                      call.cmd.do = "relative", call.at = "run"
               PROVE  cwd[call.site] = call.cmd.dir
    BY DEF FirstRunInItsDirectory, QuotedInItsDirectory
  <2>1. pc \in Places \ Quiet
    BY DEF StepInv, TypeInv, OpTypes, CallInv
  <2>2. pc = "done" /\ call.cmd = RelativeCommand
    <3>1. \/ call.cmd \in {LsDest, RmDest, MvToDest, ConnectOnly, GetSource, RmSource,
                           PutDest, CdDest}
          \/ pc = "done"
      BY <2>1 DEF StepInv, CallInv, Does, Places, Quiet
    <3>2. pc = "done"
      BY <3>1, WhatTheyDo
    <3>3. op.kind = "quote"
      <4>1. op.kind \in {"rm", "rmdir", "mkdir", "quote"}
        BY <3>2 DEF StepInv, KindInv
      <4>2. op.kind # "quote" => call.cmd = OnDest
        BY <3>2 DEF StepInv, CallInv, Does
      <4>. QED BY <4>1, <4>2, WhatTheyDo
    <3>. QED BY <3>2, <3>3 DEF StepInv, CallInv, Does
  <2>3. op.kind = "quote"
    <3>1. op.kind # "quote" => call.cmd = OnDest
      BY <2>2 DEF StepInv, CallInv, Does
    <3>2. op.kind \in {"rm", "rmdir", "mkdir", "quote"}
      BY <2>2 DEF StepInv, KindInv
    <3>. QED BY <3>1, <3>2, WhatTheyDo
  <2>4. call.site = op.to /\ call.cmd.dir = op.dest[1]
    BY <2>2, <2>3, WhatTheyDo DEF StepInv, CallInv, Does
  <2>. QED BY <2>2, <2>3, <2>4 DEF DirInv
<1>. QED BY InitDir, StepsInOrder, <1>1, <1>2, PTL DEF Spec

-----------------------------------------------------------------------------
(* As long as no connection breaks, a command that fails has changed       *)
(* nothing.                                                                *)
Simple == op.kind \in {"rm", "rmdir", "mkdir"} \/ (ShortWay /\ ~op.exists)

FailInv ==
  /\ pc \in {"exists", "listed"} /\ ShortWay => ~op.exists
  /\ "lost" \notin faults /\ Simple /\ pc # "idle"
       /\ ~(pc \in {"moved", "done"} /\ Succeeded)
       => tree[op.to] = op.before
  /\ FailureChangesNothing

LEMMA InitFail == Init => FailInv
BY DEF Init, FailInv, FailureChangesNothing

LEMMA BeginsFail == StepInv /\ FailInv /\ Begins => FailInv'
<1> SUFFICES ASSUME StepInv, FailInv, Begins PROVE FailInv'
  OBVIOUS
<1>1. CASE Begun
  <2>1. /\ op'.exists = FALSE /\ op'.before = tree[op'.to] /\ tree' = tree
        /\ pc' # "idle"
    BY <1>1 DEF Begun, Stay
  <2>. QED BY <2>1 DEF FailInv, FailureChangesNothing
<1>2. CASE Aside
  <2>1. pc = "idle" /\ pc' = "idle" /\ UNCHANGED <<op, tree, reply, faults>>
    BY <1>2 DEF Aside, Stay
  <2>. QED BY <2>1 DEF FailInv, FailureChangesNothing, ShortWay
<1>. QED BY <1>1, <1>2, BeginsStep

LEMMA CommandsFail == StepInv /\ FailInv /\ Commands => FailInv'
<1> SUFFICES ASSUME StepInv, FailInv, Commands PROVE FailInv'
  OBVIOUS
<1>1. call # NoCall /\ UNCHANGED <<op, pc, reply, faults>>
  BY CommandEffect
<1>2. pc \in Places \ Quiet
  BY <1>1 DEF StepInv, CallInv, TypeInv, OpTypes
<1>3. ASSUME "lost" \notin faults, Simple, ~(pc \in {"moved", "done"} /\ Succeeded')
      PROVE  tree' = tree
  <2>1. pc \in {"listed", "moved", "done"}
    BY <1>2, <1>3 DEF StepInv, KindInv, Simple, ShortWay, Places, Quiet
  <2>2. CASE pc = "listed"
    BY <2>2, LooksOnly
  <2>3. CASE pc = "moved"
    BY <1>3, <2>3, MovesOnly
  <2>4. CASE pc = "done"
    <3>1. op.kind \in {"rm", "rmdir", "mkdir"}
      BY <1>3, <2>4 DEF StepInv, KindInv, Simple, ShortWay
    <3>2. call.cmd = OnDest
      BY <1>1, <2>4, <3>1 DEF StepInv, CallInv, Does
    <3>3. call.cmd.do \in {"rm", "rmdir", "mkdir"}
      BY <3>1, <3>2, WhatTheyDo
    <3>. QED BY <1>3, <2>4, <3>3, OneCell
  <2>. QED BY <2>1, <2>2, <2>3, <2>4
<1>4. Simple' <=> Simple
  BY <1>1 DEF Simple, ShortWay
<1>5. ASSUME "lost" \notin faults', Simple', ~(pc' \in {"moved", "done"} /\ Succeeded')
      PROVE  tree'[op'.to] = op'.before
  <2>1. tree' = tree
    BY <1>1, <1>3, <1>4, <1>5
  <2>2. tree[op.to] = op.before
    BY <1>1, <1>2, <1>4, <1>5 DEF FailInv, Succeeded, Quiet
  <2>. QED BY <1>1, <2>1, <2>2
<1>6. FailureChangesNothing'
  BY <1>1, <1>2 DEF FailureChangesNothing, Quiet
<1>. QED BY <1>1, <1>5, <1>6 DEF FailInv, ShortWay

(* Where the steps of an operation come from. *)
LEMMA StepsFrom ==
  ASSUME StepInv, Steps
  PROVE  /\ pc # "idle"
         /\ pc = "moved" => Renamed
         /\ pc = "done" => Done
         /\ op'.exists = op.exists \/ pc \in {"exists", "listed"}
         /\ pc' \in {"exists", "listed"} =>
              (pc = "exists" /\ op'.exists = op.exists) \/ ~ShortWay
<1>1. CASE LookInCache \/ Listed \/ NotListed
  BY <1>1, LookInCacheStep, ListedStep, NotListedStep DEF LooksUp
<1>2. CASE LookOnServer
  BY <1>2, LookOnServerStep DEF Starts
<1>3. CASE RenameDirectly \/ RemoveTarget \/ RenameAfterRemove \/ GetAscii \/ StartGet
        \/ PutAscii \/ StartPut \/ ChangeDir \/ Execute
  BY <1>3, RenameStep, RemoveTargetStep, GetAsciiStep, StartGetStep,
     PutAsciiStep, StartPutStep, ChangeDirStep, ExecuteStep DEF Starts
<1>4. CASE StartRemove \/ StartMkDir
  BY <1>4, StartRemoveStep, StartMkDirStep DEF Starts
<1>5. CASE ListDone
  <2>1. pc \in {"listed", "decide"} /\ op' = op /\ pc' = "idle"
    BY <1>5, Zenon DEF ListDone, At, Return
  <2>. QED BY <2>1
<1>6. CASE AskFirst \/ Renamed \/ GetFailed \/ SourceStays \/ PutUnreadable
        \/ Stored \/ NotStored \/ Done \/ NotInDir
  BY <1>6, AskFirstStep, RenamedStep, GetFailedStep, SourceStaysStep,
     PutUnreadableStep, StoredStep, NotStoredStep, DoneStep, NotInDirStep DEF Returns
<1>7. CASE SlowWay \/ GotAndRemove
  BY <1>7, SlowWayStep, GotAndRemoveStep
<1>8. CASE Got \/ SourceRemoved
  <2>1. pc \in {"got", "source gone"} /\ op' = op
    BY <1>8, GotStep, SourceRemovedStep DEF Fetched
  <2>2. ~ShortWay
    BY <2>1 DEF StepInv, KindInv
  <2>. QED BY <2>1, <2>2
<1>9. CASE PutNoMapper
  BY <1>9, PutNoMapperStep DEF opVars
<1>. QED BY <1>1, <1>2, <1>3, <1>4, <1>5, <1>6, <1>7, <1>8, <1>9 DEF Steps

LEMMA StepsFail == StepInv /\ FailInv /\ Steps => FailInv'
<1> SUFFICES ASSUME StepInv, FailInv, Steps PROVE FailInv'
  OBVIOUS
<1>1. /\ UNCHANGED <<faults, tree>> /\ call = NoCall
      /\ UNCHANGED <<op.kind, op.from, op.to, op.move, op.before>>
  BY StepsKeep
<1>2. pc' \in {"exists", "listed"} /\ ShortWay' => ~op'.exists
  BY <1>1, StepsFrom DEF FailInv, ShortWay
<1>3. Simple' => Simple
  BY <1>1, StepsFrom DEF FailInv, Simple, ShortWay
<1>4. ASSUME "lost" \notin faults', Simple',
             pc \notin {"moved", "done"} \/ ~Succeeded
      PROVE  tree'[op'.to] = op'.before
  <2>1. pc # "idle"
    BY StepsFrom
  <2>. QED BY <1>1, <1>3, <1>4, <2>1 DEF FailInv
<1>5. pc \in {"moved", "done"} /\ Succeeded => pc' = "idle" /\ reply' = "OK"
  <2>1. CASE pc = "moved"
    BY <2>1, StepsFrom, RenamedStep DEF Returns, Succeeded
  <2>2. CASE pc = "done"
    BY <2>2, StepsFrom, DoneStep DEF Returns, Succeeded
  <2>. QED BY <2>1, <2>2
<1>6. FailureChangesNothing'
  BY <1>4, <1>5 DEF FailureChangesNothing, Simple
<1>. QED BY <1>2, <1>4, <1>5, <1>6 DEF FailInv

LEMMA StutterFail == FailInv /\ UNCHANGED vars => FailInv'
BY Unchanged DEF FailInv, Simple, ShortWay, Succeeded, FailureChangesNothing

(* A delete, a new directory or a rename that is answered with a failure   *)
(* has left the server as it was, unless a connection broke: then the      *)
(* repeated command may fail because the first one was carried out.        *)
THEOREM FailureIsHarmless == Spec => []FailureChangesNothing
<1>1. StepInv /\ FailInv /\ [Next]_vars => FailInv'
  BY BeginsFail, CommandsFail, StepsFail, StutterFail DEF Next, Finished
<1>2. FailInv => FailureChangesNothing
  BY DEF FailInv
<1>. QED BY InitFail, StepsInOrder, <1>1, <1>2, PTL DEF Spec

-----------------------------------------------------------------------------
(* The listings. *)
LEMMA ListingKept ==
  ASSUME StepInv, NEW s \in Sites, NEW p \in Path, NEW x, Changes(s, p, x),
         NEW r \in Sites, NEW d \in Dirs, ~(r = s /\ d = p[1])
  PROVE  Listing(tree'[r], d) = Listing(tree[r], d)
<1>1. ASSUME NEW n \in Names PROVE tree'[r][<<d, n>>] = tree[r][<<d, n>>]
  <2>1. <<d, n>> \in Path /\ (<<d, n>> = p => d = p[1])
    BY DEF Path
  <2>. QED BY <2>1, CellFacts
<1>. QED BY <1>1 DEF Listing

LEMMA MovesListings ==
  ASSUME StepInv, Moves
  PROVE  /\ \A r \in Sites, d \in Dirs :
              ~(r = op.to /\ d \in {op.path[1], op.dest[1]}) =>
                Listing(tree'[r], d) = Listing(tree[r], d)
         /\ op.path[1] # op.dest[1] =>
              Listing(tree'[op.to], op.path[1]) = Listing(tree[op.to], op.path[1]) \ {op.path[2]}
<1>. /\ op.to \in Sites /\ op.path \in Path /\ op.dest \in Path
     /\ op.path = <<op.path[1], op.path[2]>> /\ op.path[1] \in Dirs /\ op.path[2] \in Names
     /\ op.dest[1] \in Dirs
  BY OpParts DEF StepInv
<1>1. ASSUME NEW r \in Sites, NEW d \in Dirs, ~(r = op.to /\ d \in {op.path[1], op.dest[1]})
      PROVE  Listing(tree'[r], d) = Listing(tree[r], d)
  <2>1. ASSUME NEW n \in Names PROVE tree'[r][<<d, n>>] = tree[r][<<d, n>>]
    <3>1. /\ <<d, n>> \in Path /\ (<<d, n>> = op.path => d = op.path[1])
          /\ <<d, n>> = op.dest => d = op.dest[1]
      BY DEF Path
    <3>. QED BY <1>1, <3>1, MovesFacts
  <2>. QED BY <2>1 DEF Listing
<1>2. ASSUME op.path[1] # op.dest[1]
      PROVE  Listing(tree'[op.to], op.path[1]) = Listing(tree[op.to], op.path[1]) \ {op.path[2]}
  <2>1. tree'[op.to][<<op.path[1], op.path[2]>>] = {}
    BY MovesFacts
  <2>2. ASSUME NEW n \in Names, n # op.path[2]
        PROVE  tree'[op.to][<<op.path[1], n>>] = tree[op.to][<<op.path[1], n>>]
    <3>1. /\ <<op.path[1], n>> \in Path
          /\ <<op.path[1], n>> # op.path /\ <<op.path[1], n>> # op.dest
      BY <1>2, <2>2 DEF Path
    <3>. QED BY <3>1, MovesFacts
  <2>. QED BY <2>1, <2>2 DEF Listing
<1>. QED BY <1>1, <1>2

Mirrors(s, d) == cache[s][d] # NotCached => cache[s][d] = Listing(tree[s], d)

(* ... but for the one an operation is about to correct. *)
Stale(s, d) ==
  /\ Succeeded /\ s = op.to
  /\ \/ pc = "moved" /\ d \in {op.path[1], op.dest[1]}
     \/ pc = "stored" /\ d = op.dest[1]
     \/ pc = "done" /\ op.kind = "mkdir" /\ d = op.dest[1]

(* What has been looked up is true, and what is about to change is not     *)
(* cached.                                                                 *)
LookedUp ==
  /\ pc \in {"target gone", "done"} /\ op.kind # "mkdir" =>
       cache[op.to][op.dest[1]] = NotCached
  /\ pc = "source gone" => cache[op.from][op.path[1]] = NotCached
  /\ pc = "listed" /\ Succeeded => ret.got = Listing(tree[op.to], op.dest[1])
  /\ pc \in {"decide", "put"} /\ ~op.exists => Dst = {}
  /\ pc = "stored" /\ call # NoCall /\ ~op.exists => Dst = {}
  /\ pc = "moved" /\ Succeeded =>
       (cache[op.to][op.path[1]] # NotCached /\ op.path[1] # op.dest[1] =>
          Listing(tree[op.to], op.path[1]) = cache[op.to][op.path[1]] \ {op.path[2]})

CacheInv ==
  Harmless => /\ \A s \in Sites, d \in Dirs : Stale(s, d) \/ Mirrors(s, d)
              /\ LookedUp

LEMMA InitCache == Init => CacheInv
BY DEF Init, SessionInit, CacheInv, Mirrors, LookedUp, EmptyCache

LEMMA BeginsCache == StepInv /\ CacheInv /\ Begins => CacheInv'
<1> SUFFICES ASSUME StepInv, CacheInv, Begins, Harmless' PROVE CacheInv'
  BY DEF CacheInv
<1>1. Stay /\ pc' \in {"idle", "exists", "get ascii", "rm", "rmdir", "mkdir", "quote"}
  BY BeginsStep DEF Begun, Aside
<1>2. /\ pc = "idle" /\ UNCHANGED <<faults, tree>>
      /\ \A s \in Sites, d \in Dirs : cache'[s][d] \in {cache[s][d], NotCached}
  BY <1>1, Zenon DEF Stay
<1>3. Harmless
  <2>1. quoted' = quoted \/ quoted' = TRUE
    BY <1>1, Zenon DEF Stay
  <2>2. ~quoted
    BY <2>1 DEF Harmless
  <2>. QED BY <1>2, <2>2 DEF Harmless
<1>4. \A s \in Sites, d \in Dirs : Mirrors(s, d)
  BY <1>2, <1>3 DEF CacheInv, Stale
<1>5. \A s \in Sites, d \in Dirs : Mirrors(s, d)'
  BY <1>2, <1>4 DEF Mirrors
<1>6. LookedUp'
  BY <1>1 DEF LookedUp
<1>. QED BY <1>5, <1>6 DEF CacheInv

(* A listing that has been read is the one of the server. *)
LEMMA ListsAll ==
  ASSUME StepInv, Commands, Harmless, pc = "listed", Succeeded'
  PROVE  ret'.got = Listing(tree[op.to], op.dest[1])
<1>1. /\ call # NoCall /\ call.site \in Sites
      /\ Idles \/ Ran \/ Broke
  BY CommandEffect
<1>2. call.site = op.to /\ call.cmd = LsDest
  BY <1>1 DEF StepInv, CallInv, Does
<1>3. call.cmd.do = "ls" /\ call.cmd.dir = op.dest[1] /\ call.cmd # ConnectOnly
  BY <1>2, WhatTheyDo
<1>4. "lost" \notin faults /\ "denied" \notin faults /\ "shortls" \notin faults
  BY DEF Harmless
<1>5. Ran
  BY <1>1, <1>3, <1>4 DEF Idles, Broke, Succeeded, MayBreak
<1>6. PICK o : /\ o \in Outcomes(call.site, call.cmd)
               /\ ret' = [ok |-> o.ok, got |-> HasRead(o)]
  BY <1>5 DEF Ran
<1>7. o \in List(tree[op.to], op.dest[1])
  BY <1>2, <1>3, <1>4, <1>6 DEF Outcomes
<1>8. o = Outcome(tree[op.to], TRUE, Listing(tree[op.to], op.dest[1]))
  BY <1>4, <1>7 DEF List
<1>9. o.got = Listing(tree[op.to], op.dest[1])
  BY <1>8 DEF Outcome
<1>. QED BY <1>3, <1>6, <1>9 DEF HasRead

(* What a command may leave of the listings. *)
LEMMA MirrorsKept ==
  ASSUME StepInv, NEW r \in Sites, NEW d \in Dirs, Mirrors(r, d),
         cache'[r][d] \in {cache[r][d], NotCached},
         \/ tree' = tree
         \/ cache[r][d] = NotCached
         \/ \E s \in Sites, p \in Path : \E x : Changes(s, p, x) /\ ~(r = s /\ d = p[1])
  PROVE  Mirrors(r, d)'
<1>1. CASE tree' = tree
  BY <1>1 DEF Mirrors
<1>2. CASE cache[r][d] = NotCached
  BY <1>2 DEF Mirrors
<1>3. CASE \E s \in Sites, p \in Path : \E x : Changes(s, p, x) /\ ~(r = s /\ d = p[1])
  <2>1. Listing(tree'[r], d) = Listing(tree[r], d)
    BY <1>3, ListingKept
  <2>. QED BY <2>1 DEF Mirrors
<1>. QED BY <1>1, <1>2, <1>3

LEMMA CommandsCache == StepInv /\ CacheInv /\ Commands => CacheInv'
<1> SUFFICES ASSUME StepInv, CacheInv, Commands, Harmless' PROVE CacheInv'
  BY DEF CacheInv
<1>1. /\ call # NoCall /\ UNCHANGED <<op, pc, local, quoted, faults>>
      /\ \A r \in Sites, d \in Dirs : cache'[r][d] \in {cache[r][d], NotCached}
  BY CommandEffect
<1>2. Harmless /\ "lost" \notin faults /\ ~MayBreak(PutDest) /\ Exact
  BY <1>1 DEF Harmless, MayBreak, MayStop, Exact
<1>3. (\A s \in Sites, d \in Dirs : Mirrors(s, d)) /\ LookedUp
  BY <1>1, <1>2 DEF CacheInv, Stale, Succeeded
<1>4. /\ op.from \in Sites /\ op.to \in Sites /\ op.path \in Path /\ op.dest \in Path
      /\ op.path[1] \in Dirs /\ op.dest[1] \in Dirs
  BY OpParts DEF StepInv
<1>5. pc \in Places \ Quiet
  BY <1>1 DEF StepInv, CallInv, TypeInv, OpTypes
<1>6. op.kind # "quote"
  BY <1>2, <1>5 DEF StepInv, KindInv, Harmless, Quiet
<1>7. ASSUME tree' = tree PROVE \A s \in Sites, d \in Dirs : Mirrors(s, d)'
  BY <1>1, <1>3, <1>7, MirrorsKept
<1>8. ASSUME NEW s \in Sites, NEW p \in Path, NEW x, tree' = tree \/ Changes(s, p, x),
             cache[s][p[1]] = NotCached
      PROVE  \A r \in Sites, d \in Dirs : Mirrors(r, d)'
  BY <1>1, <1>3, <1>8, MirrorsKept
<1>9. CASE pc \in {"listed", "get", "got", "put", "in dir"}
  <2>1. tree' = tree
    BY <1>9, LooksOnly
  <2>2. pc = "listed" /\ Succeeded' => ret'.got = Listing(tree'[op'.to], op'.dest[1])
    BY <1>1, <1>2, <2>1, ListsAll
  <2>3. Dst' = Dst
    BY <1>1, <2>1 DEF Dst
  <2>4. LookedUp'
    BY <1>1, <1>3, <1>9, <2>2, <2>3 DEF LookedUp
  <2>. QED BY <1>7, <2>1, <2>4 DEF CacheInv
<1>10. CASE pc = "target gone"
  <2>1. call.site = op.to /\ call.cmd = RmDest
    BY <1>1, <1>10 DEF StepInv, CallInv, Does
  <2>2. call.cmd.do = "rm" /\ call.cmd.path = op.dest
    BY <2>1, WhatTheyDo
  <2>3. tree' = tree \/ Changes(op.to, op.dest, {})
    BY <2>1, <2>2, OneCell
  <2>4. cache[op.to][op.dest[1]] = NotCached
    BY <1>3, <1>10 DEF LookedUp, StepInv, KindInv, ShortWay
  <2>5. \A r \in Sites, d \in Dirs : Mirrors(r, d)'
    BY <1>4, <1>8, <2>3, <2>4
  <2>6. LookedUp'
    BY <1>1, <1>4, <1>10, <2>4 DEF LookedUp
  <2>. QED BY <2>5, <2>6 DEF CacheInv
<1>11. CASE pc = "moved"
  <2>1. CASE tree' = tree /\ ~Succeeded'
    <3>1. LookedUp'
      BY <1>1, <1>11, <2>1 DEF LookedUp
    <3>. QED BY <1>7, <2>1, <3>1 DEF CacheInv
  <2>2. CASE Moves /\ Succeeded'
    <3>1. ASSUME NEW r \in Sites, NEW d \in Dirs
          PROVE  Stale(r, d)' \/ Mirrors(r, d)'
      <4>1. CASE r = op.to /\ d \in {op.path[1], op.dest[1]}
        BY <1>1, <1>11, <2>2, <4>1 DEF Stale
      <4>2. CASE ~(r = op.to /\ d \in {op.path[1], op.dest[1]})
        <5>1. Listing(tree'[r], d) = Listing(tree[r], d)
          BY <2>2, <4>2, MovesListings
        <5>. QED BY <1>1, <1>3, <5>1 DEF Mirrors
      <4>. QED BY <4>1, <4>2
    <3>2. ASSUME cache'[op.to][op.path[1]] # NotCached, op.path[1] # op.dest[1]
          PROVE  Listing(tree'[op.to], op.path[1]) = cache'[op.to][op.path[1]] \ {op.path[2]}
      <4>1. cache'[op.to][op.path[1]] = cache[op.to][op.path[1]]
        BY <1>1, <1>4, <3>2
      <4>2. cache[op.to][op.path[1]] = Listing(tree[op.to], op.path[1])
        BY <1>3, <1>4, <3>2, <4>1 DEF Mirrors
      <4>. QED BY <2>2, <3>2, <4>1, <4>2, MovesListings
    <3>3. LookedUp'
      BY <1>1, <1>11, <3>2 DEF LookedUp
    <3>. QED BY <3>1, <3>3 DEF CacheInv
  <2>. QED BY <1>2, <1>11, <2>1, <2>2, MovesOnly
<1>12. CASE pc = "source gone"
  <2>1. call.site = op.from /\ call.cmd = RmSource
    BY <1>1, <1>12 DEF StepInv, CallInv, Does
  <2>2. call.cmd.do = "rm" /\ call.cmd.path = op.path
    BY <2>1, WhatTheyDo
  <2>3. tree' = tree \/ Changes(op.from, op.path, {})
    BY <2>1, <2>2, OneCell
  <2>4. cache[op.from][op.path[1]] = NotCached
    BY <1>3, <1>12 DEF LookedUp
  <2>5. \A r \in Sites, d \in Dirs : Mirrors(r, d)'
    BY <1>4, <1>8, <2>3, <2>4
  <2>6. LookedUp'
    BY <1>1, <1>4, <1>12, <2>4 DEF LookedUp
  <2>. QED BY <2>5, <2>6 DEF CacheInv
<1>13. CASE pc = "stored"
  <2>1. CASE Succeeded' /\ Changes(op.to, op.dest, local)
    <3>1. ASSUME NEW r \in Sites, NEW d \in Dirs
          PROVE  Stale(r, d)' \/ Mirrors(r, d)'
      <4>1. CASE r = op.to /\ d = op.dest[1]
        BY <1>1, <1>13, <2>1, <4>1 DEF Stale
      <4>2. CASE ~(r = op.to /\ d = op.dest[1])
        BY <1>1, <1>3, <1>4, <2>1, <4>2, MirrorsKept
      <4>. QED BY <4>1, <4>2
    <3>2. LookedUp'
      BY <1>1, <1>13, <2>1 DEF LookedUp, Succeeded
    <3>. QED BY <3>1, <3>2 DEF CacheInv
  <2>2. CASE ~Succeeded' /\ tree' = tree
    <3>1. Dst' = Dst
      BY <1>1, <2>2 DEF Dst
    <3>2. LookedUp'
      BY <1>1, <1>3, <1>13, <3>1 DEF LookedUp
    <3>. QED BY <1>7, <2>2, <3>2 DEF CacheInv
  <2>. QED BY <1>2, <1>13, <2>1, <2>2, PutsOnly
<1>14. CASE pc = "done"
  <2>1. op.kind \in {"rm", "rmdir", "mkdir"}
    BY <1>6, <1>14 DEF StepInv, KindInv
  <2>2. call.site = op.to /\ call.cmd = OnDest
    BY <1>1, <1>14, <2>1 DEF StepInv, CallInv, Does
  <2>3. call.cmd.do = op.kind /\ call.cmd.path = op.dest
    BY <2>2, WhatTheyDo
  <2>4. CASE op.kind # "mkdir"
    <3>1. tree' = tree \/ Changes(op.to, op.dest, {})
      BY <2>1, <2>2, <2>3, <2>4, OneCell
    <3>2. cache[op.to][op.dest[1]] = NotCached
      BY <1>3, <1>14, <2>4 DEF LookedUp
    <3>3. \A r \in Sites, d \in Dirs : Mirrors(r, d)'
      BY <1>4, <1>8, <3>1, <3>2
    <3>4. LookedUp'
      BY <1>1, <1>4, <1>14, <3>2 DEF LookedUp
    <3>. QED BY <3>3, <3>4 DEF CacheInv
  <2>5. CASE op.kind = "mkdir"
    <3>1. \/ tree' = tree
          \/ Changes(op.to, op.dest, {Directory}) /\ Succeeded'
      BY <1>2, <2>2, <2>3, <2>5, OneCell
    <3>2. LookedUp'
      BY <1>1, <1>14, <2>5 DEF LookedUp
    <3>3. CASE tree' = tree
      BY <1>7, <3>2, <3>3 DEF CacheInv
    <3>4. CASE Changes(op.to, op.dest, {Directory}) /\ Succeeded'
      <4>1. ASSUME NEW r \in Sites, NEW d \in Dirs
            PROVE  Stale(r, d)' \/ Mirrors(r, d)'
        <5>1. CASE r = op.to /\ d = op.dest[1]
          BY <1>1, <1>14, <2>5, <3>4, <5>1 DEF Stale
        <5>2. CASE ~(r = op.to /\ d = op.dest[1])
          BY <1>1, <1>3, <1>4, <3>4, <5>2, MirrorsKept
        <5>. QED BY <5>1, <5>2
      <4>. QED BY <3>2, <4>1 DEF CacheInv
    <3>. QED BY <3>1, <3>3, <3>4
  <2>. QED BY <2>4, <2>5
<1>. QED BY <1>5, <1>9, <1>10, <1>11, <1>12, <1>13, <1>14 DEF Places, Quiet

LEMMA EraseFacts ==
  ASSUME NEW c \in Listings, NEW s \in Sites, NEW p \in Path
  PROVE  /\ Erase(c, s, p)[s][p[1]] = NotCached
         /\ \A r \in Sites, d \in Dirs :
              ~(r = s /\ d = p[1]) => Erase(c, s, p)[r][d] = c[r][d]
<1>1. p[1] \in Dirs
  BY DEF Path
<1>. QED BY <1>1 DEF Erase, Listings

LEMMA RemoveNameFacts ==
  ASSUME StepInv, NEW s \in Sites, NEW p \in Path
  PROVE  /\ RemoveName(cache, s, p)[s][p[1]] \in {NotCached, cache[s][p[1]] \ {p[2]}}
         /\ \A r \in Sites, d \in Dirs :
              ~(r = s /\ d = p[1]) => RemoveName(cache, s, p)[r][d] = cache[r][d]
<1>1. p[1] \in Dirs /\ cache \in Listings
  BY CacheTypes DEF Path
<1>2. CASE cache[s][p[1]] = NotCached
  BY <1>2 DEF RemoveName
<1>3. CASE cache[s][p[1]] # NotCached
  BY <1>1, <1>3 DEF RemoveName, Listings
<1>. QED BY <1>2, <1>3

(* A name is looked up in a listing that is true. *)
LEMMA LooksUpTruly ==
  ASSUME StepInv, NEW names, LooksUp(names), names = Listing(tree[op.to], op.dest[1])
  PROVE  LookedUp'
<1>1. /\ op.dest = <<op.dest[1], op.dest[2]>> /\ op.dest[2] \in Names
  BY OpParts DEF StepInv
<1>2. /\ pc' = "decide" /\ op'.kind = op.kind /\ op'.to = op.to /\ op'.dest = op.dest
      /\ op'.exists = (op.dest[2] \in names) /\ tree' = tree
  BY Zenon DEF LooksUp
<1>3. ~op'.exists => Dst' = {}
  <2>1. ASSUME ~op'.exists PROVE tree[op.to][<<op.dest[1], op.dest[2]>>] = {}
    BY <1>1, <1>2, <2>1 DEF Listing
  <2>. QED BY <1>1, <1>2, <2>1 DEF Dst
<1>. QED BY <1>2, <1>3 DEF LookedUp

(* After a rename the listings of both directories are true or gone.       *)
LEMMA MovedListingsAreTrue ==
  ASSUME StepInv, pc = "moved", Succeeded, LookedUp, NEW s \in Sites, NEW d \in Dirs,
         Stale(s, d) \/ Mirrors(s, d), cache' = MovedListings, tree' = tree
  PROVE  Mirrors(s, d)'
<1> DEFINE c == RemoveName(cache, op.to, op.path)
<1>1. /\ op.to \in Sites /\ op.path \in Path /\ op.dest \in Path
      /\ op.path[1] \in Dirs /\ op.dest[1] \in Dirs
  BY OpParts DEF StepInv
<1>2. c \in Listings /\ cache' = Erase(c, op.to, op.dest)
  BY CacheTypes DEF MovedListings
<1>3. CASE s = op.to /\ d = op.dest[1]
  <2>1. cache'[s][d] = NotCached
    BY <1>1, <1>2, <1>3, EraseFacts
  <2>. QED BY <2>1 DEF Mirrors
<1>4. CASE s = op.to /\ d = op.path[1] /\ d # op.dest[1]
  <2>1. cache'[s][d] = c[s][d]
    BY <1>1, <1>2, <1>4, EraseFacts
  <2>2. c[s][d] \in {NotCached, cache[s][d] \ {op.path[2]}}
    BY <1>1, <1>4, RemoveNameFacts
  <2>3. CASE cache[s][d] = NotCached
    <3>1. c[s][d] = NotCached
      BY <1>4, <2>3 DEF RemoveName
    <3>. QED BY <2>1, <3>1 DEF Mirrors
  <2>4. CASE cache[s][d] # NotCached
    <3>1. Listing(tree[s], d) = cache[s][d] \ {op.path[2]}
      BY <1>4, <2>4 DEF LookedUp
    <3>. QED BY <2>1, <2>2, <3>1 DEF Mirrors
  <2>. QED BY <2>3, <2>4
<1>5. CASE ~(s = op.to /\ d \in {op.path[1], op.dest[1]})
  <2>1. cache'[s][d] = c[s][d]
    BY <1>1, <1>2, <1>5, EraseFacts
  <2>2. c[s][d] = cache[s][d]
    BY <1>1, <1>5, RemoveNameFacts
  <2>3. ~Stale(s, d)
    BY <1>5 DEF Stale
  <2>. QED BY <2>1, <2>2, <2>3 DEF Mirrors
<1>. QED BY <1>3, <1>4, <1>5

(* The directory that has changed is erased from the cache. *)
LEMMA ErasedIsTrue ==
  ASSUME StepInv, cache' = Erase(cache, op.to, op.dest), tree' = tree,
         \A s \in Sites, d \in Dirs : ~(s = op.to /\ d = op.dest[1]) => Mirrors(s, d)
  PROVE  \A s \in Sites, d \in Dirs : Mirrors(s, d)'
<1>1. op.to \in Sites /\ op.dest \in Path /\ op.dest[1] \in Dirs
  BY OpParts DEF StepInv
<1> SUFFICES ASSUME NEW s \in Sites, NEW d \in Dirs PROVE Mirrors(s, d)'
  OBVIOUS
<1>2. CASE s = op.to /\ d = op.dest[1]
  <2>1. cache'[s][d] = NotCached
    BY <1>1, <1>2, CacheTypes, EraseFacts
  <2>. QED BY <2>1 DEF Mirrors
<1>3. CASE ~(s = op.to /\ d = op.dest[1])
  <2>1. cache'[s][d] = cache[s][d]
    BY <1>1, <1>3, CacheTypes, EraseFacts
  <2>. QED BY <1>3, <2>1 DEF Mirrors
<1>. QED BY <1>2, <1>3

LEMMA ReadIsTrue ==
  ASSUME StepInv, tree' = tree, NEW names,
         names = Listing(tree[op.to], op.dest[1]),
         cache' = UpdateDirCache(op.to, op.dest[1], names),
         \A s \in Sites, d \in Dirs : Mirrors(s, d)
  PROVE  \A s \in Sites, d \in Dirs : Mirrors(s, d)'
<1>1. op.to \in Sites /\ op.dest[1] \in Dirs /\ cache \in Listings
  BY OpParts, CacheTypes DEF StepInv
<1> SUFFICES ASSUME NEW s \in Sites, NEW d \in Dirs PROVE Mirrors(s, d)'
  OBVIOUS
<1>2. \/ cache'[s][d] \in {NotCached, cache[s][d]}
      \/ s = op.to /\ d = op.dest[1] /\ cache'[s][d] = names
  BY <1>1 DEF UpdateDirCache, Listings, EmptyCache
<1>. QED BY <1>2 DEF Mirrors

LEMMA StepsCache == StepInv /\ CacheInv /\ Steps => CacheInv'
<1> SUFFICES ASSUME StepInv, CacheInv, Steps, Harmless' PROVE CacheInv'
  BY DEF CacheInv
<1>1. /\ UNCHANGED <<faults, tree, quoted>> /\ call = NoCall
      /\ UNCHANGED <<op.kind, op.from, op.path, op.to, op.dest>>
  BY StepsKeep
<1>2. Harmless
  BY <1>1 DEF Harmless
<1>3. LookedUp /\ \A s \in Sites, d \in Dirs : Stale(s, d) \/ Mirrors(s, d)
  BY <1>2 DEF CacheInv
<1>4. op.from \in Sites /\ op.to \in Sites /\ op.path \in Path /\ op.dest \in Path
  BY OpParts DEF StepInv
<1>5. Dst' = Dst
  BY <1>1 DEF Dst
<1>6. pc \notin {"moved", "stored", "done"} \/ ~Succeeded =>
        \A s \in Sites, d \in Dirs : Mirrors(s, d)
  BY <1>3 DEF Stale
<1>7. cache' = cache /\ (pc \notin {"moved", "stored", "done"} \/ ~Succeeded) =>
        \A s \in Sites, d \in Dirs : Mirrors(s, d)'
  BY <1>1, <1>6 DEF Mirrors
<1>8. CASE LookInCache
  <2>1. /\ LooksUp(cache[op.to][op.dest[1]]) /\ pc = "exists" /\ cache' = cache
        /\ cache[op.to][op.dest[1]] # NotCached
    BY <1>8, LookInCacheStep
  <2>2. cache[op.to][op.dest[1]] = Listing(tree[op.to], op.dest[1])
    BY <1>6, <2>1, OpParts DEF Mirrors, StepInv
  <2>. QED BY <1>7, <2>1, <2>2, LooksUpTruly DEF CacheInv
<1>9. CASE Listed
  <2>1. /\ LooksUp(ret.got) /\ pc = "listed" /\ Succeeded
        /\ cache' = UpdateDirCache(op.to, op.dest[1], ret.got)
    BY <1>9, ListedStep
  <2>2. ret.got = Listing(tree[op.to], op.dest[1])
    BY <1>3, <2>1 DEF LookedUp
  <2>3. LookedUp'
    BY <2>1, <2>2, LooksUpTruly
  <2>4. \A s \in Sites, d \in Dirs : Mirrors(s, d)'
    BY <1>1, <1>6, <2>1, <2>2, ReadIsTrue
  <2>. QED BY <2>3, <2>4 DEF CacheInv
<1>10. CASE NotListed
  <2>1. LooksUp(Names) /\ pc = "listed" /\ cache' = cache
    BY <1>10, NotListedStep
  <2>2. pc' = "decide" /\ op'.exists
    BY <2>1, OpParts DEF LooksUp, StepInv
  <2>3. LookedUp'
    BY <2>2 DEF LookedUp
  <2>. QED BY <1>7, <2>1, <2>3 DEF CacheInv
<1>11. CASE LookOnServer \/ RenameDirectly \/ RenameAfterRemove \/ StartGet \/ StartMkDir
  <2>1. \/ pc' = "listed" /\ Starts(op.to, LsDest, "listed")
        \/ pc' = "moved" /\ Starts(op.to, MvToDest, "moved")
        \/ pc' = "got"
        \/ pc' = "done" /\ op'.kind = "mkdir"
    BY <1>1, <1>11, LookOnServerStep, RenameStep, StartGetStep, StartMkDirStep DEF Starts
  <2>2. /\ Starts(op.to, LsDest, "listed") => ~Succeeded'
        /\ Starts(op.to, MvToDest, "moved") => ~Succeeded'
    BY WhatTheyDo, NotYet DEF Starts
  <2>3. LookedUp'
    BY <2>1, <2>2 DEF LookedUp
  <2>4. cache' = cache /\ pc \notin {"moved", "stored", "done"}
    BY <1>11, LookOnServerStep, RenameStep, StartGetStep, StartMkDirStep
  <2>. QED BY <1>7, <2>3, <2>4 DEF CacheInv
<1>12. CASE RemoveTarget \/ StartRemove
  <2>1. /\ cache' = Erase(cache, op.to, op.dest) /\ pc' \in {"target gone", "done"}
        /\ pc \notin {"moved", "stored", "done"}
    BY <1>12, RemoveTargetStep, StartRemoveStep DEF Starts
  <2>2. cache'[op.to][op.dest[1]] = NotCached
    BY <1>4, <2>1, CacheTypes, EraseFacts
  <2>3. LookedUp'
    BY <1>1, <2>1, <2>2 DEF LookedUp
  <2>4. \A s \in Sites, d \in Dirs : Mirrors(s, d)'
    BY <1>1, <1>6, <2>1, ErasedIsTrue
  <2>. QED BY <2>3, <2>4 DEF CacheInv
<1>13. CASE GetAscii \/ ChangeDir
  <2>1. cache' = cache /\ pc' \in {"get", "in dir"} /\ pc \notin {"moved", "stored", "done"}
    BY <1>13, GetAsciiStep, ChangeDirStep DEF Starts
  <2>2. LookedUp'
    BY <2>1 DEF LookedUp
  <2>. QED BY <1>7, <2>1, <2>2 DEF CacheInv
<1>14. CASE PutAscii \/ StartPut
  <2>1. /\ cache' = cache /\ op' = op
        /\ \/ pc = "decide" /\ pc' = "put"
           \/ pc = "put" /\ pc' = "stored"
    BY <1>14, PutAsciiStep, StartPutStep DEF Starts
  <2>2. pc = "put" => ~Succeeded'
    <3>1. pc = "put" => StartPut
      BY <1>14, PutAsciiStep
    <3>. QED BY <3>1, StartPutStep, WhatTheyDo, NotYet DEF Starts
  <2>3. LookedUp'
    BY <1>3, <1>5, <2>1, <2>2 DEF LookedUp
  <2>. QED BY <1>7, <2>1, <2>3 DEF CacheInv
<1>15. CASE Execute
  <2>1. pc = "in dir" /\ op.kind = "quote"
    BY <1>15, ExecuteStep
  <2>. QED BY <1>2, <2>1 DEF StepInv, KindInv, Harmless
<1>16. CASE ListDone \/ AskFirst \/ GetFailed \/ SourceStays \/ PutUnreadable \/ NotStored
         \/ NotInDir
  <2>1. cache' = cache /\ pc' = "idle"
    BY <1>16, ListDoneStep, AskFirstStep, GetFailedStep, SourceStaysStep, PutUnreadableStep,
       NotStoredStep, NotInDirStep DEF Returns
  <2>2. pc \notin {"moved", "stored", "done"} \/ ~Succeeded
    <3>1. ListDone => pc \in {"listed", "decide"}
      BY Zenon DEF ListDone, At
    <3>. QED BY <1>16, <3>1, AskFirstStep, GetFailedStep, SourceStaysStep,
            PutUnreadableStep, NotStoredStep, NotInDirStep
  <2>3. LookedUp'
    BY <2>1 DEF LookedUp
  <2>. QED BY <1>7, <2>1, <2>2, <2>3 DEF CacheInv
<1>17. CASE Renamed
  <2>1. /\ pc = "moved" /\ pc' = "idle"
        /\ cache' = IF ret.ok THEN MovedListings ELSE cache
    BY <1>17, RenamedStep DEF Returns
  <2>2. LookedUp'
    BY <2>1 DEF LookedUp
  <2>3. CASE ret.ok
    <3>1. Succeeded
      BY <1>1, <2>3 DEF Succeeded
    <3>2. \A s \in Sites, d \in Dirs : Mirrors(s, d)'
      BY <1>1, <1>3, <2>1, <2>3, <3>1, MovedListingsAreTrue
    <3>. QED BY <2>2, <3>2 DEF CacheInv
  <2>4. CASE ~ret.ok
    BY <1>7, <2>1, <2>2, <2>4 DEF CacheInv, Succeeded
  <2>. QED BY <2>3, <2>4
<1>18. CASE Stored
  <2>1. pc = "stored" /\ pc' = "idle" /\ cache' = Erase(cache, op.to, op.dest)
    BY <1>18, StoredStep DEF Returns
  <2>2. \A s \in Sites, d \in Dirs : ~(s = op.to /\ d = op.dest[1]) => Mirrors(s, d)
    BY <1>3, <2>1 DEF Stale
  <2>3. \A s \in Sites, d \in Dirs : Mirrors(s, d)'
    BY <1>1, <2>1, <2>2, ErasedIsTrue
  <2>4. LookedUp'
    BY <2>1 DEF LookedUp
  <2>. QED BY <2>3, <2>4 DEF CacheInv
<1>19. CASE Done
  <2>1. /\ pc = "done" /\ pc' = "idle"
        /\ cache' = IF op.kind = "mkdir" /\ ret.ok THEN Erase(cache, op.to, op.dest)
                    ELSE cache
    BY <1>19, DoneStep DEF Returns
  <2>2. LookedUp'
    BY <2>1 DEF LookedUp
  <2>3. CASE op.kind = "mkdir" /\ ret.ok
    <3>1. \A s \in Sites, d \in Dirs : ~(s = op.to /\ d = op.dest[1]) => Mirrors(s, d)
      BY <1>3, <2>1 DEF Stale
    <3>2. \A s \in Sites, d \in Dirs : Mirrors(s, d)'
      BY <1>1, <2>1, <2>3, <3>1, ErasedIsTrue
    <3>. QED BY <2>2, <3>2 DEF CacheInv
  <2>4. CASE ~(op.kind = "mkdir" /\ ret.ok)
    <3>1. cache' = cache
      BY <2>1, <2>4
    <3>2. \A s \in Sites, d \in Dirs : Mirrors(s, d)
      BY <1>3, <2>1, <2>4 DEF Stale, Succeeded
    <3>3. \A s \in Sites, d \in Dirs : Mirrors(s, d)'
      BY <1>1, <3>1, <3>2 DEF Mirrors
    <3>. QED BY <2>2, <3>3 DEF CacheInv
  <2>. QED BY <2>3, <2>4
<1>20. CASE SlowWay
  <2>1. pc = "decide" /\ pc' = "get ascii" /\ cache' = cache
    BY <1>20, SlowWayStep DEF sessionVars, session
  <2>2. LookedUp'
    BY <2>1 DEF LookedUp
  <2>. QED BY <1>7, <2>1, <2>2 DEF CacheInv
<1>21. CASE GotAndRemove
  <2>1. /\ pc = "got" /\ pc' = "source gone" /\ op' = op
        /\ cache' = Erase(cache, op.from, op.path)
    BY <1>21, GotAndRemoveStep
  <2>2. op.path[1] \in Dirs
    BY OpParts DEF StepInv
  <2>3. /\ cache'[op.from][op.path[1]] = NotCached
        /\ \A s \in Sites, d \in Dirs :
             ~(s = op.from /\ d = op.path[1]) => cache'[s][d] = cache[s][d]
    <3>1. /\ Erase(cache, op.from, op.path)[op.from][op.path[1]] = NotCached
          /\ \A s \in Sites, d \in Dirs :
               ~(s = op.from /\ d = op.path[1]) =>
                 Erase(cache, op.from, op.path)[s][d] = cache[s][d]
      BY <1>4, CacheTypes, EraseFacts
    <3>. QED BY <2>1, <3>1
  <2>4. \A s \in Sites, d \in Dirs : Mirrors(s, d)'
    BY <1>1, <1>6, <2>1, <2>3 DEF Mirrors
  <2>5. LookedUp'
    BY <2>1, <2>3 DEF LookedUp
  <2>. QED BY <2>4, <2>5 DEF CacheInv
<1>22. CASE Got \/ SourceRemoved
  <2>1. cache' = cache /\ pc' \in {"idle", "exists"} /\ pc \in {"got", "source gone"}
    BY <1>22, GotStep, SourceRemovedStep DEF Fetched
  <2>2. LookedUp'
    BY <2>1 DEF LookedUp
  <2>. QED BY <1>7, <2>1, <2>2 DEF CacheInv
<1>23. CASE PutNoMapper
  <2>1. UNCHANGED <<op, pc, cache>> /\ pc = "put"
    BY <1>23, PutNoMapperStep DEF opVars
  <2>2. LookedUp'
    BY <1>3, <1>5, <2>1 DEF LookedUp
  <2>. QED BY <1>7, <2>1, <2>2 DEF CacheInv
<1>. QED BY <1>8, <1>9, <1>10, <1>11, <1>12, <1>13, <1>14, <1>15, <1>16, <1>17, <1>18,
        <1>19, <1>20, <1>21, <1>22, <1>23 DEF Steps

LEMMA StutterCache == CacheInv /\ UNCHANGED vars => CacheInv'
<1> SUFFICES ASSUME CacheInv, UNCHANGED vars, Harmless' PROVE CacheInv'
  BY DEF CacheInv
<1>1. /\ UNCHANGED <<op, pc, quoted, faults, tree, cache, call, ret>>
  BY Unchanged
<1>2. /\ Harmless
      /\ \A s, d : (Stale(s, d)' <=> Stale(s, d)) /\ (Mirrors(s, d)' <=> Mirrors(s, d))
  BY <1>1 DEF Harmless, Stale, Mirrors, Succeeded
<1>3. LookedUp' <=> LookedUp
  BY <1>1 DEF LookedUp, Succeeded, Dst
<1>. QED BY <1>2, <1>3 DEF CacheInv

(* Also in the middle of an operation, every cached listing is true but    *)
(* for those the operation is about to erase or correct.                   *)
THEOREM ListingsInOrder == Spec => []CacheInv
<1>1. StepInv /\ CacheInv /\ [Next]_vars => CacheInv'
  BY BeginsCache, CommandsCache, StepsCache, StutterCache DEF Next, Finished
<1>. QED BY InitCache, StepsInOrder, <1>1, PTL DEF Spec

(* Between operations a cached listing is the directory of the server, for *)
(* every operation and however it ended: what an operation changes it has  *)
(* erased or corrected before it returns.                                  *)
THEOREM CachedListingsAreTrue == Spec => []ListingsAreTrue
<1>1. CacheInv => ListingsAreTrue
  BY DEF CacheInv, ListingsAreTrue, Stale, Mirrors
<1>. QED BY ListingsInOrder, <1>1, PTL

(* Without leave to overwrite, a put starts only where there is nothing:   *)
(* what has been looked up, in the cache or on the server, is true and     *)
(* stays so until the put begins.                                          *)
THEOREM NothingOverwritten == Spec => []NoSilentOverwrite
<1>1. StepInv /\ CacheInv => NoSilentOverwrite
  <2> SUFFICES ASSUME StepInv, CacheInv, Harmless, ~op.force, call # NoCall,
                      call.cmd.do = "put"
               PROVE  Dst = {}
    BY DEF NoSilentOverwrite, Dst
  <2>1. pc \in Places \ Quiet
    BY DEF StepInv, TypeInv, OpTypes, CallInv
  <2>2. pc = "stored"
    <3>1. \/ call.cmd \in {LsDest, RmDest, MvToDest, ConnectOnly, GetSource, RmSource,
                           CdDest, RelativeCommand}
          \/ pc = "done" /\ op.kind # "quote" /\ call.cmd = OnDest
          \/ pc = "stored"
      BY <2>1 DEF StepInv, CallInv, Does, Places, Quiet
    <3>2. pc = "done" => op.kind \in {"rm", "rmdir", "mkdir", "quote"}
      BY DEF StepInv, KindInv
    <3>. QED BY <3>1, <3>2, WhatTheyDo
  <2>3. ~op.exists
    BY <2>2 DEF StepInv, KindInv
  <2>. QED BY <2>2, <2>3 DEF CacheInv, LookedUp
<1>. QED BY StepsInOrder, ListingsInOrder, <1>1, PTL
=============================================================================
