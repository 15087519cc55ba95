--------------------------- MODULE ModelStoreProofs ---------------------------
(***************************************************************************)
(* Proofs about ModelStore, for any number of models, commands and imports *)
(* and files of any size: what the commands that convert and delete models *)
(* leave on the converting node, and what the imports, that write into one *)
(* another's temporary files, leave on the importing one.                  *)
(***************************************************************************)
EXTENDS ModelStore, TLAPS, SequenceTheorems

\* The kinds of files.
LEMMA FileNames == Files = {"dec", "extra", "tok"}
<1>1. DOMAIN Names = 1 .. 3 /\ Names[1] = "dec" /\ Names[2] = "extra" /\ Names[3] = "tok"
  BY DEF Names
<1>2. 1 .. 3 = {1, 2, 3}
  OBVIOUS
<1> QED
  BY <1>1, <1>2 DEF Files

-----------------------------------------------------------------------------
(* The inductive invariant.                                                *)

Weights == {"dec", "extra"}
AtRest == {"new", "done", "failed", "unused"}
AtWork == {"dec", "extra", "pulled", "unlink", "unlinkExtra", "removed",
           "save", "drop"}

CommandRecord == [pc : AtRest \cup AtWork, model : Models \cup {None},
                  out : Commands \cup {None}, pos : Nat,
                  entries : SUBSET Models]

\* A command at work has a model, and writes a file of weights only.
CommandsTyped ==
    /\ file \in [Models -> [Files -> Commands \cup {None}]]
    /\ inode \in [Models -> [Files -> [Commands ->
                    [len : Nat, good : SUBSET Nat]]]]
    /\ registry \subseteq Models
    /\ cmd \in [Commands -> CommandRecord]
    /\ mutated \in BOOLEAN
    /\ \A c \in Commands :
        /\ cmd[c].pc \in AtWork => cmd[c].model \in Models
        /\ cmd[c].out # None => cmd[c].pc \in Weights

IsWhole(m, f) == file[m][f] # None /\ inode[m][f][file[m][f]] = Whole(f)
BothWhole(m) == IsWhole(m, "dec") /\ IsWhole(m, "extra")

\* The file a command is writing is its own, and has what it has written.
WritesOwn(c) ==
    LET m == cmd[c].model  f == cmd[c].pc IN
    /\ cmd[c].out = c /\ file[m][f] = c
    /\ cmd[c].pos < Chunks[f]
    /\ inode[m][f][c] = [len |-> cmd[c].pos, good |-> 1 .. cmd[c].pos]

\* What a command relies on when it goes on after a file, or after reading
\* the registry.
RestsOn(c) ==
    /\ cmd[c].out # None => WritesOwn(c)
    /\ cmd[c].pc = "extra" => IsWhole(cmd[c].model, "dec")
    /\ cmd[c].pc \in {"pulled", "save"} => BothWhole(cmd[c].model)

HasConverted(c) ==
    /\ RestsOn(c)
    /\ \A m \in cmd[c].entries : BothWhole(m)

ConvertInv ==
    ~mutated =>
        /\ \A c \in Commands : HasConverted(c)
        /\ \A m \in registry : BothWhole(m)
        /\ \A m \in Models : file[m]["extra"] # None => IsWhole(m, "dec")

StoreInv == CommandsTyped /\ ConvertInv

-----------------------------------------------------------------------------
(* The steps that write no weights.                                        *)

\* The initial state has no files and no entries.
LEMMA InitStore == Init => StoreInv
<1> SUFFICES ASSUME Init PROVE StoreInv
  OBVIOUS
<1> USE FileNames
<1>1. PICK cast \in Casts :
         cmd = [c \in Commands |-> IF c \in cast THEN NewCommand ELSE Over("unused")]
  BY DEF Init
<1>2. \A c \in Commands : /\ cmd[c] \in CommandRecord
                          /\ cmd[c].pc \in AtRest /\ cmd[c].out = None
                          /\ cmd[c].entries = {}
  BY <1>1 DEF NewCommand, Over, CommandRecord, AtRest
<1>3. CommandsTyped
  <2>1. cmd \in [Commands -> CommandRecord]
    BY <1>1, <1>2
  <2>2. inode \in [Models -> [Files -> [Commands -> [len : Nat, good : SUBSET Nat]]]]
    BY DEF Init, Empty
  <2> QED BY <1>2, <2>1, <2>2 DEF Init, CommandsTyped, AtRest, AtWork
<1>4. ConvertInv
  BY <1>2 DEF Init, ConvertInv, HasConverted, RestsOn, AtRest
<1> QED
  BY <1>3, <1>4 DEF StoreInv

\* A step that touches no file of weights, and takes no command to a place
\* where it relies on more than it has.
LEMMA QuietStep ==
  ASSUME StoreInv, CommandsTyped', mutated' = FALSE => mutated = FALSE,
         ~mutated' =>
            /\ \A m \in Models, f \in Weights :
                  IsWhole(m, f) => IsWhole(m, f)'
            /\ \A m \in Models : file'[m]["extra"] # None =>
                  file[m]["extra"] # None \/ IsWhole(m, "dec")
            /\ \A m \in registry' : m \in registry \/ BothWhole(m)
            /\ \A c \in Commands :
                  /\ RestsOn(c)'
                  /\ cmd'[c].entries \subseteq cmd[c].entries \cup registry
  PROVE  StoreInv'
<1> SUFFICES ASSUME ~mutated' PROVE ConvertInv'
  BY DEF StoreInv, ConvertInv
<1>1. ~mutated
  BY DEF StoreInv, CommandsTyped
<1>2. /\ \A m \in registry : m \in Models /\ BothWhole(m)
      /\ \A c \in Commands : \A m \in cmd[c].entries : m \in Models /\ BothWhole(m)
      /\ \A m \in Models : file[m]["extra"] # None => IsWhole(m, "dec")
  BY <1>1 DEF StoreInv, ConvertInv, HasConverted, CommandsTyped, CommandRecord
<1>3. \A m \in Models : BothWhole(m) => BothWhole(m)'
  BY DEF BothWhole, Weights
<1>4. \A m \in registry' : m \in Models
  BY DEF CommandsTyped
<1>5. \A m \in registry' : BothWhole(m)'
  BY <1>2, <1>3, <1>4
<1>6. \A m \in Models : file'[m]["extra"] # None => IsWhole(m, "dec")'
  BY <1>2 DEF Weights
<1>7. ASSUME NEW c \in Commands PROVE HasConverted(c)'
  <2>1. \A m \in cmd'[c].entries : BothWhole(m)'
    <3>1. \A m \in cmd[c].entries \cup registry : m \in Models /\ BothWhole(m)
      BY <1>2
    <3>2. cmd'[c].entries \subseteq cmd[c].entries \cup registry
      OBVIOUS
    <3> QED BY <1>3, <3>1, <3>2
  <2> QED BY <2>1 DEF HasConverted
<1> QED
  BY <1>5, <1>6, <1>7 DEF ConvertInv
-----------------------------------------------------------------------------
(* One lemma per step of a command.                                        *)

\* What the proofs of the steps need of a state.
LEMMA StoreFacts ==
  ASSUME StoreInv, NEW c \in Commands
  PROVE  /\ cmd[c] \in CommandRecord
         /\ cmd[c].pc \in AtWork => cmd[c].model \in Models
         /\ cmd[c].out # None => /\ cmd[c].pc \in Weights
                                 /\ cmd[c].model \in Models
         /\ ~mutated => HasConverted(c)
BY DEF StoreInv, CommandsTyped, ConvertInv, Weights, AtWork

\* A command that ends, or only moves on, with every file as it was.
LEMMA OnlyMoves ==
  ASSUME StoreInv, NEW c \in Commands, NEW r \in CommandRecord,
         cmd' = [cmd EXCEPT ![c] = r],
         UNCHANGED <<file, inode, registry, mutated>>,
         r.pc \in AtWork => r.model \in Models,
         r.out = None,
         ~mutated =>
            /\ r.pc = "extra" => IsWhole(r.model, "dec")
            /\ r.pc \in {"pulled", "save"} => BothWhole(r.model)
            /\ r.entries \subseteq cmd[c].entries \cup registry
  PROVE  StoreInv'
<1>1. cmd'[c] = r /\ \A d \in Commands : d # c => cmd'[d] = cmd[d]
  BY DEF StoreInv, CommandsTyped
<1>2. CommandsTyped'
  <2>1. cmd' \in [Commands -> CommandRecord]
    BY DEF StoreInv, CommandsTyped
  <2>2. \A d \in Commands : /\ cmd'[d].pc \in AtWork => cmd'[d].model \in Models
                            /\ cmd'[d].out # None => cmd'[d].pc \in Weights
    BY <1>1 DEF StoreInv, CommandsTyped
  <2> QED BY <2>1, <2>2 DEF StoreInv, CommandsTyped
<1>3. \A m, f : IsWhole(m, f)' <=> IsWhole(m, f)
  BY DEF IsWhole
<1>4. \A m : BothWhole(m)' <=> BothWhole(m)
  BY <1>3 DEF BothWhole
<1>5. ASSUME ~mutated', NEW d \in Commands
      PROVE  /\ RestsOn(d)'
             /\ cmd'[d].entries \subseteq cmd[d].entries \cup registry
  <2>1. CASE d = c
    <3>1. ~mutated
      BY <1>5
    <3> QED BY <1>1, <1>3, <1>4, <2>1, <3>1 DEF RestsOn
  <2>2. CASE d # c
    <3>1. HasConverted(d) /\ cmd'[d] = cmd[d]
      BY <1>1, <1>5, <2>2, StoreFacts
    <3>2. WritesOwn(d) => WritesOwn(d)'
      BY <3>1 DEF WritesOwn
    <3> QED BY <1>3, <1>4, <3>1, <3>2 DEF HasConverted, RestsOn
  <2> QED BY <2>1, <2>2
<1> QED
  BY <1>2, <1>3, <1>4, <1>5, QuietStep

\* Commands that fail, are killed, begin to delete or read the registry.
LEMMA MovingSteps ==
  ASSUME StoreInv, NEW c \in Commands,
         \/ PullFails(c) \/ WeightsFail(c) \/ OutputFails(c)
         \/ (\E m \in Models : BeginRm(c, m)) \/ ReadRegistry(c) \/ Killed(c)
  PROVE  StoreInv'
<1>0. /\ cmd[c] \in CommandRecord
      /\ cmd[c].pc \in AtWork => cmd[c].model \in Models
      /\ cmd[c].out # None => cmd[c].pc \in Weights
      /\ ~mutated => HasConverted(c)
      /\ registry \subseteq Models
  BY StoreFacts DEF StoreInv, CommandsTyped
<1>1. \A p \in AtRest : /\ Over(p) \in CommandRecord /\ Over(p).pc = p
                        /\ Over(p).out = None /\ Over(p).entries = {}
  BY DEF Over, NewCommand, CommandRecord
<1>2. CASE PullFails(c)
  <2> DEFINE r == [cmd[c] EXCEPT !.pc = "failed"]
  <2>1. /\ r \in CommandRecord /\ r.pc = "failed" /\ r.out = None
        /\ r.entries = cmd[c].entries
    BY <1>0, <1>2 DEF PullFails, CommandRecord, AtRest, Weights
  <2>2. cmd' = [cmd EXCEPT ![c] = r] /\ UNCHANGED <<file, inode, registry, mutated>>
    BY <1>2 DEF PullFails
  <2> HIDE DEF r
  <2> QED BY <2>1, <2>2, OnlyMoves DEF AtWork
<1>3. CASE WeightsFail(c) \/ OutputFails(c) \/ Killed(c)
  <2>1. /\ cmd' = [cmd EXCEPT ![c] = Over("failed")]
        /\ UNCHANGED <<file, inode, registry, mutated>>
    BY <1>3 DEF WeightsFail, OutputFails, Killed
  <2> QED BY <1>1, <2>1, OnlyMoves DEF AtRest, AtWork
<1>4. ASSUME NEW m \in Models, BeginRm(c, m) PROVE StoreInv'
  <2>1. CASE \E f \in Files : file[m][f] # None
    <3> DEFINE r == [cmd[c] EXCEPT !.model = m, !.pc = "unlink"]
    <3>1. /\ r \in CommandRecord /\ r.pc = "unlink" /\ r.out = None
          /\ r.model \in Models /\ r.entries = cmd[c].entries
      BY <1>0, <1>4 DEF BeginRm, CommandRecord, AtWork, Weights
    <3>2. cmd' = [cmd EXCEPT ![c] = r] /\ UNCHANGED <<file, inode, registry, mutated>>
      BY <1>4, <2>1 DEF BeginRm
    <3> HIDE DEF r
    <3> QED BY <3>1, <3>2, OnlyMoves
  <2>2. CASE ~(\E f \in Files : file[m][f] # None)
    <3>1. /\ cmd' = [cmd EXCEPT ![c] = Over("failed")]
          /\ UNCHANGED <<file, inode, registry, mutated>>
      BY <1>4, <2>2 DEF BeginRm
    <3> QED BY <1>1, <3>1, OnlyMoves DEF AtRest, AtWork
  <2> QED BY <2>1, <2>2
<1>5. CASE ReadRegistry(c)
  <2> DEFINE p == IF cmd[c].pc = "pulled" THEN "save" ELSE "drop"
             r == [cmd[c] EXCEPT !.entries = registry, !.pc = p]
  <2>1. /\ r \in CommandRecord /\ r.out = None
        /\ r.model = cmd[c].model /\ r.model \in Models /\ r.entries = registry
        /\ r.pc = "drop" \/ (r.pc = "save" /\ cmd[c].pc = "pulled")
    BY <1>0, <1>5 DEF ReadRegistry, CommandRecord, AtWork, Weights
  <2>2. cmd' = [cmd EXCEPT ![c] = r] /\ UNCHANGED <<file, inode, registry, mutated>>
    BY <1>5 DEF ReadRegistry
  <2> HIDE DEF r, p
  <2>3. ~mutated /\ r.pc = "save" => BothWhole(r.model)
    BY <1>0, <2>1 DEF HasConverted, RestsOn
  <2> QED BY <2>1, <2>2, <2>3, OnlyMoves
<1> QED
  BY <1>2, <1>3, <1>4, <1>5

\* The registry is rewritten: with the model after a conversion, without it
\* after a deletion.
LEMMA WriteRegistryStep ==
  ASSUME StoreInv, NEW c \in Commands, WriteRegistry(c)
  PROVE  StoreInv'
<1> DEFINE r == [Over("done") EXCEPT !.model = cmd[c].model]
<1>0. /\ cmd[c] \in CommandRecord /\ cmd[c].model \in Models
      /\ ~mutated => HasConverted(c)
      /\ cmd \in [Commands -> CommandRecord] /\ registry \subseteq Models
  BY StoreFacts DEF StoreInv, CommandsTyped, WriteRegistry, AtWork
<1>1. /\ r \in CommandRecord /\ r.pc = "done" /\ r.out = None /\ r.entries = {}
  BY <1>0 DEF Over, NewCommand, CommandRecord, AtRest
<1>2. /\ cmd' = [cmd EXCEPT ![c] = r] /\ UNCHANGED <<file, inode, mutated>>
  BY DEF WriteRegistry
<1> HIDE DEF r
<1>3. cmd'[c] = r /\ \A d \in Commands : d # c => cmd'[d] = cmd[d]
  BY <1>0, <1>2
<1>4. \A m \in registry' : \/ m \in cmd[c].entries
                           \/ m = cmd[c].model /\ cmd[c].pc = "save"
  BY DEF WriteRegistry
<1>5. CommandsTyped'
  <2>1. cmd' \in [Commands -> CommandRecord]
    BY <1>0, <1>1, <1>2
  <2>2. registry' \subseteq Models
    BY <1>0, <1>4 DEF CommandRecord
  <2>3. \A d \in Commands : /\ cmd'[d].pc \in AtWork => cmd'[d].model \in Models
                            /\ cmd'[d].out # None => cmd'[d].pc \in Weights
    BY <1>1, <1>3 DEF StoreInv, CommandsTyped, AtWork
  <2> QED BY <1>2, <2>1, <2>2, <2>3 DEF StoreInv, CommandsTyped
<1>6. \A m, f : IsWhole(m, f)' <=> IsWhole(m, f)
  BY <1>2 DEF IsWhole
<1>7. \A m : BothWhole(m)' <=> BothWhole(m)
  BY <1>6 DEF BothWhole
<1>8. ASSUME ~mutated', NEW d \in Commands
      PROVE  /\ RestsOn(d)'
             /\ cmd'[d].entries \subseteq cmd[d].entries \cup registry
  <2>1. CASE d = c
    BY <1>1, <1>3, <2>1 DEF RestsOn
  <2>2. CASE d # c
    <3>1. HasConverted(d) /\ cmd'[d] = cmd[d]
      BY <1>2, <1>3, <1>8, <2>2, StoreFacts
    <3>2. WritesOwn(d) => WritesOwn(d)'
      BY <1>2, <3>1 DEF WritesOwn
    <3> QED BY <1>6, <1>7, <3>1, <3>2 DEF HasConverted, RestsOn
  <2> QED BY <2>1, <2>2
<1>9. ~mutated' => \A m \in registry' : BothWhole(m)
  BY <1>0, <1>2, <1>4 DEF HasConverted, RestsOn
<1>10. ~mutated' => \A m \in Models : file'[m]["extra"] # None => file[m]["extra"] # None
  BY <1>2
<1> QED
  BY <1>2, <1>5, <1>6, <1>8, <1>9, <1>10, QuietStep

\* A step by which a command comes to rest on something new, while the files
\* of weights of the others stay: what is left to show of it.
LEMMA FileStep ==
  ASSUME StoreInv, NEW c \in Commands, NEW r \in CommandRecord,
         cmd' = [cmd EXCEPT ![c] = r], registry' = registry,
         file' \in [Models -> [Files -> Commands \cup {None}]],
         inode' \in [Models -> [Files -> [Commands ->
                        [len : Nat, good : SUBSET Nat]]]],
         mutated' \in BOOLEAN, mutated' = FALSE => mutated = FALSE,
         r.pc \in AtWork => r.model \in Models,
         r.out # None => r.pc \in Weights,
         r.entries = cmd[c].entries,
         ~mutated' =>
            /\ \A m \in Models, f \in Weights :
                  IsWhole(m, f) => IsWhole(m, f)'
            /\ \A m \in Models : file'[m]["extra"] # None =>
                  file[m]["extra"] # None \/ IsWhole(m, "dec")
            /\ RestsOn(c)'
            /\ \A d \in Commands : d # c /\ cmd[d].out # None /\ WritesOwn(d)
                  => WritesOwn(d)'
  PROVE  StoreInv'
<1>0. cmd \in [Commands -> CommandRecord] /\ registry \subseteq Models
  BY DEF StoreInv, CommandsTyped
<1>1. cmd'[c] = r /\ \A d \in Commands : d # c => cmd'[d] = cmd[d]
  BY <1>0
<1>2. CommandsTyped'
  <2>1. cmd' \in [Commands -> CommandRecord]
    BY <1>0
  <2>2. \A d \in Commands : /\ cmd'[d].pc \in AtWork => cmd'[d].model \in Models
                            /\ cmd'[d].out # None => cmd'[d].pc \in Weights
    BY <1>1 DEF StoreInv, CommandsTyped
  <2> QED BY <1>0, <2>1, <2>2 DEF CommandsTyped
<1>3. ASSUME ~mutated', NEW m \in Models, BothWhole(m) PROVE BothWhole(m)'
  BY <1>3 DEF BothWhole, Weights
<1>4. ASSUME ~mutated', NEW d \in Commands PROVE RestsOn(d)'
  <2>1. CASE d = c
    BY <1>4, <2>1
  <2>2. CASE d # c
    <3>1. RestsOn(d) /\ cmd'[d] = cmd[d]
      BY <1>1, <1>4, <2>2, StoreFacts DEF HasConverted
    <3>2. cmd[d].out # None => WritesOwn(d)'
      BY <1>4, <2>2, <3>1 DEF RestsOn
    <3>3. cmd[d].pc \in AtWork => cmd[d].model \in Models
      BY StoreFacts
    <3>4. CASE cmd[d].pc = "extra"
      <4>1. cmd[d].model \in Models /\ IsWhole(cmd[d].model, "dec")
        BY <3>1, <3>3, <3>4 DEF RestsOn, AtWork
      <4>2. IsWhole(cmd[d].model, "dec")'
        <5> DEFINE m == cmd[d].model
        <5>1. m' = m
          BY <3>1
        <5>2. \A n \in Models : IsWhole(n, "dec") => IsWhole(n, "dec")'
          BY <1>4 DEF Weights
        <5> QED BY <4>1, <5>1, <5>2 DEF IsWhole
      <4> QED BY <3>1, <3>2, <3>4, <4>2 DEF RestsOn
    <3>5. CASE cmd[d].pc \in {"pulled", "save"}
      <4>1. cmd[d].model \in Models /\ BothWhole(cmd[d].model)
        BY <3>1, <3>3, <3>5 DEF RestsOn, AtWork
      <4>2. BothWhole(cmd[d].model)'
        <5> DEFINE m == cmd[d].model
        <5>1. m' = m
          BY <3>1
        <5>2. \A n \in Models : BothWhole(n) => BothWhole(n)'
          BY <1>3, <1>4
        <5> QED BY <4>1, <5>1, <5>2 DEF BothWhole, IsWhole
      <4> QED BY <3>1, <3>2, <3>5, <4>2 DEF RestsOn
    <3>6. CASE cmd[d].pc \notin {"extra", "pulled", "save"}
      BY <3>1, <3>2, <3>6 DEF RestsOn
    <3> QED BY <3>4, <3>5, <3>6
  <2> QED BY <2>1, <2>2
<1>5. \A d \in Commands : cmd'[d].entries \subseteq cmd[d].entries \cup registry
  BY <1>1
<1>6. ~mutated' => \A m \in registry' : m \in registry
  OBVIOUS
<1> QED
  BY <1>2, <1>4, <1>5, <1>6, QuietStep

\* The files that are fetched are not those of the weights.
LEMMA BeginPullStep ==
  ASSUME StoreInv, NEW c \in Commands, NEW m \in Models, BeginPull(c, m)
  PROVE  StoreInv'
<1> DEFINE r == [cmd[c] EXCEPT !.pc = "dec", !.model = m]
<1> USE FileNames
<1>0. /\ cmd[c] \in CommandRecord /\ cmd[c].out = None /\ cmd[c].pc = "new"
      /\ file \in [Models -> [Files -> Commands \cup {None}]]
      /\ inode \in [Models -> [Files -> [Commands ->
                       [len : Nat, good : SUBSET Nat]]]]
      /\ mutated \in BOOLEAN
  BY StoreFacts DEF StoreInv, CommandsTyped, BeginPull, Weights
<1>1. /\ r \in CommandRecord /\ r.pc = "dec" /\ r.model = m /\ r.out = None
      /\ r.entries = cmd[c].entries
  BY <1>0 DEF CommandRecord, AtWork
<1>2. /\ cmd' = [cmd EXCEPT ![c] = r] /\ registry' = registry /\ mutated' = mutated
      /\ file' = [file EXCEPT ![m]["tok"] = c]
      /\ inode' = [inode EXCEPT ![m]["tok"][c] = Whole("tok")]
  BY DEF BeginPull, Fetch
<1> HIDE DEF r
<1>3. Whole("tok") \in [len : Nat, good : SUBSET Nat]
  BY StoreAssumption DEF Whole
<1>4. /\ file' \in [Models -> [Files -> Commands \cup {None}]]
      /\ inode' \in [Models -> [Files -> [Commands ->
                       [len : Nat, good : SUBSET Nat]]]]
  BY <1>0, <1>2, <1>3
<1>5. \A n \in Models, f \in Weights : file'[n][f] = file[n][f] /\ inode'[n][f] = inode[n][f]
  BY <1>0, <1>2 DEF Weights
<1>6. \A n \in Models, f \in Weights : IsWhole(n, f) => IsWhole(n, f)'
  BY <1>5 DEF IsWhole
<1>7. \A n \in Models : file'[n]["extra"] = file[n]["extra"]
  BY <1>5 DEF Weights
<1>8. cmd \in [Commands -> CommandRecord]
  BY DEF StoreInv, CommandsTyped
<1>9. RestsOn(c)'
  BY <1>1, <1>2, <1>8 DEF RestsOn
<1>10. ASSUME NEW d \in Commands, d # c, cmd[d].out # None, WritesOwn(d)
       PROVE  WritesOwn(d)'
  <2>1. cmd[d].model \in Models /\ cmd[d].pc \in Weights /\ cmd'[d] = cmd[d]
    BY <1>2, <1>8, <1>10, StoreFacts
  <2> QED BY <1>5, <1>10, <2>1 DEF WritesOwn
<1> QED
  BY <1>0, <1>1, <1>2, <1>4, <1>6, <1>7, <1>9, <1>10, FileStep DEF Weights

\* A file that is deleted was there, unless a command had to find it gone.
LEMMA UnlinkStep ==
  ASSUME StoreInv, NEW c \in Commands, NEW f \in Weights,
         NEW next \in {"unlinkExtra", "removed"},
         cmd[c].pc \in {"unlink", "unlinkExtra"}, Unlink(c, f, next)
  PROVE  StoreInv'
<1> DEFINE r == [cmd[c] EXCEPT !.pc = next]
           m == cmd[c].model
<1> USE FileNames
<1>0. /\ cmd[c] \in CommandRecord /\ cmd[c].out = None /\ m \in Models
      /\ file \in [Models -> [Files -> Commands \cup {None}]]
      /\ inode \in [Models -> [Files -> [Commands ->
                       [len : Nat, good : SUBSET Nat]]]]
      /\ mutated \in BOOLEAN /\ cmd \in [Commands -> CommandRecord]
  BY StoreFacts DEF StoreInv, CommandsTyped, AtWork, Weights
<1>1. /\ r \in CommandRecord /\ r.pc = next /\ r.model \in Models /\ r.out = None
      /\ r.entries = cmd[c].entries
  BY <1>0 DEF CommandRecord, AtWork
<1>2. /\ cmd' = [cmd EXCEPT ![c] = r] /\ registry' = registry /\ inode' = inode
      /\ mutated' = (mutated \/ file[m][f] # None)
      /\ file' = [file EXCEPT ![m][f] = None]
  BY DEF Unlink
<1> HIDE DEF r, m
<1>3. file' \in [Models -> [Files -> Commands \cup {None}]]
  BY <1>0, <1>2 DEF Weights
<1>4. ~mutated' => file' = file /\ ~mutated
  BY <1>0, <1>2 DEF Weights
<1>5. ~mutated' => /\ \A n \in Models, g \in Weights : IsWhole(n, g) => IsWhole(n, g)'
                   /\ \A n \in Models : file'[n]["extra"] = file[n]["extra"]
  BY <1>2, <1>4 DEF IsWhole
<1>6. RestsOn(c)'
  BY <1>0, <1>1, <1>2 DEF RestsOn
<1>7. ASSUME ~mutated', NEW d \in Commands, d # c, WritesOwn(d)
      PROVE  WritesOwn(d)'
  <2>1. cmd'[d] = cmd[d]
    BY <1>0, <1>2, <1>7
  <2> QED BY <1>2, <1>4, <1>7, <2>1 DEF WritesOwn
<1> QED
  BY <1>0, <1>1, <1>2, <1>3, <1>4, <1>5, <1>6, <1>7, FileStep

\* A file that is opened for writing was not there before, or it is truncated.
LEMMA OpenOutputStep ==
  ASSUME StoreInv, NEW c \in Commands, OpenOutput(c)
  PROVE  StoreInv'
<1> DEFINE m == cmd[c].model
           f == cmd[c].pc
           o == IF file[m][f] = None THEN c ELSE file[m][f]
           r == [cmd[c] EXCEPT !.out = o, !.pos = 0]
<1> USE FileNames
<1>0. /\ cmd[c] \in CommandRecord /\ f \in Weights /\ m \in Models
      /\ file \in [Models -> [Files -> Commands \cup {None}]]
      /\ inode \in [Models -> [Files -> [Commands ->
                       [len : Nat, good : SUBSET Nat]]]]
      /\ mutated \in BOOLEAN /\ cmd \in [Commands -> CommandRecord]
      /\ ~mutated => HasConverted(c)
  BY StoreFacts DEF StoreInv, CommandsTyped, AtWork, Weights, OpenOutput
<1>1. o \in Commands /\ o # None
  BY <1>0, StoreAssumption DEF Weights
<1>2. /\ r \in CommandRecord /\ r.pc = f /\ r.model = m /\ r.out = o
      /\ r.pos = 0 /\ r.entries = cmd[c].entries
  BY <1>0, <1>1 DEF CommandRecord, AtWork
<1>3. /\ cmd' = [cmd EXCEPT ![c] = r] /\ registry' = registry
      /\ file' = [file EXCEPT ![m][f] = o]
      /\ inode' = [inode EXCEPT ![m][f][o] = Empty]
      /\ mutated' = (mutated \/ file[m][f] # None)
  BY DEF OpenOutput
<1>4. ~mutated' => ~mutated /\ file[m][f] = None /\ o = c
  BY <1>0, <1>3
<1> HIDE DEF r, m, f, o
<1>5. Empty \in [len : Nat, good : SUBSET Nat] /\ Empty = [len |-> 0, good |-> 1 .. 0]
  <2>1. 1 .. 0 = {}
    OBVIOUS
  <2> QED BY <2>1 DEF Empty
<1>6. /\ file' \in [Models -> [Files -> Commands \cup {None}]]
      /\ inode' \in [Models -> [Files -> [Commands ->
                       [len : Nat, good : SUBSET Nat]]]]
  BY <1>0, <1>1, <1>3, <1>5 DEF Weights
<1>7. \A n \in Models, g \in Weights :
         n # m \/ g # f => file'[n][g] = file[n][g] /\ inode'[n][g] = inode[n][g]
  BY <1>0, <1>3 DEF Weights
<1>8. ~mutated' => \A n \in Models, g \in Weights : IsWhole(n, g) => IsWhole(n, g)'
  BY <1>4, <1>7 DEF IsWhole
<1>9. ASSUME ~mutated', f = "extra" PROVE IsWhole(m, "dec") /\ IsWhole(m, "dec")'
  <2>1. IsWhole(m, "dec")
    BY <1>0, <1>4, <1>9 DEF HasConverted, RestsOn, f, m
  <2>2. \A n \in Models : IsWhole(n, "dec") => IsWhole(n, "dec")'
    BY <1>8, <1>9 DEF Weights
  <2>3. m' = m
    BY <1>0, <1>2, <1>3 DEF m
  <2> QED BY <1>0, <2>1, <2>2, <2>3 DEF IsWhole
<1>10. ASSUME ~mutated', NEW n \in Models, file'[n]["extra"] # None
       PROVE  file[n]["extra"] # None \/ IsWhole(n, "dec")
  BY <1>7, <1>9, <1>10 DEF Weights
<1>11. ASSUME ~mutated' PROVE RestsOn(c)'
  <2>1. cmd'[c] = r /\ f' = f /\ m' = m
    BY <1>0, <1>2, <1>3 DEF f, m
  <2>2. file'[m][f] = c /\ inode'[m][f][c] = Empty
    BY <1>0, <1>3, <1>4, <1>11 DEF Weights
  <2>3. Chunks[f] \in Nat \ {0}
    BY <1>0, StoreAssumption DEF Weights
  <2>4. WritesOwn(c)'
    <3>1. /\ cmd'[c].model = m /\ cmd'[c].pc = f /\ cmd'[c].out = c
          /\ cmd'[c].pos = 0 /\ 0 < Chunks[f]
      BY <1>2, <1>4, <1>11, <2>1, <2>3
    <3> QED BY <1>5, <2>2, <3>1 DEF WritesOwn
  <2>5. cmd'[c].pc = "extra" => IsWhole(cmd[c].model, "dec")'
    BY <1>2, <1>9, <1>11, <2>1 DEF m
  <2> QED BY <1>0, <1>2, <2>1, <2>4, <2>5 DEF RestsOn, Weights
<1>12. ASSUME ~mutated', NEW d \in Commands, d # c, cmd[d].out # None, WritesOwn(d)
       PROVE  WritesOwn(d)'
  <2>1. /\ cmd[d].model \in Models /\ cmd[d].pc \in Weights /\ cmd'[d] = cmd[d]
        /\ d # None
    BY <1>0, <1>3, <1>12, StoreFacts, StoreAssumption
  <2>2. cmd[d].model # m \/ cmd[d].pc # f
    BY <1>4, <1>12, <2>1 DEF WritesOwn
  <2> QED BY <1>7, <1>12, <2>1, <2>2 DEF WritesOwn
<1> QED
  BY <1>0, <1>2, <1>3, <1>4, <1>6, <1>8, <1>10, <1>11, <1>12, FileStep

\* A chunk goes to the file the command has opened; the last one makes it
\* whole, and the command goes on to what relies on that.
LEMMA WriteOutputStep ==
  ASSUME StoreInv, NEW c \in Commands, WriteOutput(c)
  PROVE  StoreInv'
<1> DEFINE m == cmd[c].model
           f == cmd[c].pc
           o == cmd[c].out
           k == cmd[c].pos + 1
           r == IF k < Chunks[f] THEN [cmd[c] EXCEPT !.pos = k]
                ELSE [cmd[c] EXCEPT !.pc = AfterOutput(f), !.out = None, !.pos = 0]
<1> USE FileNames
<1>0. /\ cmd[c] \in CommandRecord /\ f \in Weights /\ m \in Models
      /\ o \in Commands
      /\ file \in [Models -> [Files -> Commands \cup {None}]]
      /\ inode \in [Models -> [Files -> [Commands ->
                       [len : Nat, good : SUBSET Nat]]]]
      /\ mutated \in BOOLEAN /\ cmd \in [Commands -> CommandRecord]
      /\ ~mutated => HasConverted(c)
  BY StoreFacts DEF StoreInv, CommandsTyped, WriteOutput, CommandRecord
<1>1. k \in Nat /\ k = cmd[c].pos + 1 /\ cmd[c].pos \in Nat /\ Chunks[f] \in Nat
  BY <1>0, StoreAssumption DEF CommandRecord, Weights
<1>2. /\ r \in CommandRecord /\ r.model = m /\ r.entries = cmd[c].entries
      /\ k < Chunks[f] => r.pc = f /\ r.out = o /\ r.pos = k
      /\ ~(k < Chunks[f]) => r.pc = AfterOutput(f) /\ r.out = None
      /\ r.pc \in AtWork
  BY <1>0, <1>1 DEF CommandRecord, AtWork, Weights, AfterOutput
<1>3. /\ cmd' = [cmd EXCEPT ![c] = r] /\ registry' = registry /\ file' = file
      /\ inode' = [inode EXCEPT ![m][f][o] = Put(@, k)]
      /\ mutated' = mutated
  BY DEF WriteOutput
<1>4. ~mutated => WritesOwn(c) /\ o = c
  BY <1>0, StoreAssumption DEF HasConverted, RestsOn, WritesOwn
<1>5. ~mutated => /\ file[m][f] = c
                  /\ cmd[c].pos < Chunks[f]
                  /\ inode[m][f][c] = [len |-> cmd[c].pos, good |-> 1 .. cmd[c].pos]
  BY <1>4 DEF WritesOwn
<1> HIDE DEF r, m, f, o, k
<1>6. Put(inode[m][f][o], k) \in [len : Nat, good : SUBSET Nat]
  <2>1. inode[m][f][o] \in [len : Nat, good : SUBSET Nat]
    BY <1>0 DEF Weights
  <2> QED BY <1>1, <2>1 DEF Put
<1>7. inode' \in [Models -> [Files -> [Commands -> [len : Nat, good : SUBSET Nat]]]]
  BY <1>0, <1>3, <1>6 DEF Weights
<1>8. \A n \in Models, g \in Weights : n # m \/ g # f => inode'[n][g] = inode[n][g]
  BY <1>0, <1>3 DEF Weights
<1>9. ~mutated => inode'[m][f][c] = [len |-> k, good |-> 1 .. k]
  <2> SUFFICES ASSUME ~mutated PROVE inode'[m][f][c] = [len |-> k, good |-> 1 .. k]
    OBVIOUS
  <2>1. inode'[m][f][c] = Put(inode[m][f][c], k)
    BY <1>0, <1>3, <1>4 DEF Weights
  <2>2. k > cmd[c].pos /\ (1 .. cmd[c].pos) \cup {k} = 1 .. k
    BY <1>1
  <2> DEFINE b == inode[m][f][c]
  <2>3. b.len = cmd[c].pos /\ b.good = 1 .. cmd[c].pos
    BY <1>5
  <2> HIDE DEF b
  <2>4. Put(b, k) = [len |-> k, good |-> (1 .. cmd[c].pos) \cup {k}]
    BY <2>2, <2>3 DEF Put
  <2> QED BY <2>1, <2>2, <2>4 DEF b
<1>10. ~mutated' => \A n \in Models, g \in Weights : IsWhole(n, g) => IsWhole(n, g)'
  <2> SUFFICES ASSUME ~mutated', NEW n \in Models, NEW g \in Weights, IsWhole(n, g)
               PROVE  IsWhole(n, g)'
    OBVIOUS
  <2>1. n # m \/ g # f
    <3>1. file[m][f] = c /\ inode[m][f][c].len # Chunks[f]
      BY <1>1, <1>3, <1>5
    <3>2. ~IsWhole(m, f)
      BY <3>1 DEF IsWhole, Whole
    <3> QED BY <3>2
  <2> QED BY <1>3, <1>8, <2>1 DEF IsWhole
<1>11. ASSUME ~mutated', f = "extra" PROVE IsWhole(m, "dec")'
  <2>1. IsWhole(m, "dec")
    BY <1>0, <1>3, <1>11 DEF HasConverted, RestsOn, f, m
  <2>2. \A n \in Models : IsWhole(n, "dec") => IsWhole(n, "dec")'
    BY <1>10, <1>11 DEF Weights
  <2>3. m' = m
    BY <1>0, <1>2, <1>3 DEF m
  <2> QED BY <1>0, <2>1, <2>2, <2>3 DEF IsWhole
<1>12. ASSUME ~mutated' PROVE RestsOn(c)'
  <2>1. cmd'[c] = r /\ m' = m
    BY <1>0, <1>2, <1>3 DEF m
  <2>2. CASE k < Chunks[f]
    <3>1. WritesOwn(c)'
      BY <1>2, <1>3, <1>4, <1>5, <1>9, <1>12, <2>1, <2>2 DEF WritesOwn
    <3>2. cmd'[c].pc = "extra" => IsWhole(cmd[c].model, "dec")'
      BY <1>2, <1>11, <1>12, <2>1, <2>2 DEF m
    <3>3. cmd'[c].pc \notin {"pulled", "save"}
      BY <1>0, <1>2, <2>1, <2>2 DEF Weights
    <3> QED BY <3>1, <3>2, <3>3 DEF RestsOn
  <2>3. CASE ~(k < Chunks[f])
    <3>1. k = Chunks[f]
      BY <1>1, <1>3, <1>5, <1>12, <2>3
    <3>2. file'[m][f] = c /\ c # None /\ inode'[m][f][c] = Whole(f)
      BY <1>3, <1>5, <1>9, <1>12, <3>1, StoreAssumption DEF Whole
    <3>3. cmd'[c].out = None /\ cmd'[c].pc = AfterOutput(f) /\ cmd'[c].model = m
      BY <1>2, <2>1, <2>3
    <3>4. CASE f = "dec"
      <4>1. IsWhole(m, "dec")'
        BY <2>1, <3>2, <3>4 DEF IsWhole, Whole
      <4>2. cmd'[c].pc = "extra"
        BY <3>3, <3>4 DEF AfterOutput
      <4>3. IsWhole(cmd[c].model, "dec")'
        BY <2>1, <3>3, <4>1 DEF IsWhole
      <4> QED BY <3>3, <4>2, <4>3 DEF RestsOn
    <3>5. CASE f = "extra"
      <4>1. IsWhole(m, "extra")' /\ IsWhole(m, "dec")'
        BY <1>11, <1>12, <2>1, <3>2, <3>5 DEF IsWhole, Whole
      <4>2. cmd'[c].pc = "pulled"
        BY <3>3, <3>5 DEF AfterOutput
      <4>3. BothWhole(cmd[c].model)'
        BY <2>1, <3>3, <4>1 DEF BothWhole, IsWhole
      <4> QED BY <3>3, <4>2, <4>3 DEF RestsOn
    <3> QED BY <1>0, <3>4, <3>5 DEF Weights
  <2> QED BY <2>2, <2>3
<1>13. ASSUME ~mutated', NEW d \in Commands, d # c, cmd[d].out # None, WritesOwn(d)
       PROVE  WritesOwn(d)'
  <2>1. cmd[d].model \in Models /\ cmd[d].pc \in Weights /\ cmd'[d] = cmd[d]
    BY <1>0, <1>3, <1>13, StoreFacts
  <2>2. cmd[d].model # m \/ cmd[d].pc # f
    BY <1>3, <1>5, <1>13, <2>1 DEF WritesOwn
  <2> QED BY <1>3, <1>8, <1>13, <2>1, <2>2 DEF WritesOwn
<1>14. r.out # None => r.pc \in Weights
  BY <1>0, <1>2
<1> QED
  BY <1>0, <1>2, <1>3, <1>7, <1>10, <1>12, <1>13, <1>14, FileStep

-----------------------------------------------------------------------------
(* The theorems.                                                           *)

\* An import leaves the converting node as it is.
LEMMA ImportStep == StoreInv /\ UNCHANGED commandVars => StoreInv'
<1> SUFFICES ASSUME StoreInv, UNCHANGED commandVars PROVE StoreInv'
  OBVIOUS
<1>1. UNCHANGED <<file, inode, registry, cmd, mutated>>
  BY DEF commandVars
<1> QED
  BY <1>1 DEF StoreInv, CommandsTyped, ConvertInv, HasConverted, RestsOn, WritesOwn,
              IsWhole, BothWhole

\* Every step of commands and imports keeps the invariant.
LEMMA StoreStep == StoreInv /\ [Next]_vars => StoreInv'
<1> SUFFICES ASSUME StoreInv, [Next]_vars PROVE StoreInv'
  OBVIOUS
<1>1. ASSUME NEW c \in Commands, Command(c) PROVE StoreInv'
  <2>1. ASSUME NEW m \in Models, BeginPull(c, m) PROVE StoreInv'
    BY <2>1, BeginPullStep
  <2>2. CASE OpenOutput(c)
    BY <2>2, OpenOutputStep
  <2>3. CASE WriteOutput(c)
    BY <2>3, WriteOutputStep
  <2>4. CASE UnlinkWeights(c) \/ UnlinkExtra(c)
    BY <2>4, UnlinkStep DEF UnlinkWeights, UnlinkExtra, Weights
  <2>5. CASE WriteRegistry(c)
    BY <2>5, WriteRegistryStep
  <2>6. CASE \/ PullFails(c) \/ WeightsFail(c) \/ OutputFails(c)
             \/ (\E m \in Models : BeginRm(c, m)) \/ ReadRegistry(c) \/ Killed(c)
    BY <2>6, MovingSteps
  <2> QED BY <1>1, <2>1, <2>2, <2>3, <2>4, <2>5, <2>6 DEF Command
<1>2. ASSUME NEW i \in Imports, Import(i) PROVE StoreInv'
  <2>1. UNCHANGED commandVars
    BY <1>2 DEF Import, Transfer, BeginImport, BeginStart, GetList, GetFile, FileNotFound,
                OpenSource, SourceGone, StreamChunk, StreamStalls, StreamBreaks, WrongSize,
              KeepFile, GiveUpImport
  <2> QED BY <2>1, ImportStep
<1>3. CASE UNCHANGED vars
  BY <1>3, ImportStep DEF vars
<1> QED
  BY <1>1, <1>2, <1>3 DEF Next

\* The registry lists converted models only: whatever commands fail, are killed
\* or run at the same time, an entry of models.json has both files of weights,
\* whole, as long as no command has truncated or deleted a file.
THEOREM RegistryListsWholeModels == Spec => []RegisteredIsWhole
<1>1. StoreInv => RegisteredIsWhole
  BY DEF StoreInv, ConvertInv, RegisteredIsWhole, BothWhole, IsWhole
<1> QED
  BY <1>1, InitStore, StoreStep, PTL DEF Spec

\* model_extra.bin marks a model: where dir_has_model finds it on the converting
\* node, model_decomposed.bin is there and has all its chunks.
THEOREM MarkedModelsHaveWeights ==
  Spec => [](~mutated => \A m \in Models : Has(m) => IsWhole(m, "dec"))
<1>1. StoreInv => (~mutated => \A m \in Models : Has(m) => IsWhole(m, "dec"))
  BY DEF StoreInv, ConvertInv, Has
<1> QED
  BY <1>1, InitStore, StoreStep, PTL DEF Spec

-----------------------------------------------------------------------------
(* The importing node: its types.                                          *)

\* The files still to be fetched are some of Names, in their order.
Lefts == {<<>>, <<"dec">>, <<"extra">>, <<"tok">>, <<"dec", "extra">>,
          <<"dec", "tok">>, <<"extra", "tok">>, <<"dec", "extra", "tok">>}

Ahead(s) == {s[k] : k \in DOMAIN s}

Fetching == {"get", "stream"}

ImportRecord ==
    [pc : {"new", "list", "get", "stream", "present", "ok", "failed", "unused"},
     model : Models \cup {None}, left : Lefts,
     size : [Files -> 0 .. MaxChunks], to : Imports \cup {None},
     from : Commands \cup {None}, announced : 0 .. MaxChunks, got : 0 .. MaxChunks]

\* An import at work has a model, and one that gets files has one left.
ImportShape(r) ==
    /\ r.got <= r.announced
    /\ r.pc \in Fetching \cup {"list", "ok"} => r.model \in Models
    /\ r.pc \in Fetching => r.left # <<>>
    /\ r.pc = "ok" => r.left = <<>>
    /\ r.pc = "stream" => r.to \in Imports /\ r.from \in Commands
    /\ r.pc # "stream" => r.got = 0

\* A file of weights that is written has chunks to come.
CommandsBounded ==
    /\ inode \in [Models -> [Files -> [Commands -> Bytes]]]
    /\ \A c \in Commands :
        /\ cmd[c].pos \in 0 .. MaxChunks
        /\ cmd[c].out # None => cmd[c].pos < Chunks[cmd[c].pc]

ImportsTyped ==
    /\ part \in [Models -> [Files -> Imports \cup {None}]]
    /\ final \in [Models -> [Files -> Imports \cup {None}]]
    /\ copy \in [Imports -> [Files -> Bytes]]
    /\ imp \in [Imports -> ImportRecord]
    /\ \A i \in Imports : ImportShape(imp[i])

TypesInv == CommandsTyped /\ CommandsBounded /\ ImportsTyped /\ faults \in 0 .. MaxFaults

\* No file has more chunks than MaxChunks.
LEMMA ChunkBounds ==
    /\ MaxChunks \in Nat
    /\ \A f \in Files : Chunks[f] \in Nat /\ 0 < Chunks[f] /\ Chunks[f] <= MaxChunks
<1> DEFINE S == {Chunks[f] : f \in Files}
<1>1. \A f \in Files : Chunks[f] \in Nat /\ 0 < Chunks[f]
  BY FileNames, StoreAssumption
<1>2. \E x \in S : \A y \in S : x >= y
  <2> DEFINE a == Chunks["dec"]  b == Chunks["extra"]  c == Chunks["tok"]
  <2>1. S = {a, b, c} /\ a \in Nat /\ b \in Nat /\ c \in Nat
    BY FileNames, StoreAssumption
  <2> HIDE DEF S, a, b, c
  <2> QED BY <2>1
<1>3. MaxChunks \in S /\ \A y \in S : MaxChunks >= y
  BY <1>2 DEF MaxChunks, Max
<1> QED
  BY <1>1, <1>3

\* What is ahead in sequences of up to two files.
LEMMA AheadOf ==
  ASSUME NEW x, NEW y
  PROVE  Ahead(<<>>) = {} /\ Ahead(<<x>>) = {x} /\ Ahead(<<x, y>>) = {x, y}
<1>1. DOMAIN <<>> = {} /\ DOMAIN <<x>> = {1} /\ DOMAIN <<x, y>> = {1, 2}
  OBVIOUS
<1> QED
  BY <1>1 DEF Ahead

\* And in one of three.
LEMMA AheadOfAll == Ahead(<<"dec", "extra", "tok">>) = {"dec", "extra", "tok"}
<1>1. DOMAIN <<"dec", "extra", "tok">> = {1, 2, 3}
  OBVIOUS
<1> QED
  BY <1>1 DEF Ahead

\* Files that are there, one after the other.
LEMMA Joined ==
  ASSUME NEW x, NEW y
  PROVE  <<x>> \o <<y>> = <<x, y>>
<1> DEFINE S == {x, y}
<1>1. <<x>> \o <<y>> \in Seq(S) /\ <<x, y>> \in Seq(S)
  OBVIOUS
<1>2. Len(<<x>> \o <<y>>) = 2 /\ Len(<<x, y>>) = 2
  OBVIOUS
<1>3. (<<x>> \o <<y>>)[1] = x /\ (<<x>> \o <<y>>)[2] = y
  OBVIOUS
<1>4. \A i \in 1 .. 2 : (<<x>> \o <<y>>)[i] = <<x, y>>[i]
  BY <1>3, 1 .. 2 = {1, 2}
<1> HIDE DEF S
<1> QED
  BY <1>1, <1>2, <1>4, SeqEqual

\* All of them.
LEMMA AllJoined == (<<"dec">> \o <<"extra">>) \o <<"tok">> = <<"dec", "extra", "tok">>
<1> DEFINE S == {"dec", "extra", "tok"}
           s == <<"dec", "extra">> \o <<"tok">>
           t == <<"dec", "extra", "tok">>
<1>1. s \in Seq(S) /\ t \in Seq(S) /\ Len(s) = 3 /\ Len(t) = 3
  OBVIOUS
<1>2. s[1] = "dec" /\ s[2] = "extra" /\ s[3] = "tok"
  OBVIOUS
<1>3. \A i \in 1 .. 3 : s[i] = t[i]
  BY <1>2, 1 .. 3 = {1, 2, 3}
<1>4. <<"dec">> \o <<"extra">> = <<"dec", "extra">>
  BY Joined
<1> HIDE DEF S, s, t
<1>5. s = t
  BY <1>1, <1>3, SeqEqual
<1> QED
  BY <1>4, <1>5 DEF s, t

\* A file that is not there is passed over.
LEMMA PassedOver ==
  ASSUME NEW x, NEW y
  PROVE  /\ <<>> \o <<x>> = <<x>> /\ <<x>> \o <<>> = <<x>> /\ <<>> \o <<>> = <<>>
         /\ <<x, y>> \o <<>> = <<x, y>>
<1> DEFINE S == {x, y}
<1>1. <<>> \in Seq(S) /\ <<x>> \in Seq(S) /\ <<x, y>> \in Seq(S)
  OBVIOUS
<1> HIDE DEF S
<1> QED
  BY <1>1, ConcatEmptySeq

\* What sequences of up to three files are made of.
LEMMA Tuples ==
  ASSUME NEW x, NEW y, NEW z
  PROVE  /\ <<x>> # <<>> /\ <<x, y>> # <<>> /\ <<x, y, z>> # <<>>
         /\ Head(<<x>>) = x /\ Head(<<x, y>>) = x /\ Head(<<x, y, z>>) = x
         /\ Tail(<<x>>) = <<>> /\ Tail(<<x, y>>) = <<y>> /\ Tail(<<x, y, z>>) = <<y, z>>
         /\ Len(<<x>>) = 1 /\ Len(<<x, y>>) = 2 /\ Len(<<x, y, z>>) = 3
OBVIOUS

\* What is ahead of an import that has a file left.
LEMMA LeftFacts ==
  ASSUME NEW s \in Lefts, s # <<>>
  PROVE  /\ Head(s) \in Files /\ Tail(s) \in Lefts
         /\ Len(s) = 1 <=> Tail(s) = <<>>
         /\ Ahead(s) = {Head(s)} \cup Ahead(Tail(s))
         /\ Head(s) = "extra" => "dec" \notin Ahead(s)
<1>1. CASE s = <<"dec">>
  <2>1. /\ Head(s) = "dec" /\ Tail(s) = <<>> /\ Len(s) = 1
    BY <1>1, Tuples
  <2>2. Ahead(s) = {"dec"} /\ Ahead(Tail(s)) = {}
    BY <1>1, <2>1, AheadOf
  <2>3. Tail(s) \in Lefts /\ Tail(s) = <<>>
    BY <2>1, Tuples DEF Lefts
  <2> QED BY <2>1, <2>2, <2>3, FileNames
<1>2. CASE s = <<"extra">>
  <2>1. /\ Head(s) = "extra" /\ Tail(s) = <<>> /\ Len(s) = 1
    BY <1>2, Tuples
  <2>2. Ahead(s) = {"extra"} /\ Ahead(Tail(s)) = {}
    BY <1>2, <2>1, AheadOf
  <2>3. Tail(s) \in Lefts /\ Tail(s) = <<>>
    BY <2>1, Tuples DEF Lefts
  <2> QED BY <2>1, <2>2, <2>3, FileNames
<1>3. CASE s = <<"tok">>
  <2>1. /\ Head(s) = "tok" /\ Tail(s) = <<>> /\ Len(s) = 1
    BY <1>3, Tuples
  <2>2. Ahead(s) = {"tok"} /\ Ahead(Tail(s)) = {}
    BY <1>3, <2>1, AheadOf
  <2>3. Tail(s) \in Lefts /\ Tail(s) = <<>>
    BY <2>1, Tuples DEF Lefts
  <2> QED BY <2>1, <2>2, <2>3, FileNames
<1>4. CASE s = <<"dec", "extra">>
  <2>1. /\ Head(s) = "dec" /\ Tail(s) = <<"extra">> /\ Len(s) = 2
    BY <1>4, Tuples
  <2>2. Ahead(s) = {"dec", "extra"} /\ Ahead(Tail(s)) = {"extra"}
    BY <1>4, <2>1, AheadOf
  <2>3. Tail(s) \in Lefts /\ Tail(s) # <<>>
    BY <2>1, Tuples DEF Lefts
  <2> QED BY <2>1, <2>2, <2>3, FileNames
<1>5. CASE s = <<"dec", "tok">>
  <2>1. /\ Head(s) = "dec" /\ Tail(s) = <<"tok">> /\ Len(s) = 2
    BY <1>5, Tuples
  <2>2. Ahead(s) = {"dec", "tok"} /\ Ahead(Tail(s)) = {"tok"}
    BY <1>5, <2>1, AheadOf
  <2>3. Tail(s) \in Lefts /\ Tail(s) # <<>>
    BY <2>1, Tuples DEF Lefts
  <2> QED BY <2>1, <2>2, <2>3, FileNames
<1>6. CASE s = <<"extra", "tok">>
  <2>1. /\ Head(s) = "extra" /\ Tail(s) = <<"tok">> /\ Len(s) = 2
    BY <1>6, Tuples
  <2>2. Ahead(s) = {"extra", "tok"} /\ Ahead(Tail(s)) = {"tok"}
    BY <1>6, <2>1, AheadOf
  <2>3. Tail(s) \in Lefts /\ Tail(s) # <<>>
    BY <2>1, Tuples DEF Lefts
  <2> QED BY <2>1, <2>2, <2>3, FileNames
<1>7. CASE s = <<"dec", "extra", "tok">>
  <2>1. /\ Head(s) = "dec" /\ Tail(s) = <<"extra", "tok">> /\ Len(s) = 3
    BY <1>7, Tuples
  <2>2. Ahead(s) = {"dec", "extra", "tok"} /\ Ahead(Tail(s)) = {"extra", "tok"}
    BY <1>7, <2>1, AheadOf, AheadOfAll
  <2>3. Tail(s) \in Lefts /\ Tail(s) # <<>>
    BY <2>1, Tuples DEF Lefts
  <2> QED BY <2>1, <2>2, <2>3, FileNames
<1> QED
  BY <1>1, <1>2, <1>3, <1>4, <1>5, <1>6, <1>7 DEF Lefts

\* Nothing is ahead of an import that has no file left.
LEMMA NothingAhead == <<>> \in Lefts /\ Ahead(<<>>) = {}
BY AheadOf DEF Lefts

\* GET /node/files lists the files that are there.
LEMMA ListedFacts ==
  ASSUME NEW m \in Models
  PROVE  /\ Listed(m) \in Lefts
         /\ Ahead(Listed(m)) = {f \in Files : file[m][f] # None}
         /\ Has(m) => Listed(m) # <<>>
<1> DEFINE there(f) == IF file[m][f] = None THEN <<>> ELSE <<f>>
<1>1. Listed(m) = (there("dec") \o there("extra")) \o there("tok")
  BY DEF Listed, Names
<1>2. {f \in Files : file[m][f] # None} =
        (IF file[m]["dec"] = None THEN {} ELSE {"dec"})
        \cup (IF file[m]["extra"] = None THEN {} ELSE {"extra"})
        \cup (IF file[m]["tok"] = None THEN {} ELSE {"tok"})
  BY FileNames
<1>3. CASE file[m]["dec"] = None /\ file[m]["extra"] = None /\ file[m]["tok"] = None
  <2>1. there("dec") = <<>> /\ there("extra") = <<>> /\ there("tok") = <<>>
    BY <1>3
  <2>2. Listed(m) = <<>>
    BY <1>1, <2>1, Joined, PassedOver
  <2>3. Ahead(Listed(m)) = {} /\ Listed(m) \in Lefts
    BY <2>2, AheadOf DEF Lefts
  <2>4. Has(m) => Listed(m) # <<>>
    BY <1>3, <2>2, Tuples DEF Has
  <2> QED BY <1>2, <1>3, <2>3, <2>4
<1>4. CASE file[m]["dec"] = None /\ file[m]["extra"] = None /\ file[m]["tok"] # None
  <2>1. there("dec") = <<>> /\ there("extra") = <<>> /\ there("tok") = <<"tok">>
    BY <1>4
  <2>2. Listed(m) = <<"tok">>
    BY <1>1, <2>1, Joined, PassedOver
  <2>3. Ahead(Listed(m)) = {"tok"} /\ Listed(m) \in Lefts
    BY <2>2, AheadOf DEF Lefts
  <2>4. Has(m) => Listed(m) # <<>>
    BY <1>4, <2>2, Tuples DEF Has
  <2> QED BY <1>2, <1>4, <2>3, <2>4
<1>5. CASE file[m]["dec"] = None /\ file[m]["extra"] # None /\ file[m]["tok"] = None
  <2>1. there("dec") = <<>> /\ there("extra") = <<"extra">> /\ there("tok") = <<>>
    BY <1>5
  <2>2. Listed(m) = <<"extra">>
    BY <1>1, <2>1, Joined, PassedOver
  <2>3. Ahead(Listed(m)) = {"extra"} /\ Listed(m) \in Lefts
    BY <2>2, AheadOf DEF Lefts
  <2>4. Has(m) => Listed(m) # <<>>
    BY <1>5, <2>2, Tuples DEF Has
  <2> QED BY <1>2, <1>5, <2>3, <2>4
<1>6. CASE file[m]["dec"] = None /\ file[m]["extra"] # None /\ file[m]["tok"] # None
  <2>1. there("dec") = <<>> /\ there("extra") = <<"extra">> /\ there("tok") = <<"tok">>
    BY <1>6
  <2>2. Listed(m) = <<"extra", "tok">>
    BY <1>1, <2>1, Joined, PassedOver
  <2>3. Ahead(Listed(m)) = {"extra", "tok"} /\ Listed(m) \in Lefts
    BY <2>2, AheadOf DEF Lefts
  <2>4. Has(m) => Listed(m) # <<>>
    BY <1>6, <2>2, Tuples DEF Has
  <2> QED BY <1>2, <1>6, <2>3, <2>4
<1>7. CASE file[m]["dec"] # None /\ file[m]["extra"] = None /\ file[m]["tok"] = None
  <2>1. there("dec") = <<"dec">> /\ there("extra") = <<>> /\ there("tok") = <<>>
    BY <1>7
  <2>2. Listed(m) = <<"dec">>
    BY <1>1, <2>1, Joined, PassedOver
  <2>3. Ahead(Listed(m)) = {"dec"} /\ Listed(m) \in Lefts
    BY <2>2, AheadOf DEF Lefts
  <2>4. Has(m) => Listed(m) # <<>>
    BY <1>7, <2>2, Tuples DEF Has
  <2> QED BY <1>2, <1>7, <2>3, <2>4
<1>8. CASE file[m]["dec"] # None /\ file[m]["extra"] = None /\ file[m]["tok"] # None
  <2>1. there("dec") = <<"dec">> /\ there("extra") = <<>> /\ there("tok") = <<"tok">>
    BY <1>8
  <2>2. Listed(m) = <<"dec", "tok">>
    BY <1>1, <2>1, Joined, PassedOver
  <2>3. Ahead(Listed(m)) = {"dec", "tok"} /\ Listed(m) \in Lefts
    BY <2>2, AheadOf DEF Lefts
  <2>4. Has(m) => Listed(m) # <<>>
    BY <1>8, <2>2, Tuples DEF Has
  <2> QED BY <1>2, <1>8, <2>3, <2>4
<1>9. CASE file[m]["dec"] # None /\ file[m]["extra"] # None /\ file[m]["tok"] = None
  <2>1. there("dec") = <<"dec">> /\ there("extra") = <<"extra">> /\ there("tok") = <<>>
    BY <1>9
  <2>2. Listed(m) = <<"dec", "extra">>
    BY <1>1, <2>1, Joined, PassedOver
  <2>3. Ahead(Listed(m)) = {"dec", "extra"} /\ Listed(m) \in Lefts
    BY <2>2, AheadOf DEF Lefts
  <2>4. Has(m) => Listed(m) # <<>>
    BY <1>9, <2>2, Tuples DEF Has
  <2> QED BY <1>2, <1>9, <2>3, <2>4
<1>10. CASE file[m]["dec"] # None /\ file[m]["extra"] # None /\ file[m]["tok"] # None
  <2>1. there("dec") = <<"dec">> /\ there("extra") = <<"extra">> /\ there("tok") = <<"tok">>
    BY <1>10
  <2>2. Listed(m) = <<"dec", "extra", "tok">>
    BY <1>1, <2>1, AllJoined
  <2>3. Ahead(Listed(m)) = {"dec", "extra", "tok"} /\ Listed(m) \in Lefts
    BY <2>2, AheadOfAll DEF Lefts
  <2>4. Has(m) => Listed(m) # <<>>
    BY <1>10, <2>2, Tuples DEF Has
  <2> QED BY <1>2, <1>10, <2>3, <2>4
<1> QED
  BY <1>3, <1>4, <1>5, <1>6, <1>7, <1>8, <1>9, <1>10

\* The initial state is of its types.
LEMMA InitTypes == Init => TypesInv
<1> SUFFICES ASSUME Init PROVE TypesInv
  OBVIOUS
<1>0. MaxChunks \in Nat /\ 0 \in 0 .. MaxChunks /\ 0 \in 0 .. MaxFaults
  BY ChunkBounds, StoreAssumption
<1>1. Empty \in Bytes
  BY <1>0 DEF Empty, Bytes
<1>2. PICK cast \in Casts :
         /\ cmd = [c \in Commands |-> IF c \in cast THEN NewCommand ELSE Over("unused")]
         /\ imp = [i \in Imports |-> [NewImport EXCEPT
                      !.pc = IF i \in cast THEN "new" ELSE "unused"]]
  BY DEF Init
<1>3. CommandsTyped
  BY InitStore DEF StoreInv
<1>4. \A c \in Commands : cmd[c].pos = 0 /\ cmd[c].out = None
  BY <1>2 DEF NewCommand, Over
<1>5. CommandsBounded
  BY <1>0, <1>1, <1>4 DEF Init, CommandsBounded
<1>6. \A p \in {"new", "unused"} : /\ [NewImport EXCEPT !.pc = p] \in ImportRecord
                                   /\ ImportShape([NewImport EXCEPT !.pc = p])
  BY <1>0, NothingAhead DEF NewImport, ImportRecord, ImportShape, Fetching
<1>7. \A i \in Imports : imp[i] \in ImportRecord /\ ImportShape(imp[i])
  BY <1>2, <1>6
<1>8. imp \in [Imports -> ImportRecord]
  BY <1>2, <1>7
<1>9. ImportsTyped
  BY <1>1, <1>7, <1>8 DEF Init, ImportsTyped
<1> QED
  BY <1>0, <1>3, <1>5, <1>9 DEF Init, TypesInv

\* Chunks of a file put into bytes leave bytes.
LEMMA PutBytes ==
  ASSUME NEW b \in Bytes, NEW k \in 1 .. MaxChunks, NEW source
  PROVE  /\ Put(b, k) \in Bytes /\ Copied(b, k, source) \in Bytes
         /\ Empty \in Bytes /\ \A f \in Files : Whole(f) \in Bytes
<1>1. MaxChunks \in Nat /\ \A f \in Files : Chunks[f] \in Nat /\ Chunks[f] <= MaxChunks
  BY ChunkBounds
<1>2. /\ b.len \in 0 .. MaxChunks /\ b.good \subseteq 1 .. MaxChunks
      /\ k \in 0 .. MaxChunks
  BY <1>1 DEF Bytes
<1>3. Put(b, k) \in Bytes
  BY <1>2 DEF Put, Bytes
<1>4. Copied(b, k, source) \in Bytes
  <2>1. [Put(b, k) EXCEPT !.good = b.good \ {k}] \in Bytes
    BY <1>2, <1>3 DEF Bytes
  <2> QED BY <1>3, <2>1 DEF Copied
<1> QED
  BY <1>1, <1>3, <1>4 DEF Empty, Whole, Bytes

\* The empty file and the whole ones are bytes.
LEMMA EmptyAndWhole == Empty \in Bytes /\ \A f \in Files : Whole(f) \in Bytes
<1>1. MaxChunks \in Nat /\ \A f \in Files : Chunks[f] \in Nat /\ Chunks[f] <= MaxChunks
  BY ChunkBounds
<1> QED
  BY <1>1 DEF Empty, Whole, Bytes

\* A command that writes on, or no longer writes.
LEMMA BoundedStep ==
  ASSUME TypesInv, NEW c \in Commands, NEW r,
         cmd' = [cmd EXCEPT ![c] = r],
         inode' \in [Models -> [Files -> [Commands -> Bytes]]],
         r.pos \in 0 .. MaxChunks, r.out # None => r.pos < Chunks[r.pc]
  PROVE  CommandsBounded'
<1>1. cmd'[c] = r /\ \A d \in Commands : d # c => cmd'[d] = cmd[d]
  BY DEF TypesInv, CommandsTyped
<1>2. ASSUME NEW d \in Commands
      PROVE  /\ cmd'[d].pos \in 0 .. MaxChunks
             /\ cmd'[d].out # None => cmd'[d].pos < Chunks[cmd'[d].pc]
  BY <1>1 DEF TypesInv, CommandsBounded
<1> QED
  BY <1>2 DEF CommandsBounded, Bytes, MaxChunks

\* A command that moves on with every inode as it was.
LEMMA BoundedMove ==
  ASSUME TypesInv, NEW c \in Commands, NEW r,
         cmd' = [cmd EXCEPT ![c] = r], inode' = inode,
         r.pos \in 0 .. MaxChunks, r.out = None
  PROVE  CommandsBounded'
BY BoundedStep DEF TypesInv, CommandsBounded

\* A command writes within the size of the files.
LEMMA CommandBounds ==
  ASSUME TypesInv, NEW c \in Commands, Command(c)
  PROVE  CommandsBounded' /\ UNCHANGED importVars /\ faults' \in 0 .. MaxFaults
<1> USE FileNames
<1>0. /\ cmd \in [Commands -> CommandRecord]
      /\ inode \in [Models -> [Files -> [Commands -> Bytes]]]
      /\ file \in [Models -> [Files -> Commands \cup {None}]]
      /\ \A d \in Commands :
          /\ cmd[d].pos \in 0 .. MaxChunks
          /\ cmd[d].out # None => /\ cmd[d].pos < Chunks[cmd[d].pc] /\ cmd[d].pc \in Weights
                                  /\ cmd[d].pc \in AtWork /\ cmd[d].out \in Commands
          /\ cmd[d].pc \in AtWork => cmd[d].model \in Models
  BY DEF TypesInv, CommandsTyped, CommandsBounded, Weights, AtWork, CommandRecord
<1>1. UNCHANGED importVars /\ faults' \in 0 .. MaxFaults
  <2>1. \/ UNCHANGED <<importVars, faults>>
        \/ UNCHANGED importVars /\ faults < MaxFaults /\ faults' = faults + 1
    BY DEF Command, BeginPull, PullFails, WeightsFail, OpenOutput, WriteOutput,
           OutputFails, BeginRm, UnlinkWeights, UnlinkExtra, Unlink, ReadRegistry,
           WriteRegistry, Killed
  <2> QED BY <2>1, StoreAssumption DEF TypesInv
<1>2. SUFFICES CommandsBounded'
  BY <1>1
<1>3. MaxChunks \in Nat /\ \A f \in Files : Chunks[f] \in Nat /\ 0 < Chunks[f] /\ Chunks[f] <= MaxChunks
  BY ChunkBounds
<1>4. \A p : Over(p).pos = 0 /\ Over(p).out = None
  BY DEF Over, NewCommand
<1>5. CASE WeightsFail(c) \/ OutputFails(c) \/ Killed(c)
  <2>1. cmd' = [cmd EXCEPT ![c] = Over("failed")] /\ inode' = inode
    BY <1>5 DEF WeightsFail, OutputFails, Killed
  <2>2. Over("failed").pos \in 0 .. MaxChunks /\ Over("failed").out = None
    BY <1>3, <1>4
  <2> QED BY BoundedMove, <2>1, <2>2
<1>6. CASE PullFails(c) \/ UnlinkWeights(c) \/ UnlinkExtra(c)
  <2>1. PICK p : cmd' = [cmd EXCEPT ![c].pc = p]
    BY <1>6 DEF PullFails, UnlinkWeights, UnlinkExtra, Unlink
  <2>2. inode' = inode /\ cmd[c].out = None
    BY <1>0, <1>6 DEF PullFails, UnlinkWeights, UnlinkExtra, Unlink, Weights
  <2> DEFINE r == [cmd[c] EXCEPT !.pc = p]
  <2>3. cmd' = [cmd EXCEPT ![c] = r] /\ r.pos = cmd[c].pos /\ r.out = cmd[c].out
    BY <1>0, <2>1 DEF CommandRecord
  <2> HIDE DEF r
  <2> QED BY <1>0, BoundedMove, <2>2, <2>3
<1>7. CASE ReadRegistry(c)
  <2> DEFINE r == [cmd[c] EXCEPT !.entries = registry,
                     !.pc = IF cmd[c].pc = "pulled" THEN "save" ELSE "drop"]
  <2>1. cmd[c].out = None /\ inode' = inode
    BY <1>0, <1>7 DEF ReadRegistry, Weights
  <2>2. cmd' = [cmd EXCEPT ![c] = r] /\ r.pos = cmd[c].pos /\ r.out = cmd[c].out
    BY <1>0, <1>7 DEF ReadRegistry, CommandRecord
  <2> HIDE DEF r
  <2> QED BY <1>0, BoundedMove, <2>1, <2>2
<1>8. CASE WriteRegistry(c)
  <2> DEFINE r == [Over("done") EXCEPT !.model = cmd[c].model]
  <2>1. cmd' = [cmd EXCEPT ![c] = r] /\ inode' = inode
    BY <1>8 DEF WriteRegistry
  <2>2. r.pos \in 0 .. MaxChunks /\ r.out = None
    BY <1>3 DEF Over, NewCommand
  <2> HIDE DEF r
  <2> QED BY BoundedMove, <2>1, <2>2
<1>9. ASSUME NEW m \in Models, BeginRm(c, m) PROVE CommandsBounded'
  <2>1. CASE cmd' = [cmd EXCEPT ![c] = Over("failed")]
    <3>1. Over("failed").pos \in 0 .. MaxChunks /\ Over("failed").out = None
      BY <1>3, <1>4
    <3>2. inode' = inode
      BY <1>9 DEF BeginRm
    <3> QED BY BoundedMove, <2>1, <3>1, <3>2
  <2>2. CASE cmd' = [cmd EXCEPT ![c] = [@ EXCEPT !.model = m, !.pc = "unlink"]]
    <3> DEFINE r == [cmd[c] EXCEPT !.model = m, !.pc = "unlink"]
    <3>1. cmd[c].out = None /\ inode' = inode
      BY <1>0, <1>9 DEF BeginRm, Weights
    <3>2. cmd' = [cmd EXCEPT ![c] = r] /\ r.pos = cmd[c].pos /\ r.out = cmd[c].out
      BY <1>0, <2>2 DEF CommandRecord
    <3> HIDE DEF r
    <3> QED BY <1>0, BoundedMove, <3>1, <3>2
  <2> QED BY <1>9, <2>1, <2>2 DEF BeginRm
<1>10. ASSUME NEW m \in Models, BeginPull(c, m) PROVE CommandsBounded'
  <2> DEFINE r == [cmd[c] EXCEPT !.pc = "dec", !.model = m]
  <2>1. cmd[c].out = None /\ inode' = [inode EXCEPT ![m]["tok"][c] = Whole("tok")]
    BY <1>0, <1>10 DEF BeginPull, Fetch, Weights
  <2>2. cmd' = [cmd EXCEPT ![c] = r] /\ r.pos = cmd[c].pos /\ r.out = cmd[c].out
    BY <1>0, <1>10 DEF BeginPull, CommandRecord
  <2>3. inode' \in [Models -> [Files -> [Commands -> Bytes]]]
    BY <1>0, <2>1, EmptyAndWhole
  <2> HIDE DEF r
  <2> QED BY <1>0, BoundedStep, <2>1, <2>2, <2>3
<1>11. CASE OpenOutput(c)
  <2> DEFINE m == cmd[c].model
             f == cmd[c].pc
             o == IF file[m][f] = None THEN c ELSE file[m][f]
             r == [cmd[c] EXCEPT !.out = o, !.pos = 0]
  <2>1. f \in Files /\ f \in AtWork /\ m \in Models
    BY <1>0, <1>11 DEF OpenOutput, AtWork
  <2>2. o \in Commands
    BY <1>0, <2>1
  <2>3. cmd' = [cmd EXCEPT ![c] = r] /\ inode' = [inode EXCEPT ![m][f][o] = Empty]
    BY <1>11 DEF OpenOutput
  <2>4. r.pos = 0 /\ r.pc = f
    BY <1>0 DEF CommandRecord
  <2> HIDE DEF m, f, o, r
  <2>5. inode' \in [Models -> [Files -> [Commands -> Bytes]]]
    BY <1>0, <2>1, <2>2, <2>3, EmptyAndWhole
  <2>6. r.pos \in 0 .. MaxChunks /\ r.pos < Chunks[r.pc]
    BY <1>3, <2>1, <2>4
  <2> QED BY BoundedStep, <2>3, <2>5, <2>6
<1>12. CASE WriteOutput(c)
  <2> DEFINE m == cmd[c].model
             f == cmd[c].pc
             o == cmd[c].out
             k == cmd[c].pos + 1
             r == IF k < Chunks[f] THEN [cmd[c] EXCEPT !.pos = k]
                  ELSE [cmd[c] EXCEPT !.pc = AfterOutput(f), !.out = None, !.pos = 0]
  <2>1. f \in Files /\ m \in Models /\ o \in Commands /\ k \in 1 .. MaxChunks
    BY <1>0, <1>3, <1>12 DEF WriteOutput, Weights
  <2>2. cmd' = [cmd EXCEPT ![c] = r] /\ inode' = [inode EXCEPT ![m][f][o] = Put(@, k)]
    BY <1>12 DEF WriteOutput
  <2>3. /\ r.pos \in 0 .. MaxChunks
        /\ r.out # None => r.pos < Chunks[r.pc]
    <3>1. CASE k < Chunks[f]
      <4>1. r.pos = k /\ r.pc = f
        BY <1>0, <3>1 DEF CommandRecord
      <4> QED BY <1>3, <2>1, <3>1, <4>1
    <3>2. CASE ~(k < Chunks[f])
      <4>1. r.pos = 0 /\ r.out = None
        BY <1>0, <3>2 DEF CommandRecord
      <4> QED BY <1>3, <4>1
    <3> QED BY <3>1, <3>2
  <2> HIDE DEF m, f, o, r, k
  <2>4. Put(inode[m][f][o], k) \in Bytes
    <3>1. inode[m][f][o] \in Bytes
      BY <1>0, <2>1
    <3> QED BY <2>1, <3>1, PutBytes
  <2>5. inode' \in [Models -> [Files -> [Commands -> Bytes]]]
    BY <1>0, <2>1, <2>2, <2>4
  <2> QED BY BoundedStep, <2>2, <2>3, <2>5
<1> QED
  BY <1>5, <1>6, <1>7, <1>8, <1>9, <1>10, <1>11, <1>12 DEF Command

-----------------------------------------------------------------------------
(* One lemma per step of an import: the types.                             *)

\* What the proofs of the steps need of an import.
LEMMA ImportFacts ==
  ASSUME TypesInv, NEW i \in Imports
  PROVE  /\ imp[i] \in ImportRecord /\ ImportShape(imp[i])
         /\ imp[i].pc \in Fetching =>
               /\ imp[i].model \in Models /\ Head(imp[i].left) \in Files
               /\ imp[i].left # <<>>
<1>1. imp[i] \in ImportRecord /\ ImportShape(imp[i])
  BY DEF TypesInv, ImportsTyped
<1>2. ASSUME imp[i].pc \in Fetching
      PROVE  imp[i].model \in Models /\ imp[i].left # <<>> /\ imp[i].left \in Lefts
  BY <1>1, <1>2 DEF ImportRecord, ImportShape
<1> QED
  BY <1>1, <1>2, LeftFacts

\* What is listed of a file is a size of it.
LEMMA SizesBounded ==
  ASSUME TypesInv, NEW m \in Models, NEW f \in Files
  PROVE  SizeOf(m, f) \in 0 .. MaxChunks
<1>1. file[m][f] # None => inode[m][f][file[m][f]] \in Bytes
  BY DEF TypesInv, CommandsTyped, CommandsBounded
<1> QED
  BY <1>1, ChunkBounds DEF SizeOf, Bytes

\* An import goes on with a record of its type.
LEMMA ImportMoves ==
  ASSUME TypesInv, NEW i \in Imports, NEW r \in ImportRecord, ImportShape(r),
         imp' = [imp EXCEPT ![i] = r],
         part' \in [Models -> [Files -> Imports \cup {None}]],
         final' \in [Models -> [Files -> Imports \cup {None}]],
         copy' \in [Imports -> [Files -> Bytes]]
  PROVE  ImportsTyped'
<1>1. imp' \in [Imports -> ImportRecord]
  BY DEF TypesInv, ImportsTyped
<1>2. imp'[i] = r /\ \A j \in Imports : j # i => imp'[j] = imp[j]
  BY DEF TypesInv, ImportsTyped
<1>3. ASSUME NEW j \in Imports PROVE ImportShape(imp'[j])
  BY <1>2 DEF TypesInv, ImportsTyped
<1>4. \A j \in Imports : ImportShape(imp[j])'
  BY <1>3 DEF ImportShape, Fetching
<1> QED
  BY <1>1, <1>4 DEF ImportsTyped, Bytes, MaxChunks, ImportRecord

\* An import that gives up.
LEMMA GiveUpTypes ==
  ASSUME TypesInv, NEW i \in Imports, imp[i].pc \in Fetching, GiveUpImport(i),
         copy' \in [Imports -> [Files -> Bytes]]
  PROVE  ImportsTyped'
<1> DEFINE r == [NewImport EXCEPT !.pc = "failed"]
           m == imp[i].model
           f == Head(imp[i].left)
<1>1. r \in ImportRecord /\ ImportShape(r)
  BY ChunkBounds, NothingAhead DEF NewImport, ImportRecord, ImportShape, Fetching
<1>2. /\ imp' = [imp EXCEPT ![i] = r] /\ final' = final
      /\ part' = [part EXCEPT ![m][f] = None]
  BY DEF GiveUpImport
<1>3. m \in Models /\ f \in Files
  BY ImportFacts
<1> HIDE DEF r, m, f
<1>4. part' \in [Models -> [Files -> Imports \cup {None}]]
  BY <1>2, <1>3 DEF TypesInv, ImportsTyped
<1> QED
  BY <1>1, <1>2, <1>4, ImportMoves DEF TypesInv, ImportsTyped

\* An import begins.
LEMMA BeginTypes ==
  ASSUME TypesInv, NEW i \in Imports, NEW m \in Models,
         BeginImport(i, m) \/ BeginStart(i, m)
  PROVE  ImportsTyped'
<1>0. /\ imp[i] \in ImportRecord /\ ImportShape(imp[i]) /\ imp[i].pc = "new"
      /\ UNCHANGED <<part, final, copy>>
  BY ImportFacts DEF BeginImport, BeginStart
<1>1. PICK p \in {"list", "present", "failed"} :
         imp' = [imp EXCEPT ![i] = [@ EXCEPT !.pc = p, !.model = m]]
  <2>1. CASE BeginImport(i, m)
    BY <2>1 DEF BeginImport
  <2>2. CASE BeginStart(i, m)
    <3> DEFINE p == IF Imported(m) THEN "present" ELSE IF Has(m) THEN "list" ELSE "failed"
    <3>1. p \in {"list", "present", "failed"}
      OBVIOUS
    <3>2. [imp[i] EXCEPT !.model = m, !.pc = p] = [imp[i] EXCEPT !.pc = p, !.model = m]
      BY <1>0 DEF ImportRecord
    <3>3. imp' = [imp EXCEPT ![i] = [imp[i] EXCEPT !.model = m, !.pc = p]]
      BY <2>2 DEF BeginStart
    <3> QED BY <3>1, <3>2, <3>3
  <2> QED BY <2>1, <2>2
<1> DEFINE r == [imp[i] EXCEPT !.pc = p, !.model = m]
<1>2. r \in ImportRecord /\ ImportShape(r)
  BY <1>0 DEF ImportRecord, ImportShape, Fetching
<1>3. imp' = [imp EXCEPT ![i] = r]
  BY <1>1
<1> HIDE DEF r
<1> QED
  BY <1>0, <1>2, <1>3, ImportMoves DEF TypesInv, ImportsTyped

\* An import gets the list of the files.
LEMMA GetListTypes ==
  ASSUME TypesInv, NEW i \in Imports, GetList(i)
  PROVE  ImportsTyped'
<1> DEFINE m == imp[i].model
           z == [f \in Files |-> SizeOf(m, f)]
           got == [imp[i] EXCEPT !.pc = "get", !.left = Listed(m), !.size = z]
           none == [imp[i] EXCEPT !.pc = "failed"]
<1>0. /\ imp[i] \in ImportRecord /\ ImportShape(imp[i]) /\ imp[i].pc = "list"
      /\ UNCHANGED <<part, final, copy>>
  BY ImportFacts DEF GetList
<1>1. m \in Models
  BY <1>0 DEF ImportShape
<1>2. Listed(m) \in Lefts /\ (Has(m) => Listed(m) # <<>>)
  BY <1>1, ListedFacts
<1>3. z \in [Files -> 0 .. MaxChunks]
  BY <1>1, SizesBounded
<1>4. Has(m) => got \in ImportRecord /\ ImportShape(got)
  <2> HIDE DEF z
  <2> QED BY <1>0, <1>1, <1>2, <1>3 DEF ImportRecord, ImportShape, Fetching
<1>5. none \in ImportRecord /\ ImportShape(none)
  BY <1>0 DEF ImportRecord, ImportShape, Fetching
<1>6. imp' = [imp EXCEPT ![i] = IF Has(m) THEN got ELSE none]
  BY DEF GetList
<1> HIDE DEF got, none, m
<1>7. CASE Has(m)
  <2>1. imp' = [imp EXCEPT ![i] = got]
    BY <1>6, <1>7
  <2> QED BY <1>0, <1>4, <1>7, <2>1, ImportMoves DEF TypesInv, ImportsTyped
<1>8. CASE ~Has(m)
  <2>1. imp' = [imp EXCEPT ![i] = none]
    BY <1>6, <1>8
  <2> QED BY <1>0, <1>5, <2>1, ImportMoves DEF TypesInv, ImportsTyped
<1> QED
  BY <1>7, <1>8

\* It opens the temporary file of the next one.
LEMMA GetFileTypes ==
  ASSUME TypesInv, NEW i \in Imports, GetFile(i)
  PROVE  ImportsTyped'
<1> DEFINE m == imp[i].model
           f == Head(imp[i].left)
           o == IF part[m][f] = None THEN i ELSE part[m][f]
           r == [imp[i] EXCEPT !.pc = "stream", !.to = o, !.from = file[m][f],
                               !.announced = SizeOf(m, f)]
<1>0. /\ imp[i] \in ImportRecord /\ ImportShape(imp[i])
      /\ imp[i].pc = "get" /\ file[m][f] # None
      /\ m \in Models /\ f \in Files /\ imp[i].left # <<>>
  BY ImportFacts DEF GetFile, Fetching
<1>1. o \in Imports /\ file[m][f] \in Commands
  BY <1>0 DEF TypesInv, ImportsTyped, CommandsTyped
<1>2. SizeOf(m, f) \in 0 .. MaxChunks
  BY <1>0, SizesBounded
<1>3. /\ imp' = [imp EXCEPT ![i] = r] /\ final' = final
      /\ part' = [part EXCEPT ![m][f] = o] /\ copy' = [copy EXCEPT ![o][f] = Empty]
  BY DEF GetFile
<1>4. r \in ImportRecord /\ ImportShape(r)
  <2> DEFINE n == SizeOf(m, f)
             g == file[m][f]
  <2>1. /\ n \in 0 .. MaxChunks /\ g \in Commands /\ o \in Imports
        /\ imp[i].model \in Models /\ imp[i].got = 0
    BY <1>0, <1>1, <1>2 DEF ImportShape
  <2>2. r = [imp[i] EXCEPT !.pc = "stream", !.to = o, !.from = g, !.announced = n]
    OBVIOUS
  <2> HIDE DEF o, n, g, m, f, r
  <2>3. /\ r \in ImportRecord /\ r.pc = "stream" /\ r.to = o /\ r.from = g
        /\ r.announced = n /\ r.got = 0 /\ r.model = imp[i].model /\ r.left = imp[i].left
    BY <1>0, <2>1, <2>2 DEF ImportRecord
  <2>4. 0 <= n
    BY <2>1, ChunkBounds
  <2> QED BY <1>0, <2>1, <2>3, <2>4 DEF ImportShape, Fetching
<1> HIDE DEF r, m, f, o
<1>5. part' \in [Models -> [Files -> Imports \cup {None}]]
  BY <1>0, <1>1, <1>3 DEF TypesInv, ImportsTyped
<1>6. copy' \in [Imports -> [Files -> Bytes]]
  BY <1>0, <1>1, <1>3, EmptyAndWhole DEF TypesInv, ImportsTyped
<1> QED
  BY <1>3, <1>4, <1>5, <1>6, ImportMoves DEF TypesInv, ImportsTyped

\* It finds the next one gone.
LEMMA NotFoundTypes ==
  ASSUME TypesInv, NEW i \in Imports, FileNotFound(i)
  PROVE  ImportsTyped'
<1> DEFINE m == imp[i].model
           f == Head(imp[i].left)
<1>1. imp[i].pc \in Fetching /\ f \in Files /\ GiveUpImport(i)
  BY ImportFacts DEF FileNotFound, Fetching
<1>2. copy' = [o \in Imports |->
                 IF o = part[m][f] THEN [copy[o] EXCEPT ![f] = Empty] ELSE copy[o]]
  BY DEF FileNotFound
<1> HIDE DEF m, f
<1>3. \A o \in Imports : /\ copy[o] \in [Files -> Bytes]
                         /\ [copy[o] EXCEPT ![f] = Empty] \in [Files -> Bytes]
  BY <1>1, EmptyAndWhole DEF TypesInv, ImportsTyped
<1>4. copy' \in [Imports -> [Files -> Bytes]]
  BY <1>2, <1>3
<1> QED
  BY <1>1, <1>4, GiveUpTypes

\* A chunk comes.
LEMMA ChunkTypes ==
  ASSUME TypesInv, NEW i \in Imports, StreamChunk(i)
  PROVE  ImportsTyped'
<1> DEFINE m == imp[i].model
           f == Head(imp[i].left)
           source == inode[m][f][imp[i].from]
           k == imp[i].got + 1
           o == imp[i].to
           r == [imp[i] EXCEPT !.got = k]
<1>0. /\ imp[i] \in ImportRecord /\ ImportShape(imp[i]) /\ imp[i].pc = "stream"
      /\ m \in Models /\ f \in Files /\ imp[i].left # <<>>
      /\ k <= imp[i].announced
  BY ImportFacts DEF StreamChunk, Fetching
<1>1. o \in Imports /\ k \in 1 .. MaxChunks
  BY <1>0, ChunkBounds DEF ImportShape, ImportRecord
<1>2. /\ imp' = [imp EXCEPT ![i].got = k] /\ UNCHANGED <<part, final>>
      /\ copy' = [copy EXCEPT ![o][f] = Copied(@, k, source)]
  BY DEF StreamChunk
<1>3. r \in ImportRecord /\ ImportShape(r)
  <2> HIDE DEF k
  <2> QED BY <1>0, <1>1, ChunkBounds DEF ImportRecord, ImportShape, Fetching
<1>4. imp' = [imp EXCEPT ![i] = r]
  BY <1>2
<1> HIDE DEF r, m, f, o, k, source
<1>5. copy[o][f] \in Bytes
  BY <1>0, <1>1 DEF TypesInv, ImportsTyped
<1>6. Copied(copy[o][f], k, source) \in Bytes
  BY <1>1, <1>5, PutBytes
<1>7. copy' \in [Imports -> [Files -> Bytes]]
  BY <1>0, <1>1, <1>2, <1>6 DEF TypesInv, ImportsTyped
<1> QED
  BY <1>2, <1>3, <1>4, <1>7, ImportMoves DEF TypesInv, ImportsTyped

\* The source opens the file anew.
LEMMA OpenTypes ==
  ASSUME TypesInv, NEW i \in Imports, OpenSource(i)
  PROVE  ImportsTyped'
<1> DEFINE now == file[imp[i].model][Head(imp[i].left)]
           r == [imp[i] EXCEPT !.from = now]
<1>1. /\ imp[i] \in ImportRecord /\ ImportShape(imp[i]) /\ imp[i].pc = "stream"
      /\ imp[i].model \in Models /\ Head(imp[i].left) \in Files
  BY ImportFacts DEF OpenSource, Opens, Fetching
<1>2. now \in Commands
  BY <1>1 DEF OpenSource, TypesInv, CommandsTyped
<1>3. r \in ImportRecord /\ ImportShape(r)
  <2> HIDE DEF now
  <2> QED BY <1>1, <1>2 DEF ImportRecord, ImportShape, Fetching
<1>4. imp' = [imp EXCEPT ![i] = r] /\ UNCHANGED <<part, final, copy>>
  BY DEF OpenSource
<1> HIDE DEF r
<1> QED
  BY <1>3, <1>4, ImportMoves DEF TypesInv, ImportsTyped

\* A file has come and is renamed.
LEMMA KeepTypes ==
  ASSUME TypesInv, NEW i \in Imports, KeepFile(i)
  PROVE  ImportsTyped'
<1> DEFINE m == imp[i].model
           f == Head(imp[i].left)
           p == IF Len(imp[i].left) = 1 THEN "ok" ELSE "get"
           r == [imp[i] EXCEPT !.pc = p, !.left = Tail(imp[i].left), !.to = None,
                               !.from = None, !.announced = 0, !.got = 0]
<1>0. /\ imp[i] \in ImportRecord /\ ImportShape(imp[i]) /\ imp[i].pc = "stream"
      /\ m \in Models /\ f \in Files /\ imp[i].left # <<>> /\ imp[i].left \in Lefts
  BY ImportFacts DEF KeepFile, Fetching, ImportRecord
<1>1. /\ Tail(imp[i].left) \in Lefts
      /\ p = "ok" => Tail(imp[i].left) = <<>>
      /\ p = "get" => Tail(imp[i].left) # <<>>
      /\ p \in {"ok", "get"}
  BY <1>0, LeftFacts
<1>2. copy' = copy /\ Rename(m, f)
  BY DEF KeepFile
<1>3. imp' = [imp EXCEPT ![i] = r]
  BY DEF KeepFile, NextFile
<1>4. r \in ImportRecord /\ ImportShape(r)
  <2> DEFINE t == Tail(imp[i].left)
  <2>0. imp[i] \in ImportRecord
    BY <1>0
  <2>1. t \in Lefts /\ imp[i].model \in Models /\ p \in {"ok", "get"}
    BY <1>0, <1>1
  <2>2. r = [imp[i] EXCEPT !.pc = p, !.left = t, !.to = None, !.from = None,
                           !.announced = 0, !.got = 0]
    OBVIOUS
  <2>3. (p = "ok" => t = <<>>) /\ (p = "get" => t # <<>>)
    BY <1>1
  <2> HIDE DEF t, p, r, m, f
  <2>4. /\ r \in ImportRecord /\ r.pc = p /\ r.announced = 0 /\ r.got = 0
        /\ r.model = imp[i].model /\ r.left = t
    <3>1. /\ imp[i].model \in Models \cup {None} /\ imp[i].size \in [Files -> 0 .. MaxChunks]
          /\ 0 \in 0 .. MaxChunks
      BY <2>0, ChunkBounds DEF ImportRecord
    <3>2. r = [pc |-> p, model |-> imp[i].model, left |-> t, size |-> imp[i].size,
               to |-> None, from |-> None, announced |-> 0, got |-> 0]
      BY <2>0, <2>2 DEF ImportRecord
    <3> QED BY <2>1, <3>1, <3>2 DEF ImportRecord
  <2> QED BY <1>1, <2>1, <2>3, <2>4 DEF ImportShape, Fetching
<1> HIDE DEF r, m, f, p
<1>5. /\ part' \in [Models -> [Files -> Imports \cup {None}]]
      /\ final' \in [Models -> [Files -> Imports \cup {None}]]
  <2>1. CASE part[m][f] = None
    BY <1>2, <2>1 DEF Rename, TypesInv, ImportsTyped
  <2>2. CASE part[m][f] # None
    <3>1. /\ final' = [final EXCEPT ![m][f] = part[m][f]]
          /\ part' = [part EXCEPT ![m][f] = None]
      BY <1>2, <2>2 DEF Rename
    <3>2. part[m][f] \in Imports
      BY <1>0, <2>2 DEF TypesInv, ImportsTyped
    <3> QED BY <1>0, <3>1, <3>2 DEF TypesInv, ImportsTyped
  <2> QED BY <2>1, <2>2
<1> QED
  BY <1>2, <1>3, <1>4, <1>5, ImportMoves DEF TypesInv, ImportsTyped

\* Every step keeps the types.
LEMMA TypesStep == TypesInv /\ StoreInv /\ [Next]_vars => TypesInv'
<1> SUFFICES ASSUME TypesInv, StoreInv, [Next]_vars PROVE TypesInv'
  OBVIOUS
<1>0. CommandsTyped'
  BY StoreStep DEF StoreInv
<1>1. ASSUME NEW c \in Commands, Command(c) PROVE TypesInv'
  <2>1. /\ CommandsBounded' /\ faults' \in 0 .. MaxFaults
        /\ UNCHANGED <<part, final, copy, imp>>
    BY <1>1, CommandBounds DEF importVars
  <2>2. ImportsTyped'
    BY <2>1 DEF TypesInv, ImportsTyped
  <2> QED BY <1>0, <2>1, <2>2 DEF TypesInv
<1>2. ASSUME NEW i \in Imports, Import(i) PROVE TypesInv'
  <2>1. /\ UNCHANGED <<inode, cmd>>
        /\ faults' = faults \/ (faults < MaxFaults /\ faults' = faults + 1)
    BY <1>2 DEF Import, Transfer, BeginImport, BeginStart, GetList, GetFile, FileNotFound,
                OpenSource, SourceGone, StreamChunk, StreamStalls, StreamBreaks, WrongSize,
              KeepFile, GiveUpImport,
                commandVars
  <2>2. faults' \in 0 .. MaxFaults
    BY <2>1, StoreAssumption DEF TypesInv
  <2>3. CommandsBounded'
    BY <2>1 DEF TypesInv, CommandsBounded
  <2>4. ImportsTyped'
    <3>1. CASE SourceGone(i) \/ StreamStalls(i) \/ StreamBreaks(i) \/ WrongSize(i)
      <4>1. imp[i].pc \in Fetching /\ GiveUpImport(i) /\ copy' = copy
        BY <3>1 DEF SourceGone, Opens, StreamStalls, StreamBreaks, WrongSize, Fetching
      <4> QED BY <4>1, GiveUpTypes DEF TypesInv, ImportsTyped
    <3> QED BY <1>2, <3>1, BeginTypes, GetListTypes, GetFileTypes, NotFoundTypes, OpenTypes,
               ChunkTypes, KeepTypes DEF Import, Transfer
  <2> QED BY <1>0, <2>2, <2>3, <2>4 DEF TypesInv
<1>3. CASE UNCHANGED vars
  <2>1. UNCHANGED <<inode, cmd, part, final, copy, imp, faults>>
    BY <1>3 DEF vars, commandVars, importVars
  <2> QED BY <1>0, <2>1 DEF TypesInv, CommandsBounded, ImportsTyped
<1> QED
  BY <1>1, <1>2, <1>3 DEF Next

\* Types: every command, inode, import and file name of the two nodes is of the
\* kind the code gives it; no file is written, and no import gets, beyond the
\* largest size, and no import gets more than was announced to it.
THEOREM StoreTypes == Spec => []TypeOK
<1>1. TypesInv => TypeOK
  <2> SUFFICES ASSUME TypesInv PROVE TypeOK
    OBVIOUS
  <2>1. ASSUME NEW c \in Commands
        PROVE  /\ cmd[c].pc \in AtRest \cup AtWork /\ cmd[c].model \in Models \cup {None}
               /\ cmd[c].out \in Commands \cup {None}
               /\ cmd[c].pos \in 0 .. MaxChunks /\ cmd[c].entries \subseteq Models
    BY DEF TypesInv, CommandsTyped, CommandsBounded, CommandRecord
  <2>2. ASSUME NEW i \in Imports
        PROVE  /\ imp[i].pc \in {"new", "list", "get", "stream", "present", "ok", "failed",
                                 "unused"}
               /\ imp[i].model \in Models \cup {None}
               /\ imp[i].size \in [Files -> 0 .. MaxChunks]
               /\ imp[i].got \in 0 .. imp[i].announced
    <3>1. imp[i] \in ImportRecord /\ ImportShape(imp[i])
      BY ImportFacts
    <3>2. imp[i].got \in Nat /\ imp[i].announced \in Nat /\ imp[i].got <= imp[i].announced
      BY <3>1, ChunkBounds DEF ImportRecord, ImportShape
    <3> QED BY <3>1, <3>2 DEF ImportRecord
  <2> QED BY <2>1, <2>2
          DEF TypeOK, TypesInv, CommandsTyped, CommandsBounded, ImportsTyped, AtRest, AtWork
<1> QED
  BY <1>1, InitStore, InitTypes, StoreStep, TypesStep, PTL DEF Spec

-----------------------------------------------------------------------------
(* What the commands do to files that are there.                           *)

\* A file of weights has all that was written of it, and the other files are
\* fetched whole; that is so as long as no file is truncated or deleted.
Prefixes ==
    \A m \in Models, f \in Weights : file[m][f] # None =>
        LET b == inode[m][f][file[m][f]] IN b.good = 1 .. b.len

FetchedWhole == \A m \in Models : file[m]["tok"] # None => IsWhole(m, "tok")

SourceInv == ~mutated => Prefixes /\ FetchedWhole

\* A command whose step truncates and deletes nothing fetches a file, creates
\* one, writes the next chunk of one, or leaves them all.
LEMMA CommandWrites ==
  ASSUME StoreInv, NEW c \in Commands, Command(c), ~mutated'
  PROVE  /\ ~mutated
         /\ \/ UNCHANGED <<file, inode>>
            \/ \E m \in Models :
                  /\ file' = [file EXCEPT ![m]["tok"] = c]
                  /\ inode' = [inode EXCEPT ![m]["tok"][c] = Whole("tok")]
            \/ \E m \in Models, f \in Weights :
                  /\ file[m][f] = None /\ file' = [file EXCEPT ![m][f] = c]
                  /\ inode' = [inode EXCEPT ![m][f][c] = Empty]
            \/ \E m \in Models, f \in Weights, k \in Nat :
                  /\ k < Chunks[f] /\ file[m][f] = c /\ file' = file
                  /\ inode[m][f][c] = [len |-> k, good |-> 1 .. k]
                  /\ inode' = [inode EXCEPT ![m][f][c] = [len |-> k + 1, good |-> 1 .. k + 1]]
<1> USE FileNames
<1>1. ~mutated
  BY DEF StoreInv, CommandsTyped, Command, BeginPull, PullFails, WeightsFail, OpenOutput,
         WriteOutput, OutputFails, BeginRm, UnlinkWeights, UnlinkExtra, Unlink, ReadRegistry,
         WriteRegistry, Killed
<1>2. /\ cmd[c] \in CommandRecord /\ HasConverted(c)
      /\ cmd[c].pc \in AtWork => cmd[c].model \in Models
      /\ cmd[c].out # None => cmd[c].pc \in Weights /\ cmd[c].model \in Models
      /\ file \in [Models -> [Files -> Commands \cup {None}]]
      /\ inode \in [Models -> [Files -> [Commands -> [len : Nat, good : SUBSET Nat]]]]
  BY <1>1, StoreFacts DEF StoreInv, CommandsTyped
<1> DEFINE n == cmd[c].model
           g == cmd[c].pc
<1>3. CASE \/ PullFails(c) \/ WeightsFail(c) \/ OutputFails(c) \/ ReadRegistry(c)
           \/ WriteRegistry(c) \/ Killed(c) \/ (\E m \in Models : BeginRm(c, m))
  <2>1. UNCHANGED <<file, inode>>
    BY <1>3 DEF PullFails, WeightsFail, OutputFails, ReadRegistry, WriteRegistry, Killed, BeginRm
  <2> QED BY <1>1, <2>1
<1>4. CASE UnlinkWeights(c) \/ UnlinkExtra(c)
  <2>1. PICK f \in Weights : /\ file' = [file EXCEPT ![n][f] = None]
                             /\ mutated' = (mutated \/ file[n][f] # None)
                             /\ inode' = inode
    BY <1>4 DEF UnlinkWeights, UnlinkExtra, Unlink, Weights
  <2>2. n \in Models
    BY <1>2, <1>4 DEF UnlinkWeights, UnlinkExtra, AtWork
  <2>3. file[n][f] = None
    BY <1>1, <2>1
  <2> HIDE DEF n
  <2>4. file' = file
    BY <1>2, <2>1, <2>2, <2>3 DEF Weights
  <2> QED BY <1>1, <2>1, <2>4
<1>5. ASSUME NEW m \in Models, BeginPull(c, m)
      PROVE  /\ file' = [file EXCEPT ![m]["tok"] = c]
             /\ inode' = [inode EXCEPT ![m]["tok"][c] = Whole("tok")]
  BY <1>5 DEF BeginPull, Fetch
<1>6. CASE OpenOutput(c)
  <2>1. n \in Models /\ g \in Weights
    BY <1>2, <1>6 DEF OpenOutput, AtWork, Weights
  <2>2. mutated' = (mutated \/ file[n][g] # None)
    BY <1>6 DEF OpenOutput
  <2>3. file[n][g] = None
    BY <1>1, <2>2
  <2>4. /\ file' = [file EXCEPT ![n][g] = c]
        /\ inode' = [inode EXCEPT ![n][g][c] = Empty]
    BY <1>6, <2>3 DEF OpenOutput
  <2> HIDE DEF n, g
  <2> QED BY <1>1, <2>1, <2>3, <2>4
<1>7. CASE WriteOutput(c)
  <2> DEFINE k == cmd[c].pos
  <2>1. n \in Models /\ g \in Weights /\ k \in Nat
    BY <1>2, <1>7 DEF WriteOutput, CommandRecord
  <2>2. WritesOwn(c) /\ cmd[c].out = c
    BY <1>2, <1>7 DEF WriteOutput, HasConverted, RestsOn, WritesOwn
  <2>3. /\ k < Chunks[g] /\ file[n][g] = c
        /\ inode[n][g][c] = [len |-> k, good |-> 1 .. k]
    BY <2>2 DEF WritesOwn
  <2>4. /\ file' = file
        /\ inode' = [inode EXCEPT ![n][g][c] = Put(@, k + 1)]
    BY <1>7, <2>2 DEF WriteOutput
  <2> HIDE DEF n, g, k
  <2>5. Put(inode[n][g][c], k + 1) = [len |-> k + 1, good |-> 1 .. k + 1]
    <3>1. k + 1 > k /\ (1 .. k) \cup {k + 1} = 1 .. k + 1
      BY <2>1
    <3> DEFINE b == inode[n][g][c]
    <3>2. b.len = k /\ b.good = 1 .. k
      BY <2>3
    <3> HIDE DEF b
    <3>3. Put(b, k + 1) = [len |-> k + 1, good |-> (1 .. k) \cup {k + 1}]
      BY <3>1, <3>2 DEF Put
    <3> QED BY <3>1, <3>3 DEF b
  <2>6. inode' = [inode EXCEPT ![n][g][c] = [len |-> k + 1, good |-> 1 .. k + 1]]
    BY <2>4, <2>5
  <2>7. \E m \in Models, f \in Weights, j \in Nat :
           /\ j < Chunks[f] /\ file[m][f] = c /\ file' = file
           /\ inode[m][f][c] = [len |-> j, good |-> 1 .. j]
           /\ inode' = [inode EXCEPT ![m][f][c] = [len |-> j + 1, good |-> 1 .. j + 1]]
    <3> USE <2>1
    <3> WITNESS n \in Models, g \in Weights, k \in Nat
    <3> QED BY <2>3, <2>4, <2>6
  <2> QED BY <1>1, <2>7
<1> QED
  BY <1>1, <1>3, <1>4, <1>5, <1>6, <1>7 DEF Command

\* So what is whole stays whole, under the same name, and for those who have
\* it open.
LEMMA CommandKeeps ==
  ASSUME StoreInv, SourceInv, NEW c \in Commands, Command(c), ~mutated'
  PROVE  /\ ~mutated
         /\ \A m \in Models :
               /\ \A f \in Files : IsWhole(m, f) => IsWhole(m, f)'
               /\ \A f \in Weights : IsWhole(m, f) => file'[m][f] = file[m][f]
               /\ \A d \in Commands : inode[m]["tok"][d] = Whole("tok")
                                         => inode'[m]["tok"][d] = Whole("tok")
         /\ SourceInv'
<1> USE FileNames
<1>0. /\ file \in [Models -> [Files -> Commands \cup {None}]]
      /\ inode \in [Models -> [Files -> [Commands -> [len : Nat, good : SUBSET Nat]]]]
      /\ None \notin Commands /\ c # None
      /\ \A f \in Files : Chunks[f] \in Nat
  BY StoreAssumption DEF StoreInv, CommandsTyped
<1>a. \A f \in Files : Whole(f)' = Whole(f) /\ Whole(f).len = Chunks[f]
  BY DEF Whole
<1>1. ~mutated /\ Prefixes /\ FetchedWhole
  BY CommandWrites DEF SourceInv
<1>2. CASE UNCHANGED <<file, inode>>
  BY <1>1, <1>2 DEF SourceInv, Prefixes, FetchedWhole, IsWhole, Whole, Weights
<1>3. ASSUME NEW m \in Models, file' = [file EXCEPT ![m]["tok"] = c],
             inode' = [inode EXCEPT ![m]["tok"][c] = Whole("tok")]
      PROVE  /\ \A n \in Models :
                  /\ \A f \in Files : IsWhole(n, f) => IsWhole(n, f)'
                  /\ \A f \in Weights : IsWhole(n, f) => file'[n][f] = file[n][f]
                  /\ \A d \in Commands : inode[n]["tok"][d] = Whole("tok")
                                            => inode'[n]["tok"][d] = Whole("tok")
             /\ SourceInv'
  <2>1. \A n \in Models, f \in Weights :
           file'[n][f] = file[n][f] /\ inode'[n][f] = inode[n][f]
    BY <1>0, <1>3 DEF Weights
  <2>2. \A n \in Models : /\ file'[n]["tok"] = IF n = m THEN c ELSE file[n]["tok"]
                          /\ \A d \in Commands : inode'[n]["tok"][d] =
                                IF n = m /\ d = c THEN Whole("tok") ELSE inode[n]["tok"][d]
    BY <1>0, <1>3
  <2>3. \A n \in Models, f \in Weights : IsWhole(n, f) => IsWhole(n, f)'
    BY <2>1 DEF IsWhole, Whole
  <2>4. ASSUME NEW n \in Models, n = m \/ IsWhole(n, "tok") PROVE IsWhole(n, "tok")'
    <3>1. CASE n = m
      BY <1>0, <2>2, <3>1 DEF IsWhole, Whole
    <3>2. CASE n # m
      <4>1. file'[n]["tok"] = file[n]["tok"] /\ file[n]["tok"] \in Commands
        BY <1>0, <2>2, <2>4, <3>2 DEF IsWhole
      <4> QED BY <2>2, <2>4, <3>2, <4>1 DEF IsWhole, Whole
    <3> QED BY <3>1, <3>2
  <2>5. Prefixes'
    BY <1>1, <2>1 DEF Prefixes
  <2>6. FetchedWhole'
    BY <1>1, <2>2, <2>4 DEF FetchedWhole
  <2> QED BY <2>1, <2>2, <2>3, <2>4, <2>5, <2>6 DEF SourceInv, Weights
<1>4. ASSUME NEW m \in Models, NEW g \in Weights, NEW b \in [len : Nat, good : SUBSET Nat],
             b.good = 1 .. b.len, file' = [file EXCEPT ![m][g] = c], ~IsWhole(m, g),
             inode' = [inode EXCEPT ![m][g][c] = b]
      PROVE  /\ \A n \in Models :
                  /\ \A f \in Files : IsWhole(n, f) => IsWhole(n, f)'
                  /\ \A f \in Weights : IsWhole(n, f) => file'[n][f] = file[n][f]
                  /\ \A d \in Commands : inode[n]["tok"][d] = Whole("tok")
                                            => inode'[n]["tok"][d] = Whole("tok")
             /\ SourceInv'
  <2>1. \A n \in Models, f \in Files : n # m \/ f # g =>
           file'[n][f] = file[n][f] /\ inode'[n][f] = inode[n][f]
    BY <1>0, <1>4
  <2>2. file'[m][g] = c /\ inode'[m][g][c] = b
    BY <1>0, <1>4 DEF Weights
  <2>3. \A n \in Models, f \in Files : IsWhole(n, f) =>
           (n # m \/ f # g) /\ IsWhole(n, f)'
    BY <1>4, <2>1 DEF IsWhole, Whole
  <2>4. Prefixes'
    BY <1>1, <1>4, <2>1, <2>2 DEF Prefixes, Weights
  <2>5. FetchedWhole'
    BY <1>1, <2>1, <2>3 DEF FetchedWhole, Weights
  <2> QED BY <2>1, <2>3, <2>4, <2>5 DEF SourceInv, Weights
<1>5. ASSUME NEW m \in Models, NEW f \in Weights, file[m][f] = None,
             file' = [file EXCEPT ![m][f] = c], inode' = [inode EXCEPT ![m][f][c] = Empty]
      PROVE  /\ Empty \in [len : Nat, good : SUBSET Nat] /\ Empty.good = 1 .. Empty.len
             /\ ~IsWhole(m, f)
  <2>1. 1 .. 0 = {}
    OBVIOUS
  <2> QED BY <1>5, <2>1 DEF Empty, IsWhole
<1>6. ASSUME NEW m \in Models, NEW f \in Weights, NEW k \in Nat,
             k < Chunks[f], file[m][f] = c, file' = file,
             inode[m][f][c] = [len |-> k, good |-> 1 .. k]
      PROVE  /\ ~IsWhole(m, f) /\ file' = [file EXCEPT ![m][f] = c]
             /\ [len |-> k + 1, good |-> 1 .. k + 1] \in [len : Nat, good : SUBSET Nat]
  <2>1. inode[m][f][c].len # Chunks[f]
    BY <1>0, <1>6 DEF Weights
  <2>2. ~IsWhole(m, f)
    BY <1>6, <2>1 DEF IsWhole, Whole
  <2> QED BY <1>0, <1>6, <2>2 DEF Weights
<1>7. \/ UNCHANGED <<file, inode>>
      \/ \E m \in Models :
            /\ file' = [file EXCEPT ![m]["tok"] = c]
            /\ inode' = [inode EXCEPT ![m]["tok"][c] = Whole("tok")]
      \/ \E m \in Models, f \in Weights, b \in [len : Nat, good : SUBSET Nat] :
            /\ b.good = 1 .. b.len /\ ~IsWhole(m, f)
            /\ file' = [file EXCEPT ![m][f] = c]
            /\ inode' = [inode EXCEPT ![m][f][c] = b]
  <2>1. ASSUME NEW m \in Models, NEW f \in Weights, NEW k \in Nat,
               k < Chunks[f], file[m][f] = c, file' = file,
               inode[m][f][c] = [len |-> k, good |-> 1 .. k],
               inode' = [inode EXCEPT ![m][f][c] = [len |-> k + 1, good |-> 1 .. k + 1]]
        PROVE  \E b \in [len : Nat, good : SUBSET Nat] :
                  /\ b.good = 1 .. b.len /\ ~IsWhole(m, f)
                  /\ file' = [file EXCEPT ![m][f] = c]
                  /\ inode' = [inode EXCEPT ![m][f][c] = b]
    <3> DEFINE b == [len |-> k + 1, good |-> 1 .. k + 1]
    <3>1. /\ b \in [len : Nat, good : SUBSET Nat] /\ ~IsWhole(m, f)
          /\ file' = [file EXCEPT ![m][f] = c]
      BY <1>6, <2>1
    <3>2. b.good = 1 .. b.len /\ inode' = [inode EXCEPT ![m][f][c] = b]
      BY <2>1
    <3> HIDE DEF b
    <3> QED BY <3>1, <3>2
  <2>2. ASSUME NEW m \in Models, NEW f \in Weights, file[m][f] = None,
               file' = [file EXCEPT ![m][f] = c], inode' = [inode EXCEPT ![m][f][c] = Empty]
        PROVE  \E b \in [len : Nat, good : SUBSET Nat] :
                  /\ b.good = 1 .. b.len /\ ~IsWhole(m, f)
                  /\ file' = [file EXCEPT ![m][f] = c]
                  /\ inode' = [inode EXCEPT ![m][f][c] = b]
    BY <1>5, <2>2
  <2>3. CASE \E m \in Models, f \in Weights :
                /\ file[m][f] = None /\ file' = [file EXCEPT ![m][f] = c]
                /\ inode' = [inode EXCEPT ![m][f][c] = Empty]
    <3>1. PICK m \in Models, f \in Weights :
             /\ file[m][f] = None /\ file' = [file EXCEPT ![m][f] = c]
             /\ inode' = [inode EXCEPT ![m][f][c] = Empty]
      BY <2>3
    <3>2. \E b \in [len : Nat, good : SUBSET Nat] :
                  /\ b.good = 1 .. b.len /\ ~IsWhole(m, f)
                  /\ file' = [file EXCEPT ![m][f] = c]
                  /\ inode' = [inode EXCEPT ![m][f][c] = b]
      BY <2>2, <3>1
    <3> QED BY <3>2
  <2>4. CASE \E m \in Models, f \in Weights, k \in Nat :
                /\ k < Chunks[f] /\ file[m][f] = c /\ file' = file
                /\ inode[m][f][c] = [len |-> k, good |-> 1 .. k]
                /\ inode' = [inode EXCEPT ![m][f][c] = [len |-> k + 1, good |-> 1 .. k + 1]]
    <3>1. PICK m \in Models, f \in Weights, k \in Nat :
             /\ k < Chunks[f] /\ file[m][f] = c /\ file' = file
             /\ inode[m][f][c] = [len |-> k, good |-> 1 .. k]
             /\ inode' = [inode EXCEPT ![m][f][c] = [len |-> k + 1, good |-> 1 .. k + 1]]
      BY <2>4
    <3>2. \E b \in [len : Nat, good : SUBSET Nat] :
                  /\ b.good = 1 .. b.len /\ ~IsWhole(m, f)
                  /\ file' = [file EXCEPT ![m][f] = c]
                  /\ inode' = [inode EXCEPT ![m][f][c] = b]
      BY <2>1, <3>1
    <3> QED BY <3>2
  <2> QED BY <2>3, <2>4, CommandWrites
<1> QED
  BY <1>1, <1>2, <1>3, <1>4, <1>7

\* The files of the converting node are written from the first chunk to the last.
LEMMA SourceStep == StoreInv /\ SourceInv /\ [Next]_vars => SourceInv'
<1> SUFFICES ASSUME StoreInv, SourceInv, [Next]_vars, ~mutated' PROVE SourceInv'
  BY DEF SourceInv
<1>1. ASSUME NEW c \in Commands, Command(c) PROVE SourceInv'
  BY <1>1, CommandKeeps
<1>2. CASE UNCHANGED commandVars
  BY <1>2 DEF commandVars, SourceInv, Prefixes, FetchedWhole, IsWhole, Whole
<1>3. ASSUME NEW i \in Imports, Import(i) PROVE UNCHANGED commandVars
  BY <1>3 DEF Import, Transfer, BeginImport, BeginStart, GetList, GetFile, FileNotFound,
              OpenSource, SourceGone, StreamChunk, StreamStalls, StreamBreaks, WrongSize,
              KeepFile, GiveUpImport
<1> QED
  BY <1>1, <1>2, <1>3 DEF Next, vars

-----------------------------------------------------------------------------
(* What imports leave: a file under its name for each one that is past.    *)

Quiet == ~mutated /\ NoImportFailed

\* An import that is past a file has left one under its name, and the temporary
\* file an import streams to is there, or was renamed for it by another one.
Past(i) ==
    LET m == imp[i].model IN
    /\ imp[i].pc \in Fetching \cup {"ok"} =>
          \A f \in Files : f \in Weights \/ imp[i].size[f] > 0 =>
             f \in Ahead(imp[i].left) \/ final[m][f] # None
    /\ imp[i].pc = "stream" =>
          LET f == Head(imp[i].left) IN part[m][f] # None \/ final[m][f] # None

PastInv ==
    Quiet => /\ \A i \in Imports : Past(i)
             /\ \A m \in Models : Imported(m) => final[m]["dec"] # None

\* A step of an import after which none has failed: it has not, and the others
\* are where they were.
LEMMA QuietBefore ==
  ASSUME TypesInv, NEW i \in Imports, NEW r, imp' = [imp EXCEPT ![i] = r],
         mutated' = mutated, imp[i].pc # "failed", Quiet'
  PROVE  Quiet /\ r.pc # "failed" /\ imp'[i] = r
         /\ \A j \in Imports : j # i => imp'[j] = imp[j]
<1>1. imp'[i] = r /\ \A j \in Imports : j # i => imp'[j] = imp[j]
  BY DEF TypesInv, ImportsTyped
<1> QED
  BY <1>1 DEF Quiet, NoImportFailed

\* A step of an import that leaves every file it finds, if only under its final
\* name, keeps what the others are past.
LEMMA OthersPast ==
  ASSUME TypesInv, PastInv, NEW i \in Imports, NEW r, imp' = [imp EXCEPT ![i] = r],
         mutated' = mutated, imp[i].pc # "failed",
         Quiet' => /\ \A m \in Models, f \in Files :
                        /\ final[m][f] # None => final'[m][f] # None
                        /\ part[m][f] # None => part'[m][f] # None \/ final'[m][f] # None
                   /\ Past(i)'
                   /\ \A m \in Models : Imported(m)' => Imported(m) \/ final'[m]["dec"] # None
  PROVE  PastInv'
<1> SUFFICES ASSUME Quiet' PROVE /\ \A j \in Imports : Past(j)'
                                 /\ \A m \in Models : Imported(m)' => final'[m]["dec"] # None
  BY DEF PastInv
<1>1. Quiet /\ \A j \in Imports : j # i => imp'[j] = imp[j]
  BY QuietBefore
<1>2. ASSUME NEW j \in Imports, j # i PROVE Past(j)'
  <2>1. imp'[j] = imp[j] /\ Past(j)
    BY <1>1, <1>2 DEF PastInv
  <2>2. imp[j].pc \in Fetching \cup {"ok"} => imp[j].model \in Models
    BY DEF TypesInv, ImportsTyped, ImportShape
  <2>3. imp[j].pc = "stream" => Head(imp[j].left) \in Files
    BY ImportFacts DEF Fetching
  <2> DEFINE m == imp[j].model
             f == Head(imp[j].left)
             a == Ahead(imp[j].left)
  <2>4. m' = m /\ f' = f /\ a' = a /\ imp'[j].pc = imp[j].pc /\ imp'[j].size = imp[j].size
    BY <2>1 DEF Ahead
  <2>5. /\ imp[j].pc \in Fetching \cup {"ok"} =>
             \A g \in Files : g \in Weights \/ imp[j].size[g] > 0 =>
                g \in a \/ final'[m][g] # None
        /\ imp[j].pc = "stream" => part'[m][f] # None \/ final'[m][f] # None
    BY <2>1, <2>2, <2>3 DEF Past, Fetching
  <2> QED BY <2>4, <2>5 DEF Past, Fetching
<1>3. ASSUME NEW m \in Models, Imported(m)' PROVE final'[m]["dec"] # None
  <2>1. Imported(m) => final[m]["dec"] # None
    BY <1>1 DEF PastInv
  <2> QED BY <1>3, <2>1, FileNames
<1> QED
  BY <1>2, <1>3

\* An import that fails: nothing is said any more.
LEMMA FailedPast ==
  ASSUME TypesInv, NEW i \in Imports, imp'[i].pc = "failed"
  PROVE  PastInv'
BY DEF PastInv, Quiet, NoImportFailed

\* An import that begins, has its source opened anew, or has another chunk.
LEMMA LightPast ==
  ASSUME TypesInv, PastInv, NEW i \in Imports,
         \/ \E m \in Models : BeginImport(i, m) \/ BeginStart(i, m)
         \/ OpenSource(i) \/ StreamChunk(i)
  PROVE  PastInv'
<1>1. ASSUME NEW m \in Models, BeginImport(i, m) \/ BeginStart(i, m) PROVE PastInv'
  <2>0. imp[i] \in ImportRecord
    BY ImportFacts
  <2>1. PICK r : /\ imp' = [imp EXCEPT ![i] = r] /\ r.pc \in {"list", "present", "failed"}
                 /\ imp[i].pc = "new" /\ UNCHANGED <<part, final, mutated>>
    <3>1. CASE BeginImport(i, m)
      BY <2>0, <3>1 DEF BeginImport, ImportRecord, commandVars
    <3>2. CASE BeginStart(i, m)
      <4> DEFINE p == IF Imported(m) THEN "present" ELSE IF Has(m) THEN "list" ELSE "failed"
                 r == [imp[i] EXCEPT !.model = m, !.pc = p]
      <4>1. imp' = [imp EXCEPT ![i] = r]
        BY <3>2 DEF BeginStart
      <4>2. r.pc \in {"list", "present", "failed"}
        BY <2>0 DEF ImportRecord
      <4>3. imp[i].pc = "new" /\ UNCHANGED <<part, final, mutated>>
        BY <3>2 DEF BeginStart, commandVars
      <4> HIDE DEF r
      <4> QED BY <4>1, <4>2, <4>3
    <3> QED BY <1>1, <3>1, <3>2
  <2>2. imp'[i] = r
    BY <2>1 DEF TypesInv, ImportsTyped
  <2>3. Past(i)'
    BY <2>1, <2>2 DEF Past, Fetching
  <2> QED BY <2>1, <2>3, OthersPast DEF Imported
<1>2. CASE OpenSource(i) \/ StreamChunk(i)
  <2>1. PICK r : /\ imp' = [imp EXCEPT ![i] = r] /\ imp[i].pc = "stream"
                 /\ r.pc = imp[i].pc /\ r.model = imp[i].model /\ r.left = imp[i].left
                 /\ r.size = imp[i].size
                 /\ UNCHANGED <<part, final, mutated>>
    <3>0. imp[i] \in ImportRecord
      BY ImportFacts
    <3>1. CASE OpenSource(i)
      <4> DEFINE now == file[imp[i].model][Head(imp[i].left)]
                 r == [imp[i] EXCEPT !.from = now]
      <4>1. /\ imp' = [imp EXCEPT ![i] = r] /\ imp[i].pc = "stream"
            /\ UNCHANGED <<part, final, mutated>>
        BY <3>1 DEF OpenSource, Opens, commandVars
      <4>2. /\ r.pc = imp[i].pc /\ r.model = imp[i].model /\ r.left = imp[i].left
            /\ r.size = imp[i].size
        BY <3>0 DEF ImportRecord
      <4> HIDE DEF r
      <4> QED BY <4>1, <4>2
    <3>2. CASE StreamChunk(i)
      <4> DEFINE r == [imp[i] EXCEPT !.got = imp[i].got + 1]
      <4>1. /\ imp' = [imp EXCEPT ![i] = r] /\ imp[i].pc = "stream"
            /\ UNCHANGED <<part, final, mutated>>
        BY <3>2 DEF StreamChunk, commandVars
      <4>2. /\ r.pc = imp[i].pc /\ r.model = imp[i].model /\ r.left = imp[i].left
            /\ r.size = imp[i].size
        BY <3>0 DEF ImportRecord
      <4> HIDE DEF r
      <4> QED BY <4>1, <4>2
    <3> QED BY <1>2, <3>1, <3>2
  <2>4. imp'[i] = r
    BY <2>1 DEF TypesInv, ImportsTyped
  <2>5. ASSUME Quiet' PROVE Past(i)'
    <3>1. Past(i)
      BY <2>1, <2>5, QuietBefore DEF PastInv
    <3> QED BY <2>1, <2>4, <3>1 DEF Past, Ahead
  <2> QED BY <2>1, <2>5, OthersPast DEF Imported
<1> QED
  BY <1>1, <1>2

\* The list has every file that is there, and with model_extra.bin the weights.
LEMMA GetListPast ==
  ASSUME TypesInv, StoreInv, PastInv, NEW i \in Imports, GetList(i)
  PROVE  PastInv'
<1> DEFINE m == imp[i].model
           z == [f \in Files |-> SizeOf(m, f)]
           r == [imp[i] EXCEPT !.pc = "get", !.left = Listed(m), !.size = z]
<1>1. /\ imp[i] \in ImportRecord /\ imp[i].pc = "list" /\ m \in Models
      /\ UNCHANGED <<part, final, mutated>>
  BY ImportFacts DEF GetList, ImportShape, commandVars
<1>2. CASE ~Has(m)
  <2>1. imp' = [imp EXCEPT ![i] = [imp[i] EXCEPT !.pc = "failed"]]
    BY <1>2 DEF GetList
  <2>2. imp'[i].pc = "failed"
    BY <1>1, <2>1 DEF TypesInv, ImportsTyped, ImportRecord
  <2> QED BY <2>2, FailedPast
<1>3. CASE Has(m)
  <2>1. imp' = [imp EXCEPT ![i] = r]
    BY <1>3 DEF GetList
  <2>2. r.pc = "get" /\ r.left = Listed(m) /\ r.model = m /\ r.size = z
    BY <1>1 DEF ImportRecord
  <2>3. imp'[i] = r
    BY <2>1 DEF TypesInv, ImportsTyped
  <2>4. Ahead(Listed(m)) = {f \in Files : file[m][f] # None}
    BY <1>1, ListedFacts
  <2>5. \A f \in Files : z[f] > 0 => file[m][f] # None
    BY DEF SizeOf
  <2> HIDE DEF r, z, m
  <2>6. ASSUME Quiet' PROVE Past(i)'
    <3>1. ~mutated
      BY <1>1, <2>6 DEF Quiet
    <3>2. file[m]["extra"] # None /\ file[m]["dec"] # None
      BY <1>1, <1>3, <3>1 DEF Has, StoreInv, ConvertInv, IsWhole
    <3>3. \A f \in Files : f \in Weights \/ z[f] > 0 => f \in Ahead(Listed(m))
      BY <2>4, <2>5, <3>2 DEF Weights
    <3>4. Ahead(imp[i].left)' = Ahead(Listed(m))
      BY <2>2, <2>3 DEF Ahead
    <3> QED BY <2>2, <2>3, <3>3, <3>4 DEF Past
  <2> QED BY <1>1, <2>1, <2>6, OthersPast DEF Imported
<1> QED
  BY <1>2, <1>3

\* The temporary file is there when a transfer begins.
LEMMA GetFilePast ==
  ASSUME TypesInv, PastInv, NEW i \in Imports, GetFile(i)
  PROVE  PastInv'
<1> DEFINE m == imp[i].model
           f == Head(imp[i].left)
           o == IF part[m][f] = None THEN i ELSE part[m][f]
           r == [imp[i] EXCEPT !.pc = "stream", !.to = o, !.from = file[m][f],
                               !.announced = SizeOf(m, f)]
<1>1. /\ imp[i] \in ImportRecord /\ imp[i].pc = "get" /\ m \in Models /\ f \in Files
      /\ part \in [Models -> [Files -> Imports \cup {None}]] /\ None \notin Imports
  BY ImportFacts, StoreAssumption DEF GetFile, Fetching, TypesInv, ImportsTyped
<1>2. /\ imp' = [imp EXCEPT ![i] = r] /\ final' = final /\ mutated' = mutated
      /\ part' = [part EXCEPT ![m][f] = o]
  BY DEF GetFile, commandVars
<1>3. /\ r.pc = "stream" /\ r.model = m /\ r.left = imp[i].left /\ r.size = imp[i].size
  BY <1>1 DEF ImportRecord
<1>4. o # None
  BY <1>1
<1>5. imp'[i] = r
  BY <1>2 DEF TypesInv, ImportsTyped
<1> HIDE DEF r, o
<1>6. /\ part'[m][f] # None
      /\ \A n \in Models, g \in Files : part[n][g] # None => part'[n][g] # None
  BY <1>1, <1>2, <1>4
<1>7. ASSUME Quiet' PROVE Past(i)'
  <2>1. Past(i)
    BY <1>1, <1>2, <1>7, QuietBefore DEF PastInv
  <2>2. /\ \A g \in Files : g \in Weights \/ imp[i].size[g] > 0 =>
               g \in Ahead(imp[i].left) \/ final[m][g] # None
    BY <1>1, <2>1 DEF Past, Fetching
  <2>3. Ahead(imp[i].left)' = Ahead(imp[i].left)
    BY <1>3, <1>5 DEF Ahead
  <2>4. /\ \A g \in Files : g \in Weights \/ imp'[i].size[g] > 0 =>
               g \in Ahead(imp[i].left)' \/ final'[m][g] # None
    BY <1>2, <1>3, <1>5, <2>2, <2>3
  <2> QED BY <1>3, <1>5, <1>6, <2>4 DEF Past
<1> QED
  BY <1>1, <1>2, <1>6, <1>7, OthersPast DEF Imported

\* A file that is kept is one more the import is past; it is the first that is
\* left, and so model_decomposed.bin is not ahead of model_extra.bin.
LEMMA KeepPast ==
  ASSUME TypesInv, PastInv, NEW i \in Imports, KeepFile(i)
  PROVE  PastInv'
<1> DEFINE m == imp[i].model
           f == Head(imp[i].left)
           p == IF Len(imp[i].left) = 1 THEN "ok" ELSE "get"
           t == Tail(imp[i].left)
           r == [imp[i] EXCEPT !.pc = p, !.left = t, !.to = None,
                               !.from = None, !.announced = 0, !.got = 0]
<1>1. /\ imp[i] \in ImportRecord /\ imp[i].pc = "stream" /\ m \in Models /\ f \in Files
      /\ imp[i].left \in Lefts /\ imp[i].left # <<>>
      /\ part \in [Models -> [Files -> Imports \cup {None}]]
      /\ final \in [Models -> [Files -> Imports \cup {None}]]
  BY ImportFacts DEF KeepFile, Fetching, TypesInv, ImportsTyped, ImportRecord
<1>2. imp' = [imp EXCEPT ![i] = r] /\ mutated' = mutated
  BY DEF KeepFile, NextFile, commandVars
<1>3. Rename(m, f)
  BY DEF KeepFile
<1>4. r.pc = p /\ r.model = m /\ r.left = t /\ r.size = imp[i].size /\ p \in {"ok", "get"}
  <2>1. p \in {"ok", "get"}
    OBVIOUS
  <2> HIDE DEF p, t
  <2> QED BY <1>1, <2>1 DEF ImportRecord
<1>5. imp'[i] = r
  BY <1>2 DEF TypesInv, ImportsTyped
<1>6. /\ Ahead(imp[i].left) = {f} \cup Ahead(t)
      /\ f = "extra" => "dec" \notin Ahead(imp[i].left)
  BY <1>1, LeftFacts
<1> HIDE DEF r, p, t, f, m
<1>7. \A n \in Models, g \in Files :
         /\ final[n][g] # None => final'[n][g] # None
         /\ part[n][g] # None => part'[n][g] # None \/ final'[n][g] # None
         /\ final'[n][g] # None => final[n][g] # None \/ (n = m /\ g = f)
  <2>1. CASE part[m][f] = None
    BY <1>3, <2>1 DEF Rename
  <2>2. CASE part[m][f] # None
    <3>1. /\ final' = [final EXCEPT ![m][f] = part[m][f]]
          /\ part' = [part EXCEPT ![m][f] = None]
      BY <1>3, <2>2 DEF Rename
    <3> QED BY <1>1, <2>2, <3>1
  <2> QED BY <2>1, <2>2
<1>8. ASSUME Quiet'
      PROVE  /\ \A g \in Files : g \in Weights \/ imp[i].size[g] > 0 =>
                    g \in Ahead(imp[i].left) \/ final[m][g] # None
             /\ part[m][f] # None \/ final[m][f] # None
  <2>1. Past(i)
    BY <1>1, <1>2, <1>8, QuietBefore DEF PastInv
  <2> QED BY <1>1, <2>1 DEF Past, Fetching, m, f
<1>9. ASSUME Quiet' PROVE Past(i)'
  <2>1. final'[m][f] # None
    <3>1. CASE part[m][f] # None
      <4>1. final' = [final EXCEPT ![m][f] = part[m][f]]
        BY <1>3, <3>1 DEF Rename
      <4> QED BY <1>1, <3>1, <4>1
    <3> QED BY <1>1, <1>7, <1>8, <1>9, <3>1
  <2>2. \A g \in Files : g \in Weights \/ imp[i].size[g] > 0 =>
                    g \in Ahead(t) \/ final'[m][g] # None
    BY <1>1, <1>6, <1>7, <1>8, <1>9, <2>1
  <2>3. Ahead(imp[i].left)' = Ahead(t)
    BY <1>4, <1>5 DEF Ahead
  <2> QED BY <1>4, <1>5, <2>2, <2>3 DEF Past
<1>10. ASSUME Quiet', NEW n \in Models, Imported(n)'
       PROVE  Imported(n) \/ final'[n]["dec"] # None
  <2>1. final[n]["extra"] # None \/ (n = m /\ f = "extra")
    BY <1>7, <1>10, FileNames DEF Imported
  <2>2. CASE n = m /\ f = "extra"
    <3>1. final[m]["dec"] # None
      BY <1>6, <1>8, <1>10, <2>2, FileNames DEF Weights
    <3> QED BY <1>1, <1>7, <2>2, <3>1, FileNames
  <2> QED BY <2>1, <2>2 DEF Imported
<1> QED
  BY <1>1, <1>2, <1>7, <1>9, <1>10, OthersPast

\* Every step of commands and imports keeps what imports are past.
LEMMA PastStep == TypesInv /\ StoreInv /\ PastInv /\ [Next]_vars => PastInv'
<1> SUFFICES ASSUME TypesInv, StoreInv, PastInv, [Next]_vars PROVE PastInv'
  OBVIOUS
<1>1. CASE UNCHANGED importVars /\ (mutated => mutated')
  <2>1. UNCHANGED <<part, final, imp>>
    BY <1>1 DEF importVars
  <2> QED BY <1>1, <2>1 DEF PastInv, Quiet, NoImportFailed, Past, Ahead, Imported
<1>2. ASSUME NEW c \in Commands, Command(c) PROVE UNCHANGED importVars /\ (mutated => mutated')
  BY <1>2, CommandBounds, CommandWrites
<1>3. ASSUME NEW i \in Imports, Import(i) PROVE PastInv'
  <2>1. CASE \/ FileNotFound(i) \/ SourceGone(i) \/ StreamStalls(i) \/ StreamBreaks(i)
             \/ WrongSize(i)
    <3>1. imp' = [imp EXCEPT ![i] = [NewImport EXCEPT !.pc = "failed"]]
      BY <2>1 DEF FileNotFound, SourceGone, StreamStalls, StreamBreaks, WrongSize, GiveUpImport
    <3>2. imp'[i].pc = "failed"
      BY <3>1 DEF TypesInv, ImportsTyped, NewImport
    <3> QED BY <3>2, FailedPast
  <2> QED BY <1>3, <2>1, LightPast, GetListPast, GetFilePast, KeepPast DEF Import, Transfer
<1>4. UNCHANGED vars => UNCHANGED importVars /\ (mutated => mutated')
  BY DEF vars, commandVars
<1> QED
  BY <1>1, <1>2, <1>3, <1>4 DEF Next

\* A marker is not there before the weights it marks: where model_extra.bin is,
\* on the converting node, model_decomposed.bin is whole, and on the importing
\* one it is there as long as no import has failed, whatever the imports write
\* into one another's temporary files and rename for each other.
THEOREM MarkersImplyWeights == Spec => []MarkerImpliesWeights
<1> DEFINE Inv == TypesInv /\ StoreInv /\ PastInv
<1>1. Init => Inv
  <2> SUFFICES ASSUME Init PROVE PastInv
    BY InitTypes, InitStore
  <2>1. \A m \in Models, f \in Files : final[m][f] = None
    BY DEF Init
  <2>2. \A i \in Imports : imp[i].pc \in {"new", "unused"}
    BY DEF Init, NewImport
  <2> QED BY <2>1, <2>2, FileNames DEF PastInv, Past, Fetching, Imported
<1>2. Inv /\ [Next]_vars => Inv'
  BY TypesStep, StoreStep, PastStep
<1>3. Inv => MarkerImpliesWeights
  BY DEF StoreInv, ConvertInv, PastInv, Quiet, IsWhole, Has, MarkerImpliesWeights
<1> HIDE DEF Inv
<1> QED
  BY <1>1, <1>2, <1>3, PTL DEF Spec

-----------------------------------------------------------------------------
(* What imports leave is what was at the source.                           *)

\* No import has failed, and each one has listed the files of a model that was
\* converted.
Calm ==
    /\ Quiet
    /\ \A i \in Imports : imp[i].pc \in Fetching \cup {"ok"} =>
          \A f \in Files : imp[i].size[f] = Chunks[f]

\* The source of an import is whole, and so is the inode it has open there.
Fed(i) ==
    LET m == imp[i].model  f == Head(imp[i].left) IN
    /\ imp[i].pc \in Fetching => \A g \in Files : IsWhole(m, g)
    /\ imp[i].pc = "stream" => /\ imp[i].announced = Chunks[f]
                               /\ inode[m][f][imp[i].from] = Whole(f)
                               /\ f \in Weights => imp[i].from = file[m][f]

\* An inode has the whole file, or someone streams to it who will have written
\* all of it, whoever truncates it meanwhile being the one who starts again.
Writes(i, o, f) == /\ imp[i].pc = "stream" /\ imp[i].to = o /\ Head(imp[i].left) = f
                   /\ 1 .. imp[i].got \subseteq copy[o][f].good
Complete(o, f) == copy[o][f] = Whole(f) \/ \E i \in Imports : Writes(i, o, f)

WithinFile(bytes, f) == bytes.good \subseteq 1 .. bytes.len /\ bytes.len <= Chunks[f]

CopyInv ==
    Calm => /\ \A i \in Imports : Fed(i)
            /\ \A o \in Imports, f \in Files : WithinFile(copy[o][f], f)
            /\ \A m \in Models, f \in Files, o \in Imports :
                  o \in {part[m][f], final[m][f]} => Complete(o, f)

\* What is to be shown of a step of an import: of itself, and of the copies.
LEMMA CopyMoves ==
  ASSUME TypesInv, CopyInv, NEW i \in Imports, NEW r, imp' = [imp EXCEPT ![i] = r],
         UNCHANGED commandVars, imp[i].pc \notin {"failed", "ok"},
         imp[i].pc \in Fetching => r.pc \in Fetching \cup {"ok"} /\ r.size = imp[i].size,
         Calm /\ Calm' =>
            /\ Fed(i)'
            /\ \A o \in Imports, f \in Files : WithinFile(copy'[o][f], f)
            /\ \A o \in Imports, f \in Files : Complete(o, f) => Complete(o, f)'
            /\ \A m \in Models, f \in Files, o \in Imports :
                  o \in {part'[m][f], final'[m][f]} =>
                     o \in {part[m][f], final[m][f]} \/ Complete(o, f)'
  PROVE  CopyInv'
<1> SUFFICES ASSUME Calm' PROVE /\ \A j \in Imports : Fed(j)'
                                /\ \A o \in Imports, f \in Files : WithinFile(copy[o][f], f)'
                                /\ \A m \in Models, f \in Files, o \in Imports :
                                     o \in {part'[m][f], final'[m][f]} => Complete(o, f)'
  BY DEF CopyInv
<1>0. imp'[i] = r /\ \A j \in Imports : j # i => imp'[j] = imp[j]
  BY DEF TypesInv, ImportsTyped
<1>1. UNCHANGED <<file, inode, mutated>>
  BY DEF commandVars
<1>2. Calm
  <2>1. Quiet
    BY <1>0, <1>1 DEF Calm, Quiet, NoImportFailed
  <2>2. \A j \in Imports : imp'[j].pc \in Fetching \cup {"ok"} =>
           \A f \in Files : imp'[j].size[f] = Chunks[f]
    BY DEF Calm, Fetching
  <2>3. ASSUME NEW j \in Imports, imp[j].pc \in Fetching \cup {"ok"}
        PROVE  \A f \in Files : imp[j].size[f] = Chunks[f]
    <3>1. imp'[j].pc \in Fetching \cup {"ok"} /\ imp'[j].size = imp[j].size
      BY <1>0, <2>3
    <3> QED BY <2>2, <3>1
  <2> QED BY <2>1, <2>3 DEF Calm
<1>3. ASSUME NEW j \in Imports PROVE Fed(j)'
  <2>1. CASE j = i
    BY <1>2, <2>1
  <2>2. CASE j # i
    <3>1. imp'[j] = imp[j] /\ Fed(j)
      BY <1>0, <1>2, <2>2 DEF CopyInv
    <3> QED BY <1>1, <3>1 DEF Fed, IsWhole, Whole, Fetching
  <2> QED BY <2>1, <2>2
<1>4. \A m \in Models, f \in Files, o \in Imports :
         o \in {part[m][f], final[m][f]} => Complete(o, f)
  BY <1>2 DEF CopyInv
<1>5. \A o \in Imports, f \in Files : WithinFile(copy[o][f], f)'
  BY <1>2 DEF WithinFile
<1> QED
  BY <1>2, <1>3, <1>4, <1>5

\* A copy that only grows stays complete, unless it was so through the import
\* that makes the step.
LEMMA StaysComplete ==
  ASSUME NEW i \in Imports, \A j \in Imports : j # i => imp'[j] = imp[j],
         NEW o \in Imports, NEW f \in Files, Complete(o, f),
         copy[o][f] = Whole(f) => copy'[o][f] = Whole(f),
         copy[o][f].good \subseteq copy'[o][f].good,
         Writes(i, o, f) => Complete(o, f)'
  PROVE  Complete(o, f)'
<1>1. CASE copy[o][f] = Whole(f)
  BY <1>1 DEF Complete, Whole
<1>2. ASSUME NEW j \in Imports, j # i, Writes(j, o, f) PROVE Complete(o, f)'
  <2>1. Writes(j, o, f)'
    BY <1>2 DEF Writes
  <2> QED BY <2>1 DEF Complete
<1> QED
  BY <1>1, <1>2 DEF Complete

\* An import that fails: nothing is said any more.
LEMMA FailedCopy ==
  ASSUME NEW i \in Imports, imp'[i].pc = "failed"
  PROVE  CopyInv'
BY DEF CopyInv, Calm, Quiet, NoImportFailed

\* An import that begins.
LEMMA BeginCopy ==
  ASSUME TypesInv, CopyInv, NEW i \in Imports, NEW m \in Models,
         BeginImport(i, m) \/ BeginStart(i, m)
  PROVE  CopyInv'
<1>0. imp[i] \in ImportRecord
  BY ImportFacts
<1>1. PICK r : /\ imp' = [imp EXCEPT ![i] = r] /\ r.pc \in {"list", "present", "failed"}
               /\ imp[i].pc = "new" /\ UNCHANGED <<part, final, copy, commandVars>>
  <2>1. CASE BeginImport(i, m)
    BY <1>0, <2>1 DEF BeginImport, ImportRecord
  <2>2. CASE BeginStart(i, m)
    <3> DEFINE p == IF Imported(m) THEN "present" ELSE IF Has(m) THEN "list" ELSE "failed"
               r == [imp[i] EXCEPT !.model = m, !.pc = p]
    <3>1. imp' = [imp EXCEPT ![i] = r]
      BY <2>2 DEF BeginStart
    <3>2. r.pc \in {"list", "present", "failed"}
      BY <1>0 DEF ImportRecord
    <3>3. imp[i].pc = "new" /\ UNCHANGED <<part, final, copy, commandVars>>
      BY <2>2 DEF BeginStart
    <3> HIDE DEF r
    <3> QED BY <3>1, <3>2, <3>3
  <2> QED BY <2>1, <2>2
<1>2. imp'[i] = r /\ \A j \in Imports : j # i => imp'[j] = imp[j]
  BY <1>1 DEF TypesInv, ImportsTyped
<1>3. Fed(i)'
  BY <1>1, <1>2 DEF Fed, Fetching
<1>4. \A o \in Imports, f \in Files : Complete(o, f) => Complete(o, f)'
  BY <1>1, <1>2, StaysComplete DEF Writes
<1>5. Calm => \A o \in Imports, f \in Files : WithinFile(copy'[o][f], f)
  BY <1>1 DEF CopyInv
<1> QED
  BY <1>1, <1>3, <1>4, <1>5, CopyMoves DEF Fetching

\* The sizes listed are those of whole files: then the files are whole.
LEMMA GetListCopy ==
  ASSUME TypesInv, SourceInv, CopyInv, NEW i \in Imports, GetList(i)
  PROVE  CopyInv'
<1> DEFINE m == imp[i].model
           z == [f \in Files |-> SizeOf(m, f)]
           r == [imp[i] EXCEPT !.pc = "get", !.left = Listed(m), !.size = z]
<1>1. /\ imp[i] \in ImportRecord /\ imp[i].pc = "list" /\ m \in Models
      /\ UNCHANGED <<part, final, copy, commandVars>>
  BY ImportFacts DEF GetList, ImportShape
<1>2. CASE ~Has(m)
  <2>1. imp' = [imp EXCEPT ![i] = [imp[i] EXCEPT !.pc = "failed"]]
    BY <1>2 DEF GetList
  <2>2. imp'[i].pc = "failed"
    BY <1>1, <2>1 DEF TypesInv, ImportsTyped, ImportRecord
  <2> QED BY <2>2, FailedCopy
<1>3. CASE Has(m)
  <2>1. imp' = [imp EXCEPT ![i] = r]
    BY <1>3 DEF GetList
  <2>2. r.pc = "get" /\ r.model = m /\ r.size = z
    BY <1>1 DEF ImportRecord
  <2>3. imp'[i] = r /\ \A j \in Imports : j # i => imp'[j] = imp[j]
    BY <2>1 DEF TypesInv, ImportsTyped
  <2>4. \A f \in Files : z[f] = SizeOf(m, f)
    OBVIOUS
  <2> HIDE DEF r, z, m
  <2>5. ASSUME Calm' PROVE Fed(i)'
    <3>1. ~mutated /\ UNCHANGED <<file, inode>>
      BY <1>1, <2>5 DEF Calm, Quiet, commandVars
    <3>2. ASSUME NEW f \in Files PROVE IsWhole(m, f)
      <4> DEFINE b == inode[m][f][file[m][f]]
      <4>1. SizeOf(m, f) = Chunks[f]
        BY <2>2, <2>3, <2>4, <2>5 DEF Calm, Fetching
      <4>2. file[m][f] # None /\ b.len = Chunks[f]
        BY <4>1, ChunkBounds DEF SizeOf
      <4>3. CASE f = "tok"
        BY <1>1, <3>1, <4>2, <4>3 DEF SourceInv, FetchedWhole
      <4>4. CASE f \in Weights
        <5>1. b.good = 1 .. b.len
          BY <1>1, <3>1, <4>2, <4>4 DEF SourceInv, Prefixes
        <5>2. b \in Bytes
          BY <1>1, <4>2 DEF TypesInv, CommandsTyped, CommandsBounded
        <5> HIDE DEF b
        <5>3. b = Whole(f)
          BY <4>2, <5>1, <5>2 DEF Bytes, Whole
        <5> QED BY <4>2, <5>3 DEF IsWhole, b
      <4> QED BY <4>3, <4>4, FileNames DEF Weights
    <3>3. \A n, f : IsWhole(n, f)' <=> IsWhole(n, f)
      BY <3>1 DEF IsWhole, Whole
    <3>4. imp'[i].model = m /\ imp'[i].pc = "get"
      BY <2>2, <2>3
    <3> QED BY <3>2, <3>3, <3>4 DEF Fed
  <2>6. \A o \in Imports, f \in Files : Complete(o, f) => Complete(o, f)'
    BY <1>1, <2>3, StaysComplete DEF Writes
  <2>7. Calm => \A o \in Imports, f \in Files : WithinFile(copy'[o][f], f)
    BY <1>1 DEF CopyInv
  <2> QED BY <1>1, <2>1, <2>2, <2>5, <2>6, <2>7, CopyMoves DEF Fetching
<1> QED
  BY <1>2, <1>3

\* A transfer begins with an empty copy, of a file that is whole.
LEMMA GetFileCopy ==
  ASSUME TypesInv, CopyInv, NEW i \in Imports, GetFile(i)
  PROVE  CopyInv'
<1> DEFINE m == imp[i].model
           f == Head(imp[i].left)
           o == IF part[m][f] = None THEN i ELSE part[m][f]
           g == file[m][f]
           r == [imp[i] EXCEPT !.pc = "stream", !.to = o, !.from = g,
                               !.announced = SizeOf(m, f)]
<1>1. /\ imp[i] \in ImportRecord /\ imp[i].pc = "get" /\ m \in Models /\ f \in Files
      /\ imp[i].got = 0
      /\ part \in [Models -> [Files -> Imports \cup {None}]] /\ None \notin Imports
      /\ copy \in [Imports -> [Files -> Bytes]]
  BY ImportFacts, StoreAssumption DEF GetFile, Fetching, TypesInv, ImportsTyped, ImportShape
<1>2. /\ imp' = [imp EXCEPT ![i] = r] /\ final' = final /\ UNCHANGED commandVars
      /\ part' = [part EXCEPT ![m][f] = o] /\ copy' = [copy EXCEPT ![o][f] = Empty]
      /\ g # None
  BY DEF GetFile
<1>3. /\ r.pc = "stream" /\ r.model = m /\ r.left = imp[i].left /\ r.size = imp[i].size
      /\ r.to = o /\ r.from = g /\ r.announced = SizeOf(m, f) /\ r.got = 0
  BY <1>1 DEF ImportRecord
<1>4. o \in Imports
  BY <1>1
<1>5. imp'[i] = r /\ \A j \in Imports : j # i => imp'[j] = imp[j]
  BY <1>2 DEF TypesInv, ImportsTyped
<1>6. UNCHANGED <<file, inode>>
  BY <1>2 DEF commandVars
<1>7. Head(r.left) = f
  BY <1>3
<1> HIDE DEF r, o, m, f, g
<1>8. /\ copy'[o][f] = Empty
      /\ \A q \in Imports, h \in Files : q # o \/ h # f => copy'[q][h] = copy[q][h]
  BY <1>1, <1>2, <1>4
<1>9. ASSUME NEW q \in Imports, NEW h \in Files, q = o, h = f PROVE Complete(q, h)'
  <2>1. 1 .. 0 \subseteq Empty.good
    BY DEF Empty
  <2>2. Writes(i, q, h)'
    BY <1>3, <1>5, <1>7, <1>8, <1>9, <2>1 DEF Writes
  <2> QED BY <2>2 DEF Complete
<1>10. ASSUME NEW q \in Imports, NEW h \in Files, Complete(q, h) PROVE Complete(q, h)'
  <2>1. CASE q = o /\ h = f
    BY <1>9, <2>1
  <2>2. CASE q # o \/ h # f
    <3>1. copy'[q][h] = copy[q][h] /\ ~Writes(i, q, h)
      BY <1>1, <1>8, <2>2 DEF Writes
    <3> QED BY <1>5, <1>10, <3>1, StaysComplete
  <2> QED BY <2>1, <2>2
<1>11. ASSUME NEW n \in Models, NEW h \in Files, NEW q \in Imports,
              q \in {part'[n][h], final'[n][h]}
       PROVE  q \in {part[n][h], final[n][h]} \/ Complete(q, h)'
  <2>1. CASE n = m /\ h = f
    BY <1>1, <1>2, <1>9, <1>11, <2>1
  <2>2. CASE n # m \/ h # f
    BY <1>1, <1>2, <1>11, <2>2
  <2> QED BY <2>1, <2>2
<1>12. ASSUME Calm PROVE Fed(i)'
  <2>1. \A h \in Files : IsWhole(m, h)
    BY <1>1, <1>12 DEF CopyInv, Fed, Fetching, m
  <2>2. inode[m][f][g] = Whole(f) /\ SizeOf(m, f) = Chunks[f]
    BY <1>1, <1>2, <2>1 DEF IsWhole, SizeOf, Whole, g
  <2>3. /\ imp'[i].model = m /\ Head(imp'[i].left) = f /\ imp'[i].from = g
        /\ imp'[i].announced = Chunks[f]
    BY <1>3, <1>5, <1>7, <2>2
  <2>4. \A n, h : IsWhole(n, h)' <=> IsWhole(n, h)
    BY <1>6 DEF IsWhole, Whole
  <2>5. inode'[m][f][g] = Whole(f) /\ file'[m][f] = g
    BY <1>6, <2>2 DEF g
  <2>6. \A h : Whole(h)' = Whole(h)
    BY DEF Whole
  <2> QED BY <2>1, <2>3, <2>4, <2>5, <2>6 DEF Fed
<1>13. ASSUME Calm PROVE \A q \in Imports, h \in Files : WithinFile(copy'[q][h], h)
  <2>1. \A h \in Files : WithinFile(Empty, h)
    BY ChunkBounds DEF WithinFile, Empty
  <2> QED BY <1>8, <1>13, <2>1 DEF CopyInv
<1> QED
  BY <1>1, <1>2, <1>3, <1>10, <1>11, <1>12, <1>13, CopyMoves DEF Fetching

\* The source opens the file anew: the one that has the name, which is whole.
LEMMA OpenCopy ==
  ASSUME TypesInv, CopyInv, NEW i \in Imports, OpenSource(i)
  PROVE  CopyInv'
<1> DEFINE m == imp[i].model
           f == Head(imp[i].left)
           now == file[m][f]
           r == [imp[i] EXCEPT !.from = now]
<1>1. imp[i] \in ImportRecord /\ imp[i].pc = "stream" /\ m \in Models /\ f \in Files
  BY ImportFacts DEF OpenSource, Opens, Fetching
<1>2. /\ imp' = [imp EXCEPT ![i] = r] /\ now # None
      /\ UNCHANGED <<part, final, copy>> /\ UNCHANGED commandVars
  BY DEF OpenSource
<1>3. /\ r.pc = "stream" /\ r.model = m /\ r.left = imp[i].left /\ r.size = imp[i].size
      /\ r.to = imp[i].to /\ r.from = now /\ r.announced = imp[i].announced
      /\ r.got = imp[i].got
  BY <1>1 DEF ImportRecord
<1>4. Head(r.left) = f
  BY <1>3
<1> HIDE DEF r
<1>5. imp'[i] = r /\ \A j \in Imports : j # i => imp'[j] = imp[j]
  BY <1>2 DEF TypesInv, ImportsTyped
<1>6. UNCHANGED <<file, inode>>
  BY <1>2 DEF commandVars
<1>7. ASSUME Calm PROVE Fed(i)'
  <2>1. Fed(i)
    BY <1>7 DEF CopyInv
  <2>2. (\A g \in Files : IsWhole(m, g)) /\ imp[i].announced = Chunks[f]
    BY <1>1, <2>1 DEF Fed, Fetching
  <2>3. inode[m][f][now] = Whole(f)
    BY <1>1, <1>2, <2>2 DEF IsWhole
  <2>4. \A g \in Files : file'[m][g] # None /\ inode'[m][g][file'[m][g]] = Whole(g)
    BY <1>6, <2>2 DEF IsWhole
  <2> HIDE DEF m, f, now
  <2>5. /\ imp'[i].pc = "stream" /\ imp'[i].model = m /\ Head(imp'[i].left) = f
        /\ imp'[i].from = now /\ imp'[i].announced = Chunks[f]
    BY <1>3, <1>4, <1>5, <2>2
  <2>6. inode'[m][f][now] = Whole(f) /\ now = file'[m][f]
    BY <1>6, <2>3 DEF now
  <2> QED BY <2>4, <2>5, <2>6 DEF Fed, IsWhole, Whole
<1>8. ASSUME Calm, NEW q \in Imports, NEW h \in Files, Complete(q, h) PROVE Complete(q, h)'
  <2>1. ASSUME Writes(i, q, h) PROVE Complete(q, h)'
    <3>1. Writes(i, q, h)'
      BY <1>2, <1>3, <1>4, <1>5, <2>1 DEF Writes
    <3> QED BY <3>1 DEF Complete
  <2> QED BY <1>2, <1>5, <1>8, <2>1, StaysComplete
<1>9. \A q \in Imports, h \in Files : Calm => WithinFile(copy'[q][h], h)
  BY <1>2 DEF CopyInv
<1> QED
  BY <1>1, <1>2, <1>3, <1>7, <1>8, <1>9, CopyMoves DEF Fetching

\* A chunk goes from a whole file to its place in the copy.
LEMMA ChunkCopy ==
  ASSUME TypesInv, CopyInv, NEW i \in Imports, StreamChunk(i)
  PROVE  CopyInv'
<1> DEFINE m == imp[i].model
           f == Head(imp[i].left)
           source == inode[m][f][imp[i].from]
           k == imp[i].got + 1
           o == imp[i].to
           r == [imp[i] EXCEPT !.got = k]
<1>1. /\ imp[i] \in ImportRecord /\ imp[i].pc = "stream" /\ m \in Models /\ f \in Files
      /\ o \in Imports /\ k \in 1 .. MaxChunks /\ k = imp[i].got + 1 /\ imp[i].got \in Nat
      /\ copy \in [Imports -> [Files -> Bytes]] /\ k <= imp[i].announced
  <2>1. /\ imp[i] \in ImportRecord /\ ImportShape(imp[i]) /\ imp[i].pc = "stream"
        /\ k <= imp[i].announced /\ m \in Models /\ f \in Files
    BY ImportFacts DEF StreamChunk, Fetching
  <2> QED BY <2>1, ChunkBounds DEF ImportShape, ImportRecord, TypesInv, ImportsTyped
<1>2. /\ UNCHANGED <<part, final, commandVars>>
      /\ copy' = [copy EXCEPT ![o][f] = Copied(@, k, source)]
  BY DEF StreamChunk
<1>3. imp' = [imp EXCEPT ![i] = r]
  BY DEF StreamChunk
<1>4. /\ r.pc = "stream" /\ r.model = m /\ r.left = imp[i].left /\ r.size = imp[i].size
      /\ r.to = o /\ r.from = imp[i].from /\ r.announced = imp[i].announced /\ r.got = k
  BY <1>1 DEF ImportRecord
<1>5. Head(r.left) = f
  BY <1>4
<1>6. Calm => /\ source = Whole(f) /\ imp[i].announced = Chunks[f]
              /\ WithinFile(copy[o][f], f)
  BY <1>1 DEF CopyInv, Fed
<1> HIDE DEF r, o, m, f, k, source
<1>7. imp'[i] = r /\ \A j \in Imports : j # i => imp'[j] = imp[j]
  BY <1>3 DEF TypesInv, ImportsTyped
<1>8. UNCHANGED <<file, inode>>
  BY <1>2 DEF commandVars
<1>9. /\ copy'[o][f] = Copied(copy[o][f], k, source)
      /\ \A q \in Imports, h \in Files : q # o \/ h # f => copy'[q][h] = copy[q][h]
  BY <1>1, <1>2
<1>10. ASSUME Calm
       PROVE  /\ copy'[o][f].good = copy[o][f].good \cup {k}
              /\ copy'[o][f].len = IF k > copy[o][f].len THEN k ELSE copy[o][f].len
              /\ copy'[o][f] \in Bytes /\ copy[o][f] \in Bytes
              /\ k <= Chunks[f] /\ Chunks[f] \in Nat
  <2> DEFINE b == copy[o][f]
  <2>1. b \in Bytes /\ k \in 1 .. Chunks[f] /\ Chunks[f] \in Nat
    BY <1>1, <1>6, <1>10, ChunkBounds
  <2>2. source.good = 1 .. Chunks[f]
    BY <1>6, <1>10 DEF Whole
  <2> HIDE DEF b
  <2>3. Copied(b, k, source) = Put(b, k) /\ Put(b, k) \in Bytes
    BY <1>1, <2>1, <2>2, PutBytes DEF Copied
  <2>4. copy'[o][f] = Put(b, k)
    BY <1>9, <2>3 DEF b
  <2> QED BY <2>1, <2>3, <2>4 DEF Put, b
<1>11. ASSUME Calm, NEW q \in Imports, NEW h \in Files PROVE WithinFile(copy'[q][h], h)
  <2>1. CASE q = o /\ h = f
    <3> DEFINE b == copy[o][f]
               a == copy'[o][f]
    <3>1. /\ b.len \in Nat /\ b.good \subseteq 1 .. b.len /\ b.len <= Chunks[f]
          /\ k \in Nat /\ 1 <= k /\ k <= Chunks[f] /\ Chunks[f] \in Nat
      BY <1>1, <1>6, <1>10, <1>11, ChunkBounds DEF WithinFile, Bytes
    <3>2. a.good = b.good \cup {k} /\ a.len = IF k > b.len THEN k ELSE b.len
      BY <1>10, <1>11
    <3> HIDE DEF a, b
    <3>3. a.len \in Nat /\ b.len <= a.len /\ k <= a.len /\ a.len <= Chunks[f]
      BY <3>1, <3>2
    <3>4. WithinFile(a, f)
      BY <3>1, <3>2, <3>3 DEF WithinFile
    <3> QED BY <2>1, <3>4 DEF a
  <2>2. CASE q # o \/ h # f
    BY <1>9, <1>11, <2>2 DEF CopyInv
  <2> QED BY <2>1, <2>2
<1>12. ASSUME Calm, NEW q \in Imports, NEW h \in Files, Complete(q, h) PROVE Complete(q, h)'
  <2>1. CASE q = o /\ h = f
    <3>1. copy[q][h].good \subseteq copy'[q][h].good
      BY <1>10, <1>12, <2>1
    <3>2. ASSUME copy[q][h] = Whole(h) PROVE copy'[q][h] = Whole(h)
      <4>1. copy[q][h].len = Chunks[f] /\ copy[q][h].good = 1 .. Chunks[f]
        BY <2>1, <3>2 DEF Whole
      <4>2. k \in 1 .. Chunks[f] /\ ~(k > Chunks[f])
        BY <1>1, <1>10, <1>12, ChunkBounds
      <4>3. copy'[q][h].len = Chunks[f] /\ copy'[q][h].good = 1 .. Chunks[f]
        BY <1>10, <1>12, <2>1, <4>1, <4>2
      <4>4. copy'[q][h] \in Bytes
        BY <1>10, <1>12, <2>1
      <4> QED BY <2>1, <4>3, <4>4 DEF Bytes, Whole
    <3>3. ASSUME Writes(i, q, h) PROVE Complete(q, h)'
      <4>1. 1 .. k = 1 .. imp[i].got \cup {k}
        BY <1>1
      <4>2. 1 .. k \subseteq copy'[q][h].good
        BY <1>10, <1>12, <2>1, <3>3, <4>1 DEF Writes
      <4>3. Writes(i, q, h)'
        BY <1>4, <1>5, <1>7, <2>1, <4>2 DEF Writes
      <4> QED BY <4>3 DEF Complete
    <3> QED BY <1>7, <1>12, <3>1, <3>2, <3>3, StaysComplete
  <2>2. CASE q # o \/ h # f
    <3>1. copy'[q][h] = copy[q][h] /\ ~Writes(i, q, h)
      BY <1>9, <2>2 DEF Writes, o, f
    <3> QED BY <1>7, <1>12, <3>1, StaysComplete
  <2> QED BY <2>1, <2>2
<1>13. ASSUME Calm PROVE Fed(i)'
  <2>1. Fed(i)
    BY <1>13 DEF CopyInv
  <2>2. /\ imp'[i].pc = imp[i].pc /\ imp'[i].model = imp[i].model
        /\ imp'[i].left = imp[i].left /\ imp'[i].from = imp[i].from
        /\ imp'[i].announced = imp[i].announced
    BY <1>1, <1>4, <1>7 DEF m
  <2>3. /\ \A n, h : IsWhole(n, h)' <=> IsWhole(n, h)
        /\ \A h : Whole(h)' = Whole(h)
    BY <1>8 DEF IsWhole, Whole
  <2> QED BY <1>8, <2>1, <2>2, <2>3 DEF Fed, Fetching
<1> QED
  BY <1>1, <1>2, <1>3, <1>4, <1>11, <1>12, <1>13, CopyMoves DEF Fetching

\* The bytes announced have come: the copy is the file, and it is renamed.
LEMMA KeepCopy ==
  ASSUME TypesInv, CopyInv, NEW i \in Imports, KeepFile(i)
  PROVE  CopyInv'
<1> DEFINE m == imp[i].model
           f == Head(imp[i].left)
           p == IF Len(imp[i].left) = 1 THEN "ok" ELSE "get"
           t == Tail(imp[i].left)
           r == [imp[i] EXCEPT !.pc = p, !.left = t, !.to = None,
                               !.from = None, !.announced = 0, !.got = 0]
<1>1. /\ imp[i] \in ImportRecord /\ imp[i].pc = "stream" /\ m \in Models /\ f \in Files
      /\ imp[i].got = imp[i].announced
      /\ part \in [Models -> [Files -> Imports \cup {None}]]
      /\ final \in [Models -> [Files -> Imports \cup {None}]]
      /\ copy \in [Imports -> [Files -> Bytes]] /\ None \notin Imports
  BY ImportFacts, StoreAssumption DEF KeepFile, Fetching, TypesInv, ImportsTyped
<1>2. imp' = [imp EXCEPT ![i] = r] /\ UNCHANGED commandVars /\ copy' = copy
  BY DEF KeepFile, NextFile
<1>3. Rename(m, f)
  BY DEF KeepFile
<1>4. r.pc = p /\ r.model = m /\ r.size = imp[i].size /\ p \in {"ok", "get"}
  <2>1. p \in {"ok", "get"}
    OBVIOUS
  <2> HIDE DEF p, t
  <2> QED BY <1>1, <2>1 DEF ImportRecord
<1>5. imp'[i] = r /\ \A j \in Imports : j # i => imp'[j] = imp[j]
  BY <1>2 DEF TypesInv, ImportsTyped
<1>6. Calm => \A h \in Files : IsWhole(m, h)
  BY <1>1 DEF CopyInv, Fed, Fetching
<1>7. Calm => imp[i].announced = Chunks[f]
  BY <1>1 DEF CopyInv, Fed
<1> HIDE DEF r, p, t, f, m
<1>8. ASSUME Calm, NEW q \in Imports, NEW h \in Files, Writes(i, q, h)
      PROVE  copy[q][h] = Whole(h)
  <2> DEFINE b == copy[q][h]
  <2>1. h = f /\ 1 .. Chunks[h] \subseteq b.good
    BY <1>1, <1>7, <1>8 DEF Writes, f
  <2>2. b \in Bytes /\ b.good \subseteq 1 .. b.len /\ b.len <= Chunks[h]
    BY <1>1, <1>8 DEF CopyInv, WithinFile
  <2>3. Chunks[h] \in Nat /\ 0 < Chunks[h] /\ b.len \in Nat
    BY <2>2, ChunkBounds DEF Bytes
  <2> HIDE DEF b
  <2>4. Chunks[h] \in 1 .. b.len
    BY <2>1, <2>2, <2>3
  <2>5. b.len = Chunks[h]
    BY <2>2, <2>3, <2>4
  <2>6. b.good = 1 .. Chunks[h]
    BY <2>1, <2>2, <2>5
  <2> QED BY <2>2, <2>5, <2>6 DEF Bytes, Whole, b
<1>9. ASSUME Calm, NEW q \in Imports, NEW h \in Files, Complete(q, h) PROVE Complete(q, h)'
  <2>1. ASSUME Writes(i, q, h) PROVE Complete(q, h)'
    <3>1. copy'[q][h] = Whole(h)
      BY <1>2, <1>8, <1>9, <2>1
    <3> QED BY <3>1 DEF Complete, Whole
  <2> QED BY <1>2, <1>5, <1>9, <2>1, StaysComplete
<1>10. ASSUME NEW n \in Models, NEW h \in Files, NEW q \in Imports,
              q \in {part'[n][h], final'[n][h]}
       PROVE  q \in {part[n][h], final[n][h]}
  <2>1. CASE part[m][f] = None
    BY <1>3, <1>10, <2>1 DEF Rename
  <2>2. CASE part[m][f] # None
    <3>1. /\ final' = [final EXCEPT ![m][f] = part[m][f]]
          /\ part' = [part EXCEPT ![m][f] = None]
      BY <1>3, <2>2 DEF Rename
    <3> QED BY <1>1, <1>10, <3>1
  <2> QED BY <2>1, <2>2
<1>11. ASSUME Calm PROVE Fed(i)'
  <2>1. \A n, h : IsWhole(n, h)' <=> IsWhole(n, h)
    BY <1>2 DEF IsWhole, Whole, commandVars
  <2>2. imp'[i].model = m /\ imp'[i].pc # "stream"
    BY <1>4, <1>5
  <2> QED BY <1>6, <1>11, <2>1, <2>2 DEF Fed
<1>12. Calm => \A q \in Imports, h \in Files : WithinFile(copy'[q][h], h)
  BY <1>2 DEF CopyInv
<1> QED
  BY <1>1, <1>2, <1>4, <1>9, <1>10, <1>11, <1>12, CopyMoves DEF Fetching

\* Every step of commands and imports keeps the copies.
LEMMA CopyStep == TypesInv /\ StoreInv /\ SourceInv /\ CopyInv /\ [Next]_vars => CopyInv'
<1> SUFFICES ASSUME TypesInv, StoreInv, SourceInv, CopyInv, [Next]_vars PROVE CopyInv'
  OBVIOUS
<1>1. ASSUME NEW c \in Commands, Command(c), Calm' PROVE CopyInv'
  <2>1. UNCHANGED <<part, final, copy, imp>>
    BY <1>1, CommandBounds DEF importVars
  <2>2. ~mutated'
    BY <1>1 DEF Calm, Quiet
  <2>3. Calm
    BY <1>1, <2>1, <2>2, CommandKeeps DEF Calm, Quiet, NoImportFailed
  <2>4. \A n \in Models :
           /\ \A g \in Files : IsWhole(n, g) =>
                 file'[n][g] # None /\ inode'[n][g][file'[n][g]] = Whole(g)
           /\ \A g \in Weights : IsWhole(n, g) => file'[n][g] = file[n][g]
           /\ \A d \in Commands : inode[n]["tok"][d] = Whole("tok")
                                     => inode'[n]["tok"][d] = Whole("tok")
    <3>1. \A n, g : IsWhole(n, g)' => file'[n][g] # None /\ inode'[n][g][file'[n][g]] = Whole(g)
      BY DEF IsWhole, Whole
    <3> QED BY <1>1, <2>2, <3>1, CommandKeeps
  <2>5. ASSUME NEW i \in Imports PROVE Fed(i)'
    <3> DEFINE m == imp[i].model
               f == Head(imp[i].left)
               d == imp[i].from
    <3>1. Fed(i)
      BY <2>3 DEF CopyInv
    <3>2. /\ imp[i].pc \in Fetching => m \in Models /\ f \in Files
          /\ imp[i].pc = "stream" => d \in Commands
      BY ImportFacts DEF ImportShape
    <3>3. /\ imp[i].pc \in Fetching => \A g \in Files : IsWhole(m, g)
          /\ imp[i].pc = "stream" => /\ imp[i].announced = Chunks[f]
                                     /\ inode[m][f][d] = Whole(f)
                                     /\ f \in Weights => d = file[m][f]
      BY <3>1 DEF Fed
    <3> HIDE DEF m, f, d
    <3>4. imp[i].pc \in Fetching => \A g \in Files :
             file'[m][g] # None /\ inode'[m][g][file'[m][g]] = Whole(g)
      BY <2>4, <3>2, <3>3
    <3>5. ASSUME imp[i].pc = "stream"
          PROVE  inode'[m][f][d] = Whole(f) /\ (f \in Weights => d = file'[m][f])
      <4>1. m \in Models /\ f \in Files /\ d \in Commands /\ IsWhole(m, f)
        BY <3>2, <3>3, <3>5 DEF Fetching
      <4>2. CASE f \in Weights
        <5>1. file'[m][f] = d
          BY <2>4, <3>3, <3>5, <4>1, <4>2
        <5>2. inode'[m][f][file'[m][f]] = Whole(f)
          BY <3>4, <3>5, <4>1 DEF Fetching
        <5> QED BY <5>1, <5>2
      <4>3. CASE f = "tok"
        BY <2>4, <3>3, <3>5, <4>1, <4>3 DEF Weights
      <4> QED BY <4>1, <4>2, <4>3, FileNames DEF Weights
    <3>6. imp'[i] = imp[i]
      BY <2>1
    <3> QED BY <3>3, <3>4, <3>5, <3>6 DEF Fed, IsWhole, Whole, m, f, d
  <2>6. /\ \A o \in Imports, f \in Files : WithinFile(copy'[o][f], f)
        /\ \A m \in Models, f \in Files, o \in Imports :
              o \in {part'[m][f], final'[m][f]} => Complete(o, f)'
    BY <2>1, <2>3 DEF CopyInv, Complete, Writes, Whole
  <2> QED BY <2>5, <2>6 DEF CopyInv, WithinFile
<1>2. CASE UNCHANGED vars
  <2>1. UNCHANGED <<file, inode, part, final, copy, imp, mutated>>
    BY <1>2 DEF vars, commandVars, importVars
  <2>2. Calm' => Calm
    BY <2>1 DEF Calm, Quiet, NoImportFailed
  <2>3. \A i : Fed(i) => Fed(i)'
    BY <2>1 DEF Fed, IsWhole, Whole
  <2>4. \A o, f : Complete(o, f) => Complete(o, f)'
    BY <2>1 DEF Complete, Writes, Whole
  <2> QED BY <2>1, <2>2, <2>3, <2>4 DEF CopyInv, WithinFile
<1>3. ASSUME NEW i \in Imports, Import(i) PROVE CopyInv'
  <2>1. CASE \/ FileNotFound(i) \/ SourceGone(i) \/ StreamStalls(i) \/ StreamBreaks(i)
             \/ WrongSize(i)
    <3>1. imp' = [imp EXCEPT ![i] = [NewImport EXCEPT !.pc = "failed"]]
      BY <2>1 DEF FileNotFound, SourceGone, StreamStalls, StreamBreaks, WrongSize, GiveUpImport
    <3>2. imp'[i].pc = "failed"
      BY <3>1 DEF TypesInv, ImportsTyped, NewImport
    <3> QED BY <3>2, FailedCopy
  <2> QED BY <1>3, <2>1, BeginCopy, GetListCopy, GetFileCopy, OpenCopy, ChunkCopy,
          KeepCopy
          DEF Import, Transfer
<1>4. ASSUME NEW c \in Commands, Command(c) PROVE CopyInv'
  <2>1. CASE Calm'
    BY <1>1, <1>4, <2>1
  <2>2. CASE ~Calm'
    BY <2>2 DEF CopyInv
  <2> QED BY <2>1, <2>2
<1> QED
  BY <1>2, <1>3, <1>4 DEF Next

\* Imports leave the files of the source: when every import of a model has ended
\* well and listed a model that was converted, each file it is about is there
\* with all its chunks, although imports of one model may have truncated and
\* filled one another's temporary files, and renamed them for each other.
THEOREM ImportsAreWhole == Spec => []ImportsLeaveWholeFiles
<1> DEFINE Inv == TypesInv /\ StoreInv /\ SourceInv /\ PastInv /\ CopyInv
<1>1. Init => Inv
  <2> SUFFICES ASSUME Init PROVE SourceInv /\ PastInv /\ CopyInv
    BY InitTypes, InitStore
  <2>1. \A m \in Models, f \in Files : file[m][f] = None /\ final[m][f] = None /\ part[m][f] = None
    BY DEF Init
  <2>2. \A i \in Imports : imp[i].pc \in {"new", "unused"}
    BY DEF Init, NewImport
  <2>3. SourceInv /\ PastInv
    BY <2>1, <2>2, FileNames
       DEF SourceInv, Prefixes, FetchedWhole, Weights, PastInv, Past, Fetching, Imported
  <2>4. \A o \in Imports, f \in Files : WithinFile(copy[o][f], f)
    BY ChunkBounds DEF Init, Empty, WithinFile
  <2>5. None \notin Imports
    BY StoreAssumption
  <2> QED BY <2>1, <2>2, <2>3, <2>4, <2>5 DEF CopyInv, Fed, Fetching
<1>2. Inv /\ [Next]_vars => Inv'
  BY TypesStep, StoreStep, SourceStep, PastStep, CopyStep
<1>3. Inv => ImportsLeaveWholeFiles
  <2> SUFFICES ASSUME Inv, ~mutated, NoImportFailed, AllEnded,
                      \A i \in Imports : imp[i].pc = "ok" =>
                         \A f \in Files : imp[i].size[f] = Chunks[f],
                      NEW i \in Imports, imp[i].pc = "ok", NEW f \in Files
               PROVE  LET o == final[imp[i].model][f] IN o # None /\ copy[o][f] = Whole(f)
    BY DEF ImportsLeaveWholeFiles
  <2> DEFINE o == final[imp[i].model][f]
  <2>1. Calm
    BY DEF Calm, Quiet, AllEnded, Fetching
  <2>2. imp[i].model \in Models /\ imp[i].left = <<>>
    BY DEF TypesInv, ImportsTyped, ImportShape
  <2>3. imp[i].size[f] > 0
    BY ChunkBounds
  <2>4. Past(i)
    BY <2>1 DEF Calm, PastInv
  <2>5. o # None
    BY <2>2, <2>3, <2>4, NothingAhead DEF Past
  <2>6. o \in Imports
    BY <2>2, <2>5 DEF TypesInv, ImportsTyped
  <2>7. Complete(o, f)
    BY <2>1, <2>2, <2>6 DEF CopyInv
  <2>8. copy[o][f] = Whole(f)
    BY <2>7 DEF Complete, Writes, AllEnded
  <2> QED BY <2>5, <2>8
<1> HIDE DEF Inv
<1> QED
  BY <1>1, <1>2, <1>3, PTL DEF Spec
===============================================================================
