------------------------------ MODULE ModelStore -------------------------------
(***************************************************************************)
(* The model directories and who writes them.  On one node the commands    *)
(* terllama pull and terllama rm, processes of their own, convert a        *)
(* checkpoint into the files of a model, delete them, and keep the         *)
(* registry models.json.  A second node imports a model over HTTP: the     *)
(* handlers of its thread pool list the files at the source and stream     *)
(* them one by one into temporary files that they rename.                  *)
(*                                                                         *)
(* A file name leads to an inode, and an inode outlives its name for those *)
(* who have it open.  Inodes are named by whoever created them: each       *)
(* command and each import creates at most one per file.  The bytes of a   *)
(* file are its chunks: len counts them, good are those that were written  *)
(* (the others read as zeros).                                             *)
(***************************************************************************)
EXTENDS Integers, Sequences, FiniteSetsExt

CONSTANTS
    Models,      \* the models the commands are about
    Commands,    \* the terllama processes started
    Imports,     \* the calls of import_model_from on the second node
    Casts,       \* the sets of commands and imports that may be at work together
    None,
    Chunks,      \* size of each file
    MaxFaults    \* bound on killed processes and broken connections

ASSUME StoreAssumption ==
    /\ IsFiniteSet(Commands) /\ IsFiniteSet(Imports)
    /\ None \notin Commands \cup Imports
    /\ Casts \subseteq SUBSET (Commands \cup Imports)
    /\ Chunks \in [{"dec", "extra", "tok"} -> Nat \ {0}]
    /\ MaxFaults \in Nat

\* Mutant: the names are not sorted.
Names_Unsorted == <<"extra", "dec", "tok">>

(* model_decomposed.bin, model_extra.bin, and tokenizer.json, which stands *)
(* for the files fetched whole, in the order list_model_files sorts them.  *)
Names == <<"dec", "extra", "tok">>
Files == {Names[k] : k \in DOMAIN Names}
MaxChunks == Max({Chunks[f] : f \in Files})

VARIABLES
    \* ---- the node that converts ----
    file,        \* models_dir(): the inode of each file, None when there is none
    inode,       \* the bytes of the inodes
    registry,    \* the models listed in models.json
    cmd,         \* the commands
    \* ---- the node that imports ----
    part,        \* the temporary files ".<name>.part"
    final,       \* the files
    copy,        \* the bytes of the inodes
    imp,         \* the imports
    \* ---- history ----
    faults,
    mutated      \* a converted file was truncated or deleted

commandVars == <<file, inode, registry, cmd, mutated>>
importVars == <<part, final, copy, imp>>
vars == <<commandVars, importVars, faults>>

Bytes == [len : 0 .. MaxChunks, good : SUBSET (1 .. MaxChunks)]
Empty == [len |-> 0, good |-> {}]
Whole(f) == [len |-> Chunks[f], good |-> 1 .. Chunks[f]]

(* Write chunk k of a file, at its place. *)
Put(bytes, k) == [len |-> IF k > bytes.len THEN k ELSE bytes.len,
                  good |-> bytes.good \cup {k}]
(* What a reader of chunk k writes elsewhere: the chunk, or zeros. *)
Copied(bytes, k, from) ==
    IF k \in from.good THEN Put(bytes, k)
    ELSE [Put(bytes, k) EXCEPT !.good = bytes.good \ {k}]

NewCommand == [pc |-> "new", model |-> None, out |-> None, pos |-> 0,
               entries |-> {}]
Over(pc) == [NewCommand EXCEPT !.pc = pc]
NewImport == [pc |-> "new", model |-> None, left |-> <<>>,
              size |-> [f \in Files |-> 0], to |-> None, from |-> None,
              announced |-> 0, got |-> 0]

TypeOK ==
    /\ file \in [Models -> [Files -> Commands \cup {None}]]
    /\ inode \in [Models -> [Files -> [Commands -> Bytes]]]
    /\ registry \subseteq Models
    /\ \A c \in Commands :
        /\ cmd[c].pc \in {"new", "dec", "extra", "pulled", "unlink",
                          "unlinkExtra", "removed", "save", "drop",
                          "done", "failed", "unused"}
        /\ cmd[c].model \in Models \cup {None}
        /\ cmd[c].out \in Commands \cup {None}
        /\ cmd[c].pos \in 0 .. MaxChunks /\ cmd[c].entries \subseteq Models
    /\ part \in [Models -> [Files -> Imports \cup {None}]]
    /\ final \in [Models -> [Files -> Imports \cup {None}]]
    /\ copy \in [Imports -> [Files -> Bytes]]
    /\ \A i \in Imports :
        /\ imp[i].pc \in {"new", "list", "get", "stream", "present",
                          "ok", "failed", "unused"}
        /\ imp[i].model \in Models \cup {None}
        /\ imp[i].size \in [Files -> 0 .. MaxChunks]
        /\ imp[i].got \in 0 .. imp[i].announced
    /\ faults \in 0 .. MaxFaults /\ mutated \in BOOLEAN

Init ==
    /\ file = [m \in Models |-> [f \in Files |-> None]]
    /\ inode = [m \in Models |-> [f \in Files |-> [c \in Commands |-> Empty]]]
    /\ registry = {}
    /\ part = [m \in Models |-> [f \in Files |-> None]]
    /\ final = [m \in Models |-> [f \in Files |-> None]]
    /\ copy = [i \in Imports |-> [f \in Files |-> Empty]]
    /\ \E cast \in Casts :
        /\ cmd = [c \in Commands |-> IF c \in cast THEN NewCommand ELSE Over("unused")]
        /\ imp = [i \in Imports |-> [NewImport EXCEPT
                     !.pc = IF i \in cast THEN "new" ELSE "unused"]]
    /\ faults = 0 /\ mutated = FALSE

------------------------------------------------------------------------------
(* terllama pull: convert_model and the entry in the registry. *)

(* hf_download_file: redirects are followed on the hub's hosts, each       *)
(* answer rewrites a temporary file of its own, and the one that is        *)
(* accepted is renamed: the file is there whole, or as it was before.      *)
Fetch(c, m, f) ==
    /\ file' = [file EXCEPT ![m][f] = c]
    /\ inode' = [inode EXCEPT ![m][f][c] = Whole(f)]

(* The directory is made and the files that need no conversion are fetched *)
(* into it.                                                                *)
BeginPull(c, m) ==
    /\ cmd[c].pc = "new"
    /\ Fetch(c, m, "tok")
    /\ cmd' = [cmd EXCEPT ![c] = [@ EXCEPT !.pc = "dec", !.model = m]]
    /\ UNCHANGED <<registry, mutated, importVars, faults>>

(* The hub refuses the first of them: nothing is written. *)
PullFails(c) ==
    /\ cmd[c].pc = "new"
    /\ cmd' = [cmd EXCEPT ![c].pc = "failed"]
    /\ UNCHANGED <<file, inode, registry, mutated, importVars, faults>>

(* The weights, one file or the shards of an index, are not all there, or  *)
(* they are not those of a model: what was fetched stays.                  *)
WeightsFail(c) ==
    /\ cmd[c].pc = "dec" /\ cmd[c].out = None
    /\ cmd' = [cmd EXCEPT ![c] = Over("failed")]
    /\ UNCHANGED <<file, inode, registry, mutated, importVars, faults>>

(* write_decomposed, write_extra: the file is opened for truncation and    *)
(* written in place, under its own name.                                   *)
OpenOutput(c) ==
    LET m == cmd[c].model  f == cmd[c].pc IN
    /\ f \in {"dec", "extra"} /\ cmd[c].out = None
    /\ LET o == IF file[m][f] = None THEN c ELSE file[m][f] IN
       /\ file' = [file EXCEPT ![m][f] = o]
       /\ inode' = [inode EXCEPT ![m][f][o] = Empty]
       /\ cmd' = [cmd EXCEPT ![c] = [@ EXCEPT !.out = o, !.pos = 0]]
    /\ mutated' = (mutated \/ file[m][f] # None)
    /\ UNCHANGED <<registry, importVars, faults>>

(* After the last chunk the file is closed, and the other one follows. *)
AfterOutput(f) == IF f = "dec" THEN "extra" ELSE "pulled"

WriteOutput(c) ==
    LET m == cmd[c].model  f == cmd[c].pc  k == cmd[c].pos + 1 IN
    /\ cmd[c].out # None
    /\ inode' = [inode EXCEPT ![m][f][cmd[c].out] = Put(@, k)]
    /\ cmd' = [cmd EXCEPT ![c] =
                 IF k < Chunks[f] THEN [@ EXCEPT !.pos = k]
                 ELSE [@ EXCEPT !.pc = AfterOutput(f), !.out = None, !.pos = 0]]
    /\ UNCHANGED <<file, registry, mutated, importVars, faults>>

\* Mutant: the result of the writer is not looked at.
OutputFails_Ignored(c) ==
    /\ cmd[c].out # None
    /\ cmd' = [cmd EXCEPT ![c] = [@ EXCEPT !.pc = AfterOutput(@), !.out = None,
                                           !.pos = 0]]
    /\ UNCHANGED <<file, inode, registry, mutated, importVars, faults>>

(* A disk that is full, or in write_extra a norm that is missing or has    *)
(* the wrong size: what is written so far stays.                           *)
OutputFails(c) ==
    /\ cmd[c].out # None
    /\ cmd' = [cmd EXCEPT ![c] = Over("failed")]
    /\ UNCHANGED <<file, inode, registry, mutated, importVars, faults>>

(* terllama rm: the weights and the configuration go, the other files and  *)
(* with them the directory stay.                                           *)
BeginRm(c, m) ==
    /\ cmd[c].pc = "new"
    /\ cmd' = [cmd EXCEPT ![c] =
                 IF \E f \in Files : file[m][f] # None
                 THEN [@ EXCEPT !.model = m, !.pc = "unlink"]
                 ELSE Over("failed")]
    /\ UNCHANGED <<file, inode, registry, mutated, importVars, faults>>

Unlink(c, f, next) ==
    LET m == cmd[c].model IN
    /\ file' = [file EXCEPT ![m][f] = None]
    /\ mutated' = (mutated \/ file[m][f] # None)
    /\ cmd' = [cmd EXCEPT ![c].pc = next]
    /\ UNCHANGED <<inode, registry, importVars, faults>>

UnlinkWeights(c) == cmd[c].pc = "unlink" /\ Unlink(c, "dec", "unlinkExtra")
UnlinkExtra(c) == cmd[c].pc = "unlinkExtra" /\ Unlink(c, "extra", "removed")

(* add_model_entry and cmd_rm rewrite the registry from what they read of  *)
(* it.  g_registry_mutex orders the threads of one process.                *)
ReadRegistry(c) ==
    /\ cmd[c].pc \in {"pulled", "removed"}
    /\ cmd' = [cmd EXCEPT ![c] = [@ EXCEPT !.entries = registry,
                 !.pc = IF cmd[c].pc = "pulled" THEN "save" ELSE "drop"]]
    /\ UNCHANGED <<file, inode, registry, mutated, importVars, faults>>

(* write_state_file: a temporary file, then rename. *)
WriteRegistry(c) ==
    LET others == cmd[c].entries \ {cmd[c].model} IN
    /\ cmd[c].pc \in {"save", "drop"}
    /\ registry' = IF cmd[c].pc = "save" THEN others \cup {cmd[c].model}
                   ELSE others
    /\ cmd' = [cmd EXCEPT ![c] = [Over("done") EXCEPT !.model = cmd[c].model]]
    /\ UNCHANGED <<file, inode, mutated, importVars, faults>>

(* SIGKILL: the handler of SIGINT and SIGTERM only sets a flag that these  *)
(* commands do not look at.                                                *)
Killed(c) ==
    /\ cmd[c].pc \notin {"new", "done", "failed", "unused"}
    /\ faults < MaxFaults /\ faults' = faults + 1
    /\ cmd' = [cmd EXCEPT ![c] = Over("failed")]
    /\ UNCHANGED <<file, inode, registry, mutated, importVars>>

------------------------------------------------------------------------------
(* dir_has_model: on the node that converts, on the one that imports. *)
Has(m) == file[m]["extra"] # None
Imported(m) == final[m]["extra"] # None

(* handle_import_model: a peer asks for the import, whatever is there. *)
BeginImport(i, m) ==
    /\ imp[i].pc = "new"
    /\ imp' = [imp EXCEPT ![i] = [@ EXCEPT !.pc = "list", !.model = m]]
    /\ UNCHANGED <<part, final, copy, commandVars, faults>>

(* handle_start_model: only a model that is missing is imported, from a    *)
(* peer that shows it.                                                     *)
BeginStart(i, m) ==
    /\ imp[i].pc = "new"
    /\ imp' = [imp EXCEPT ![i] = [@ EXCEPT !.model = m,
                 !.pc = IF Imported(m) THEN "present"
                        ELSE IF Has(m) THEN "list" ELSE "failed"]]
    /\ UNCHANGED <<part, final, copy, commandVars, faults>>

(* GET /node/files/<model>: names and sizes, in the order of the names. *)
Listed(m) ==
    LET there(f) == IF file[m][f] = None THEN <<>> ELSE <<f>>
    IN  there(Names[1]) \o there(Names[2]) \o there(Names[3])
SizeOf(m, f) == IF file[m][f] = None THEN 0 ELSE inode[m][f][file[m][f]].len

GetList(i) ==
    LET m == imp[i].model IN
    /\ imp[i].pc = "list"
    /\ imp' = [imp EXCEPT ![i] =
                 IF Has(m)
                 THEN [@ EXCEPT !.pc = "get", !.left = Listed(m),
                                !.size = [f \in Files |-> SizeOf(m, f)]]
                 ELSE [@ EXCEPT !.pc = "failed"]]
    /\ UNCHANGED <<part, final, copy, commandVars, faults>>

(* A download that failed removes the temporary file, whosever it is. *)
GiveUpImport(i) ==
    LET m == imp[i].model  f == Head(imp[i].left) IN
    /\ part' = [part EXCEPT ![m][f] = None]
    /\ imp' = [imp EXCEPT ![i] =
                 [NewImport EXCEPT !.pc = "failed"]]
    /\ UNCHANGED <<final, commandVars>>

(* The next file: its temporary file is truncated when it is there         *)
(* already, and then it is the one of another import.  The source          *)
(* (handle_file_stream) announces the size of the file, which the content  *)
(* provider opens: from is the file it reads, or would have read by now.   *)
GetFile(i) ==
    LET m == imp[i].model  f == Head(imp[i].left)
        o == IF part[m][f] = None THEN i ELSE part[m][f] IN
    /\ imp[i].pc = "get" /\ file[m][f] # None
    /\ part' = [part EXCEPT ![m][f] = o]
    /\ copy' = [copy EXCEPT ![o][f] = Empty]
    /\ imp' = [imp EXCEPT ![i] =
                 [@ EXCEPT !.pc = "stream", !.to = o, !.from = file[m][f],
                           !.announced = SizeOf(m, f)]]
    /\ UNCHANGED <<final, commandVars, faults>>

FileNotFound(i) ==
    LET m == imp[i].model  f == Head(imp[i].left) IN
    /\ imp[i].pc = "get" /\ file[m][f] = None
    /\ copy' = [o \in Imports |->
                 IF o = part[m][f] THEN [copy[o] EXCEPT ![f] = Empty] ELSE copy[o]]
    /\ GiveUpImport(i) /\ UNCHANGED faults

\* Mutant: as long as the file goes on, whatever was announced.
StreamChunk_ToTheEnd(i) ==
    LET m == imp[i].model  f == Head(imp[i].left)
        source == inode[m][f][imp[i].from]  k == imp[i].got + 1 IN
    /\ imp[i].pc = "stream" /\ k <= source.len
    /\ copy' = [copy EXCEPT ![imp[i].to][f] = Copied(@, k, source)]
    /\ imp' = [imp EXCEPT ![i].got = k]
    /\ UNCHANGED <<part, final, commandVars, faults>>

\* Mutant: the temporary file is opened to append.
StreamChunk_Appends(i) ==
    LET m == imp[i].model  f == Head(imp[i].left)
        source == inode[m][f][imp[i].from]  k == imp[i].got + 1 IN
    /\ imp[i].pc = "stream" /\ k <= imp[i].announced /\ k <= source.len
    /\ copy' = [copy EXCEPT ![imp[i].to][f] = Put(@, @.len + 1)]
    /\ imp' = [imp EXCEPT ![i].got = k]
    /\ UNCHANGED <<part, final, commandVars, faults>>

StreamChunk(i) ==
    LET m == imp[i].model  f == Head(imp[i].left)
        source == inode[m][f][imp[i].from]  k == imp[i].got + 1 IN
    /\ imp[i].pc = "stream"
    /\ k <= imp[i].announced /\ k <= source.len
    /\ copy' = [copy EXCEPT ![imp[i].to][f] = Copied(@, k, source)]
    /\ imp' = [imp EXCEPT ![i].got = k]
    /\ UNCHANGED <<part, final, commandVars, faults>>

(* The content provider opens the file by its name: for the first chunk,   *)
(* and again for the rest each time it comes to the end of a file that is  *)
(* shorter than announced.  Meanwhile the name may lead to another file.   *)
Opens(i) ==
    /\ imp[i].pc = "stream" /\ imp[i].got < imp[i].announced
    /\ \/ imp[i].got = 0
       \/ imp[i].got >= inode[imp[i].model][Head(imp[i].left)][imp[i].from].len

OpenSource(i) ==
    LET now == file[imp[i].model][Head(imp[i].left)] IN
    /\ Opens(i) /\ now \notin {None, imp[i].from}
    /\ imp' = [imp EXCEPT ![i].from = now]
    /\ UNCHANGED <<part, final, copy, commandVars, faults>>

(* The file cannot be opened any more: the answer is broken off. *)
SourceGone(i) ==
    /\ Opens(i) /\ file[imp[i].model][Head(imp[i].left)] = None
    /\ GiveUpImport(i) /\ UNCHANGED <<copy, faults>>

\* Mutant: the client has no read timeout.
StreamStalls_Waits(i) == imp[i].pc = "stream" /\ UNCHANGED vars

(* The file was truncated after its size was announced: the server sends   *)
(* nothing more and the client's read timeout ends the transfer.           *)
StreamStalls(i) ==
    LET source == inode[imp[i].model][Head(imp[i].left)][imp[i].from] IN
    /\ imp[i].pc = "stream"
    /\ imp[i].got < imp[i].announced /\ imp[i].got >= source.len
    /\ GiveUpImport(i) /\ UNCHANGED <<copy, faults>>

StreamBreaks(i) ==
    /\ imp[i].pc = "stream" /\ imp[i].got < imp[i].announced
    /\ faults < MaxFaults /\ faults' = faults + 1
    /\ GiveUpImport(i) /\ UNCHANGED copy

(* All bytes announced have come: they have to be as many as were listed.  *)
WrongSize(i) ==
    /\ imp[i].pc = "stream" /\ imp[i].got = imp[i].announced
    /\ imp[i].got # imp[i].size[Head(imp[i].left)]
    /\ GiveUpImport(i) /\ UNCHANGED <<copy, faults>>

(* The rename: its result is not looked at. *)
Rename(m, f) ==
    IF part[m][f] = None THEN UNCHANGED <<part, final>>
    ELSE /\ final' = [final EXCEPT ![m][f] = part[m][f]]
         /\ part' = [part EXCEPT ![m][f] = None]

NextFile(i) ==
    imp' = [imp EXCEPT ![i] =
              [@ EXCEPT !.pc = IF Len(imp[i].left) = 1 THEN "ok" ELSE "get",
                        !.left = Tail(imp[i].left), !.to = None, !.from = None,
                        !.announced = 0, !.got = 0]]

KeepFile(i) ==
    /\ imp[i].pc = "stream" /\ imp[i].got = imp[i].announced
    /\ imp[i].got = imp[i].size[Head(imp[i].left)]
    /\ Rename(imp[i].model, Head(imp[i].left))
    /\ NextFile(i)
    /\ UNCHANGED <<copy, commandVars, faults>>

------------------------------------------------------------------------------
Command(c) ==
    \/ \E m \in Models : BeginPull(c, m) \/ BeginRm(c, m)
    \/ PullFails(c) \/ WeightsFail(c) \/ OpenOutput(c) \/ WriteOutput(c) \/ OutputFails(c)
    \/ UnlinkWeights(c) \/ UnlinkExtra(c)
    \/ ReadRegistry(c) \/ WriteRegistry(c) \/ Killed(c)

(* What a thread serving an import does by itself once the call has come. *)
Transfer(i) ==
    \/ GetList(i) \/ GetFile(i) \/ FileNotFound(i)
    \/ OpenSource(i) \/ SourceGone(i)
    \/ StreamChunk(i) \/ StreamStalls(i) \/ WrongSize(i) \/ KeepFile(i)

Import(i) ==
    \/ \E m \in Models : BeginImport(i, m) \/ BeginStart(i, m)
    \/ Transfer(i) \/ StreamBreaks(i)

Next == (\E c \in Commands : Command(c)) \/ (\E i \in Imports : Import(i))

Spec == Init /\ [][Next]_vars

(* The threads of the two servers run. *)
FairSpec == Spec /\ \A i \in Imports : WF_vars(Transfer(i))

------------------------------------------------------------------------------
(* What the code around these steps relies on.  "Model files are immutable *)
(* after conversion" (node.cpp:200) is the assumption of the node daemon:  *)
(* mutated says that a command broke it.                                   *)
NoImportFailed == \A i \in Imports : imp[i].pc # "failed"
AllEnded == \A i \in Imports : imp[i].pc \notin {"list", "get", "stream"}

(* Where model_extra.bin is, which is what dir_has_model looks at, the     *)
(* weights are whole: on the converting node because it is written last,   *)
(* on the importing one because it sorts after them; there, as long as no  *)
(* import has failed, two of them may even share their temporary files.    *)
MarkerImpliesWeights ==
    ~mutated => \A m \in Models :
        /\ Has(m) => /\ file[m]["dec"] # None
                     /\ inode[m]["dec"][file[m]["dec"]] = Whole("dec")
        /\ Imported(m) /\ NoImportFailed => final[m]["dec"] # None

(* When every import of a model has ended well, and the source had been    *)
(* converted before they listed it, the files here are those of the        *)
(* source, although the imports may have written into one another's        *)
(* temporary files and renamed them for each other.                        *)
ImportsLeaveWholeFiles ==
    /\ ~mutated /\ NoImportFailed /\ AllEnded
    /\ \A i \in Imports : imp[i].pc = "ok" =>
        \A f \in Files : imp[i].size[f] = Chunks[f]
    => \A i \in Imports : imp[i].pc = "ok" =>
        \A f \in Files : LET o == final[imp[i].model][f] IN
            o # None /\ copy[o][f] = Whole(f)

(* A model in the registry has its two files, whole: an entry is written   *)
(* after the conversion has succeeded, whatever failed or was killed.      *)
RegisteredIsWhole ==
    ~mutated => \A m \in registry : \A f \in {"dec", "extra"} :
        file[m][f] # None /\ inode[m][f][file[m][f]] = Whole(f)

(* Every import ends: truncated files, broken connections and refusals     *)
(* included.                                                               *)
EveryImportEnds ==
    \A i \in Imports : [](imp[i].pc = "list"
                            => <>(imp[i].pc \in {"ok", "failed"}))
=============================================================================
