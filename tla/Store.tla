------------------------------- MODULE Store -------------------------------
(***************************************************************************)
(* pkg/storage/store.go: the store in memory, the file it saves itself to, *)
(* and what a crash between any two steps leaves for the next NewStore.    *)
(* Every operation holds s.mu while it saves, so one save is under way at  *)
(* a time.  UpdateNodeRuntime does not save.  A crash is one of the        *)
(* program: what it wrote stays with the operating system.                 *)
(***************************************************************************)
EXTENDS StoreData

CONSTANTS Configs,       \* application settings
          DefaultConfig,
          NoWebPort,     \* the settings whose web_port is 0 (-port 0)
          NoFile, Torn   \* no such file; a file that json.Unmarshal refuses

ASSUME StoreAssumption ==
  /\ DefaultConfig \in Configs
  /\ NoWebPort \in Configs
  /\ NoWebPort # DefaultConfig

Data == [config : Configs, subs : SubscriptionMap, nodes : NodeMap]

ASSUME FileAssumption == {NoFile, Torn} \cap Data = {} /\ NoFile # Torn

Empty == [config |-> DefaultConfig, subs |-> << >>, nodes |-> << >>]

VARIABLES memory,   \* s.data; meaningless while the program is down
          file,     \* proxypool.json
          tmp,      \* proxypool.json.tmp
          stage,    \* where the program is in a save
          booting,  \* the save is NewStore's
          unsaved   \* history: the last save has failed

vars == <<memory, file, tmp, stage, booting, unsaved>>

TypeOK ==
  /\ memory \in Data
  /\ file \in Data \cup {NoFile, Torn}
  /\ tmp \in Data \cup {NoFile, Torn}
  /\ stage \in {"down", "ready", "write", "writing", "rename"}
  /\ booting \in BOOLEAN
  /\ unsaved \in BOOLEAN

Init ==
  /\ memory = Empty
  /\ file = NoFile
  /\ tmp = NoFile
  /\ stage = "down"
  /\ booting = FALSE
  /\ unsaved = FALSE

-----------------------------------------------------------------------------
(* NewStore and load.                                                      *)

Loaded(data) == IF data.config = NoWebPort THEN [data EXCEPT !.config = DefaultConfig] ELSE data

Load ==
  /\ stage = "down"
  /\ file \notin {NoFile, Torn}
  /\ memory' = Loaded(file)
  /\ stage' = "ready"
  /\ unsaved' = FALSE
  /\ UNCHANGED <<file, tmp, booting>>

\* No file yet: the default settings are saved first.
CreateFile ==
  /\ stage = "down"
  /\ file = NoFile
  /\ memory' = Empty
  /\ stage' = "write"
  /\ booting' = TRUE
  /\ UNCHANGED <<file, tmp, unsaved>>

-----------------------------------------------------------------------------
(* The operations, up to saveLocked.                                       *)

\* Mutant: an operation that does not save.
OperationUnsaved(data) ==
  /\ stage = "ready"
  /\ memory' = data
  /\ UNCHANGED <<file, tmp, stage, booting, unsaved>>

Operation(data) ==
  /\ stage = "ready"
  /\ memory' = data
  /\ stage' = "write"
  /\ UNCHANGED <<file, tmp, booting, unsaved>>

SavingOperation ==
  \/ \E s \in Subs, sub \in Subscription : Operation(SaveSubscription(memory, s, sub))
  \/ \E s \in Subs : Operation(DeleteSubscription(memory, s))
  \/ \E s \in Subs : \E S \in SUBSET NodesOf(s) \ {{}} : \E length \in Lengths(S) :
       Operation(ReplaceNodes(memory, s, S, length))
  \/ \E cfg \in Configs : Operation([memory EXCEPT !.config = cfg])

RuntimeUpdate(n, running) ==
  /\ stage = "ready"
  /\ memory' = UpdateNodeRuntime(memory, n, running)
  /\ UNCHANGED <<file, tmp, stage, booting, unsaved>>

-----------------------------------------------------------------------------
(* saveLocked: write the temporary file, then rename it.                   *)

\* Mutant: the temporary file is renamed before it is complete.
WriteBeginsAndRenames ==
  /\ stage = "write"
  /\ tmp' = Torn
  /\ stage' = "rename"
  /\ UNCHANGED <<memory, file, booting, unsaved>>

\* os.WriteFile truncates the file and then fills it.
WriteBegins ==
  /\ stage = "write"
  /\ tmp' = Torn
  /\ stage' = "writing"
  /\ UNCHANGED <<memory, file, booting, unsaved>>

WriteEnds ==
  /\ stage = "writing"
  /\ tmp' = memory
  /\ stage' = "rename"
  /\ UNCHANGED <<memory, file, booting, unsaved>>

Rename ==
  /\ stage = "rename"
  /\ file' = tmp
  /\ tmp' = NoFile
  /\ stage' = "ready"
  /\ booting' = FALSE
  /\ unsaved' = FALSE
  /\ UNCHANGED memory

\* The file cannot be opened, filled or renamed.  An operation returns the
\* error and leaves its change in memory; NewStore's error ends the program.
SaveFails ==
  /\ stage \in {"write", "writing", "rename"}
  /\ stage' = IF booting THEN "down" ELSE "ready"
  /\ booting' = FALSE
  /\ unsaved' = TRUE
  /\ UNCHANGED <<memory, file, tmp>>

Crash ==
  /\ stage # "down"
  /\ stage' = "down"
  /\ booting' = FALSE
  /\ UNCHANGED <<memory, file, tmp, unsaved>>

-----------------------------------------------------------------------------
Next ==
  \/ Load \/ CreateFile
  \/ SavingOperation
  \/ \E n \in Nodes, running \in BOOLEAN : RuntimeUpdate(n, running)
  \/ WriteBegins \/ WriteEnds \/ Rename \/ SaveFails
  \/ Crash

Spec == Init /\ [][Next]_vars

-----------------------------------------------------------------------------
(* Properties.                                                             *)

\* NewStore never refuses a file the program has written: whatever save a
\* crash interrupts, the program starts again (store.go:44-52, 88-93).
AlwaysLoads == file # Torn

\* What a restart brings back, the running flags aside.
Lasting(data) == [config |-> Loaded(data).config, subs |-> data.subs, known |-> DOMAIN data.nodes]

\* Between two operations a crash costs nothing but the nodes' runtime fields,
\* which UpdateNodeRuntime does not save, unless the last save has failed.
OnlyRuntimeIsLost ==
  stage = "ready" /\ ~unsaved => file # NoFile /\ Lasting(memory) = Lasting(file)

\* The operation under way when the program crashes is kept as a whole or not
\* at all, and nothing is kept that was not the store's content at one moment.
Durable == INSTANCE DurableStore
             WITH Fresh <- Empty, live <- memory,
                  kept <- IF file = NoFile THEN Empty ELSE file
StoreIsDurable == Durable!Spec
=============================================================================
