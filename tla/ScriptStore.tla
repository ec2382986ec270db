------------------------------ MODULE ScriptStore ------------------------------
(***************************************************************************)
(* The scripts partition: named Fennel files in one flat directory, which  *)
(* the console lists, loads, saves and deletes (scripts_storage.cpp) and   *)
(* of which one is evaluated at start (setup_lua, main.cpp).               *)
(*                                                                         *)
(* LittleFS is external: a rename is atomic, a file being written may be   *)
(* found in any state after a loss of power.  Only the HTTP worker writes, *)
(* one request at a time, so at most one save is in progress.              *)
(***************************************************************************)
EXTENDS Naturals, FiniteSets

CONSTANTS
  File,               \* file names
  Long, Odd, Dotted,  \* too long, with a character not allowed, led by a dot
  Staged,             \* the file a script is staged in: ".<name>.tmp"
  BootFile,           \* SCRIPTS_BOOT_FILENAME
  Text, Bytes,        \* complete texts and their lengths
  Absent, Torn,       \* no such file; a part of a text
  Failing,            \* texts whose evaluation fails
  Shipped,            \* the partition as it was flashed
  MaxScriptBytes, MaxScriptCount,
  BootCap             \* sizeof(bootBuf)

\* The whitelist of characters, the limit on the length, and no leading dot.
ScriptNameIsValid(name) == name \notin Long \cup Odd \cup Dotted

ValidName == {f \in File : ScriptNameIsValid(f)}

ASSUME ScriptAssumption ==
  /\ Long \cup Odd \cup Dotted \subseteq File
  /\ Staged \in [ValidName -> Dotted]
  /\ \A m, n \in ValidName : Staged[m] = Staged[n] => m = n
  /\ Bytes \in [Text -> Nat] /\ BootFile \in ValidName
  /\ {Absent, Torn} \cap Text = {} /\ Absent # Torn
  /\ Shipped \in [File -> Text \cup {Absent}]
  /\ \A f \in File : Shipped[f] # Absent => f \in ValidName

VARIABLES
  mounted, \* s_mounted
  files,   \* the partition
  saving,  \* scripts_storage_save in progress: [at, name, src]
  boot     \* what setup_lua did: "off", "blackout", "nothing", or [ran |-> text]

storeVars == <<mounted, files, saving, boot>>

NotSaving == [at |-> "none", name |-> BootFile, src |-> Absent]

StoreTypeOK ==
  /\ mounted \in BOOLEAN
  /\ files \in [File -> Text \cup {Absent, Torn}]
  /\ saving \in [at : {"none", "open", "short", "whole"}, name : ValidName, src : Text \cup {Absent}]

StoreInit ==
  /\ mounted = FALSE /\ boot = "off"
  /\ files = Shipped
  /\ saving = NotSaving

IsTempFile(f) == f \in {Staged[n] : n \in ValidName}

\* scripts_storage_list.
Listed == IF mounted THEN {f \in File : files[f] # Absent /\ ~IsTempFile(f)} ELSE {}

ScriptCount == Cardinality({f \in File : files[f] # Absent /\ ~IsTempFile(f)})

\* A file that fills the buffer is taken for one that was cut: it must be shorter.
Readable(f, cap) == mounted /\ files[f] \in Text /\ Bytes[files[f]] < cap

\* scripts_storage_load, or a text to answer with instead.
StoreLoad(name, cap, otherwise) ==
  IF ScriptNameIsValid(name) /\ Readable(name, cap) THEN files[name] ELSE otherwise

--------------------------------------------------------------------------------
(* setup_lua, at start.                                                        *)

\* A partition that does not mount, or a script that fails, darkens the rig;
\* no boot script, or one too long, does nothing.
SetUpLua ==
  /\ boot = "off"
  /\ mounted' \in BOOLEAN
  /\ boot' = CASE ~mounted' -> "blackout"
               [] mounted' /\ files[BootFile] \in Text /\ Bytes[files[BootFile]] < BootCap ->
                    IF files[BootFile] \in Failing THEN "blackout" ELSE "ran"
               [] OTHER -> "nothing"
  /\ UNCHANGED <<files, saving>>

--------------------------------------------------------------------------------
(* scripts_storage_save and scripts_storage_delete, on the HTTP worker.        *)

MaySave(name, src) ==
  /\ mounted /\ ScriptNameIsValid(name)
  /\ Bytes[src] <= MaxScriptBytes
  /\ files[name] = Absent => ScriptCount < MaxScriptCount

\* Saving in place, without staging.
SaveOpenInPlace(name, src) ==
  /\ saving.at = "none" /\ MaySave(name, src)
  /\ files' = [files EXCEPT ![name] = Torn]
  /\ saving' = [at |-> "open", name |-> name, src |-> src]
  /\ UNCHANGED <<mounted, boot>>

\* fopen empties the staged file.
SaveOpen(name, src) ==
  /\ saving.at = "none" /\ MaySave(name, src)
  /\ files' = [files EXCEPT ![Staged[name]] = Torn]
  /\ saving' = [at |-> "open", name |-> name, src |-> src]
  /\ UNCHANGED <<mounted, boot>>

\* fwrite and fclose; the partition may be full.
SaveWrite ==
  /\ saving.at = "open"
  /\ \/ /\ files' = [files EXCEPT ![Staged[saving.name]] = saving.src]
        /\ saving' = [saving EXCEPT !.at = "whole"]
     \/ /\ saving' = [saving EXCEPT !.at = "short"]
        /\ UNCHANGED files
  /\ UNCHANGED <<mounted, boot>>

\* rename over the script.
SaveRename ==
  /\ saving.at = "whole"
  /\ files' = [files EXCEPT ![saving.name] = files[Staged[saving.name]],
                            ![Staged[saving.name]] = Absent]
  /\ saving' = NotSaving
  /\ UNCHANGED <<mounted, boot>>

\* After a short write, or a rename that failed, the staged file is removed.
SaveRemove ==
  /\ saving.at \in {"short", "whole"}
  /\ files' = [files EXCEPT ![Staged[saving.name]] = Absent]
  /\ saving' = NotSaving
  /\ UNCHANGED <<mounted, boot>>

\* remove fails where there is nothing, or is refused.
Delete(name) ==
  /\ saving.at = "none"
  /\ files' = IF mounted /\ ScriptNameIsValid(name) THEN [files EXCEPT ![name] = Absent] ELSE files
  /\ UNCHANGED <<mounted, saving, boot>>

\* A save in progress is cut off where it is.
StorePowerLoss ==
  /\ mounted' = FALSE /\ boot' = "off" /\ saving' = NotSaving
  /\ UNCHANGED files

--------------------------------------------------------------------------------
\* Every script the device lists has a name it accepts and a complete text,
\* whenever a write came up short or the power failed: a save "never
\* partially overwrites the previous file's content" (scripts_storage.h).
ScriptsWhole ==
  \A f \in File : files[f] # Absent /\ ~IsTempFile(f) => f \in ValidName /\ files[f] \in Text

================================================================================
