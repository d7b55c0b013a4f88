---------------------------- MODULE ReplacedFile ----------------------------
(***************************************************************************)
(* A file that is never changed in place: write_text() on a temporary file *)
(* of a fixed name, then os.replace().  DesktopSettingsStore._write() keeps*)
(* settings.json this way and save_scope() keeps scope.json.  Writers have *)
(* no lock, so two of them may have the same temporary file open; whoever  *)
(* has it open when it is replaced goes on writing into the file itself.   *)
(***************************************************************************)
CONSTANTS
    Writer,    \* threads that may write the file
    Content,   \* what the file may hold
    Nothing    \* what an absent file is read as

VARIABLES
    file,      \* the file
    temp,      \* the temporary file
    handle     \* which of them each writer has open

Blank(state) == [is |-> state, holds |-> Nothing]
Whole(content) == [is |-> "whole", holds |-> content]

FileState == {Blank(s) : s \in {"absent", "empty", "mixed"}} \cup {Whole(c) : c \in Content}
Handle == {"none", "temp", "file", "gone"}

\* An empty or mixed file is no JSON text, and whoever reads it raises.
Readable == file.is \in {"absent", "whole"}

FileInit ==
    /\ file = Blank("absent")
    /\ temp = Blank("absent")
    /\ handle = [w \in Writer |-> "none"]

FileTypeOK ==
    /\ file \in FileState
    /\ temp \in FileState
    /\ handle \in [Writer -> Handle]

\* A slip: the file itself is opened.
TruncateFile(w) ==
    /\ file' = Blank("empty")
    /\ handle' = [handle EXCEPT ![w] = "file"]
    /\ UNCHANGED temp

\* write_text() opens the temporary file and empties it ...
Truncate(w) ==
    /\ temp' = Blank("empty")
    /\ handle' = [handle EXCEPT ![w] = "temp"]
    /\ UNCHANGED file

\* What is left of a longer text that another writer put there follows the new one.
Filled(old, content) ==
    IF old.is = "empty" THEN {Whole(content)} ELSE {Whole(content), Blank("mixed")}

\* ... writes the text and closes what the handle has become by then.
Fill(w, content) ==
    /\ CASE handle[w] = "temp" -> temp' \in Filled(temp, content) /\ UNCHANGED file
         [] handle[w] = "file" -> file' \in Filled(file, content) /\ UNCHANGED temp
         [] OTHER -> UNCHANGED <<file, temp>>
    /\ handle' = [handle EXCEPT ![w] = "none"]

\* os.replace(); FileNotFoundError, and no change, when another writer was faster.
Replace ==
    /\ temp.is # "absent"
    /\ file' = temp
    /\ temp' = Blank("absent")
    /\ handle' = [w \in Writer |-> CASE handle[w] = "temp" -> "file"
                                     [] handle[w] = "file" -> "gone"
                                     [] OTHER -> handle[w]]

\* The request fails, or the process dies: what it had open is closed as it is.
Close(writers) ==
    /\ handle' = [w \in Writer |-> IF w \in writers THEN "none" ELSE handle[w]]
    /\ UNCHANGED <<file, temp>>

=============================================================================
