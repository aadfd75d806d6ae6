-------------------------------- MODULE Text --------------------------------
(***************************************************************************)
(* The conversions of the plugin on bounded inputs: a text file that is    *)
(* uploaded step by step (AsciiUpload), and in one step the mode of chmod  *)
(* (Chmod), the argument of a command, a list of extensions (Paths), and   *)
(* the line of a command (CommandLine).                                    *)
(***************************************************************************)
EXTENDS AsciiUpload, Chmod, Paths, CommandLine

CONSTANTS
  OldPerms,      \* permissions that a file has
  Pwds,          \* working directories
  MaxList        \* bounds the length of a list of extensions

ASSUME TextAssumption ==
  /\ OldPerms \subseteq SUBSET AllBits
  /\ Pwds \subseteq Places
  /\ MaxList \in Nat

Lists == UNION { [1 .. n -> Characters] : n \in 0 .. MaxList }

VARIABLES
  input,         \* what is converted in one step, or text
  result         \* what it has become, or nothing yet

vars == <<ascii, input, result>>

Inputs ==
  [kind : {"chmod"}, old : OldPerms, mode : Modes]
    \cup [kind : {"path"}, pwd : Pwds, absolute : BOOLEAN, name : Arguments,
          lenient : BOOLEAN]
    \cup [kind : {"list"}, list : Lists]
    \cup [kind : {"command"}, how : {"quote"}, name : FileNames]
    \cup [kind : {"command"}, how : {"rm", "chmod"},
          name : { n \in FileNames : ~HasToken(n, {"\\*", "[\\]a]"}) }]

NoResult == [done |-> FALSE]
NoText ==
  /\ file = <<>> /\ pos = 0 /\ buffer = <<>> /\ p = 1 /\ q = 1
  /\ lastIs0D = FALSE /\ sent = <<>> /\ state = "sent"

Init ==
  /\ result = NoResult
  /\ \/ AsciiInit /\ input = [kind |-> "text"]
     \/ NoText /\ input \in Inputs

Upload == input.kind = "text" /\ AsciiNext /\ UNCHANGED <<input, result>>

Yields(kind, value) ==
  /\ input.kind = kind /\ ~result.done
  /\ result' = [done |-> TRUE, value |-> value]
  /\ UNCHANGED <<ascii, input>>

(* sftp_cmd_chmod, sftp_action_chmod. *)
ChangeMode ==
  /\ input.kind = "chmod"
  /\ Yields("chmod", IF Accepted(input.mode)
                     THEN NewPerms(input.old, Masks(input.mode)) ELSE input.old)

Canonify ==
  /\ input.kind = "path"
  /\ Yields("path", CanonName(FullName(input.pwd, input.absolute, input.name),
                              input.lenient))

SplitLists ==
  /\ input.kind = "list"
  /\ Yields("list", [exe |-> ExeExtensions(input.list),
                     text |-> ModeExtensions(input.list)])

RunCommand ==
  /\ input.kind = "command"
  /\ Yields("command", Effect(input.how, input.name))

Done == (AsciiDone /\ (result.done \/ input.kind = "text")) /\ UNCHANGED vars

Next == Upload \/ ChangeMode \/ Canonify \/ SplitLists \/ RunCommand \/ Done

Spec == Init /\ [][Next]_vars

-----------------------------------------------------------------------------
Has(kind) == input.kind = kind /\ result.done

(* The two masks do to the permissions what the clauses of an accepted     *)
(* mode do one after the other, unless = follows another clause for the    *)
(* same bits; a mode that is refused changes nothing.                      *)
ModeIsApplied ==
  Has("chmod") =>
    IF ~Accepted(input.mode) THEN result.value = input.old
    ELSE Reassigns(input.mode) \/ result.value = OneByOne(input.old, input.mode)

(* ... whatever the order of the clauses. *)
ModeIsAppliedInOrder ==
  Has("chmod") /\ Accepted(input.mode) =>
    result.value = OneByOne(input.old, input.mode)

(* Whichever kind of server it asks, canonify yields the one canonical     *)
(* path of an argument whose last part need not exist, ".." after a link   *)
(* and a trailing slash included.                                          *)
CanonicalOnAllServers ==
  Has("path") =>
    Names(result.value, FullName(input.pwd, input.absolute, input.name))

(* The lists are split at exactly their separators, and a well-formed list *)
(* of text extensions never throws.                                        *)
ListsAreSplit ==
  Has("list") =>
    /\ result.value.exe = WordsOf(input.list, Separators)
    /\ WellFormed(input.list) =>
         /\ ~result.value.text.thrown
         /\ result.value.text.words =
              UNION { Extension(w) : w \in WordsOf(input.list, {" "}) }

(* A command acts on exactly the files that were meant: the one named in a *)
(* panel, unless its name has a character with a meaning of its own; what  *)
(* a quoted pattern stands for, unless it has a class without an end or is *)
(* nothing but quotes.                                                     *)
CommandFindsItsFiles ==
  Has("command") /\ (CASE input.how = "rm"    -> ~HasToken(input.name, {"*", "?", Quote})
                      [] input.how = "chmod" -> ~HasToken(input.name, {"*", "?", Quote, " "})
                      [] input.how = "quote" -> Sound(input.name))
    => result.value = Meant(input.how, input.name)

(* ... whatever the name. *)
CommandNamesItsFile ==
  Has("command") /\ input.how # "quote" =>
    result.value = Meant(input.how, input.name)

(* A file whose extension is in the list gets the permissions of           *)
(* executables.                                                            *)
ExecutablesAreSelected ==
  Has("list") => \A w \in WordsOf(input.list, Separators) :
                   IsExecutable(input.list, <<"b", ".">> \o w)
=============================================================================
