------------------------------- MODULE Paths -------------------------------
(***************************************************************************)
(* Names: canonify in PuttyLib/putty/psftp.c, which makes the argument of  *)
(* a command an absolute path, and the lists of extensions for executables *)
(* (Server::configure) and for text files (verb MODE).                     *)
(*                                                                         *)
(* An absolute path is the sequence of what is between its slashes, so "/" *)
(* is <<"">>, "/a/" is <<"a", "">> and "//" is <<"", "">>.                 *)
(***************************************************************************)
EXTENDS Naturals, Sequences, SequencesExt

CONSTANTS
  Parts,         \* what a path is made of
  Places,        \* what exists on the server, as paths without links
  Links,         \* symbolic links, a set of pairs: place, target
  MaxParts       \* bounds the parts of a path

Nowhere == <<"?">>

(* What exists has a directory that exists, and nothing is called "?".     *)
ASSUME PathsAssumption ==
  /\ "?" \notin Parts
  /\ Places \subseteq Seq(Parts \ {"", ".", ".."}) /\ <<>> \in Places
  /\ \A place \in Places : place # <<>> => Front(place) \in Places
  /\ \A l \in Links : l[1] \notin Places /\ l[2] \in Places
  /\ MaxParts \in Nat

Arguments == UNION { [1 .. n -> Parts] : n \in 1 .. MaxParts }

(* What the server makes of a path: nothing if a part of it does not       *)
(* exist; some servers let the last one not exist.                         *)
Enter(place, part) ==
  IF place = Nowhere THEN Nowhere
  ELSE IF part \in {"", "."} THEN place
  ELSE IF part = ".." THEN IF place = <<>> THEN <<>> ELSE Front(place)
  ELSE LET next == Append(place, part)
           target == { l[2] : l \in { k \in Links : k[1] = next } }
       IN IF target # {} THEN CHOOSE t \in target : TRUE
          ELSE IF next \in Places THEN next ELSE Nowhere

Resolve(path) == FoldLeft(Enter, <<>>, path)

Realpath(path, lenient) ==
  LET whole == Resolve(path) IN
  IF whole # Nowhere \/ ~lenient \/ path = <<>> THEN whole
  ELSE LET parent == Resolve(Front(path))
       IN IF parent = Nowhere \/ Last(path) \in {"", ".", ".."} THEN Nowhere
          ELSE Append(parent, Last(path))

(* The path that canonify asks for first. *)
FullName(pwd, absolute, name) == IF absolute THEN name ELSE pwd \o name

(* The trailing slash is stripped, unless it is at the beginning. *)
Stripped(path) ==
  IF Len(path) > 1 /\ Last(path) = "" /\ path # <<"", "">> THEN Front(path)
  ELSE path

(* Slip: the last component is not put back. *)
Rejoined_ParentOnly(parent, last) == parent
Rejoined(parent, last) == Append(parent, last)

CanonName(full, lenient) ==
  LET whole == Realpath(full, lenient)
      path == Stripped(full)
      parent == Realpath(Front(path), lenient)
  IN IF whole # Nowhere THEN whole
     ELSE IF Last(path) \in {".", ".."} \/ path = <<"">> \/ parent = Nowhere
     THEN path
     ELSE Rejoined(parent, Last(path))

-----------------------------------------------------------------------------
(* The name n for the path full: the place itself if it exists, a new part *)
(* of its directory if that exists, and else at least the same last part.  *)
Names(n, full) ==
  LET path == Stripped(full)
      parent == Resolve(Front(path))
  IN CASE Resolve(full) # Nowhere -> n = Resolve(full)
       [] Resolve(full) = Nowhere /\ parent # Nowhere /\ Last(path) \notin {".", ".."}
            -> n = Append(parent, Last(path))
       [] OTHER -> Last(n) = Last(path)

-----------------------------------------------------------------------------
(* Lists of extensions, of the characters '.', ' ' and letters.            *)
Characters == {".", " ", "a", "b"}
Separators == {".", " "}

(* Slip: the separator becomes the first character of the next word. *)
NextStart_AtDot(list, i) == IF list[i] = "." THEN i ELSE i + 1
NextStart(list, i) == i + 1

(* configure: the words of exeExtensions.                                  *)
SplitExe(list, st, i) ==
  IF list[i] \notin Separators THEN st
  ELSE [start |-> NextStart(list, i),
        words |-> st.words \cup { SubSeq(list, st.start, i - 1) :
                                    n \in {st.start} \cap (1 .. i - 1) }]

ExeExtensions(list) ==
  LET end == FoldLeftDomain(LAMBDA st, i : SplitExe(list, st, i),
                            [start |-> 1, words |-> {}], list)
  IN end.words \cup { SubSeq(list, end.start, Len(list)) :
                        n \in {end.start} \cap (1 .. Len(list)) }

(* MODE X: a word begins at its last dot; without one, start is -1 and     *)
(* substr throws.                                                          *)
SplitMode(list, st, i) ==
  CASE st.thrown -> st
    [] list[i] = "." -> [st EXCEPT !.start = i]
    [] list[i] = " " /\ st.start = 0 -> [st EXCEPT !.thrown = TRUE]
    [] list[i] = " " /\ st.start # 0 ->
         [st EXCEPT !.start = 0, !.words = @ \cup {SubSeq(list, st.start, i - 1)}]
    [] OTHER -> st

ModeExtensions(list) ==
  LET end == FoldLeftDomain(LAMBDA st, i : SplitMode(list, st, i),
                            [start |-> 0, words |-> {}, thrown |-> FALSE], list)
  IN [end EXCEPT !.words = IF end.thrown \/ end.start = 0 THEN @
                           ELSE @ \cup {SubSeq(list, end.start, Len(list))}]

(* substr(find_last_of('.')): the end of a name from its last dot, or {}.  *)
Extension(name) ==
  { SubSeq(name, i, Len(name)) :
      i \in { j \in DOMAIN name : name[j] = "." /\ \A k \in j + 1 .. Len(name) :
                                                     name[k] # "." } }

(* cmdPut: whether a file gets the permissions of executables.             *)
IsExecutable(list, name) == Extension(name) \cap ExeExtensions(list) # {}

(* doTransferAscii: whether a file is copied as text.                      *)
IsText(list, name) == Extension(name) \cap ModeExtensions(list).words # {}

-----------------------------------------------------------------------------
(* The words that are between the separators of a list.                    *)
WordsOf(list, separators) ==
  { SubSeq(list, b[1], b[2]) : b \in
      { c \in (DOMAIN list) \X (DOMAIN list) :
          /\ c[1] <= c[2]
          /\ \A k \in c[1] .. c[2] : list[k] \notin separators
          /\ c[1] > 1 => list[c[1] - 1] \in separators
          /\ c[2] < Len(list) => list[c[2] + 1] \in separators } }

WellFormed(list) ==
  /\ \A i \in DOMAIN list : list[i] = " " => i > 1 /\ list[i - 1] # " "
  /\ \A w \in WordsOf(list, {" "}) : w[1] = "."
=============================================================================
