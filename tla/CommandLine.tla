----------------------------- MODULE CommandLine -----------------------------
(***************************************************************************)
(* From the name of a file to the files a command acts on: the lines that  *)
(* the plugin builds (tc_plugin/server.cpp, fsplugin.cpp), line2command,   *)
(* which splits them into words, wildcard_iterate                          *)
(* (PuttyLib/putty/psftp.c) and wc_match (PuttyLib/putty/wildcard.c).      *)
(*                                                                         *)
(* A name is made of tokens: a character, an escaped character or a class  *)
(* of characters.  A text is the sequence of the characters of its tokens. *)
(***************************************************************************)
EXTENDS Naturals, Sequences, SequencesExt, TLC

CONSTANTS
  Tokens,        \* what a name is made of
  MaxTokens,     \* bounds the tokens of a name
  Files          \* the other files of a directory, as texts

Quote == "\""
End == "0"                      \* the end of a string
Escape == "\\"

Spelling ==
  [c \in {"a", "b", "*", "?", "[", Quote, " "} |-> <<c>>]
    @@ ("\\*" :> <<Escape, "*">>)
    @@ ("[b-a]" :> <<"[", "b", "-", "a", "]">>)
    @@ ("[^a]" :> <<"[", "^", "a", "]">>)
    @@ ("[-a]" :> <<"[", "-", "a", "]">>)
    @@ ("[\\]a]" :> <<"[", Escape, "]", "a", "]">>)

ASSUME CommandLineAssumption == Tokens \subseteq DOMAIN Spelling /\ MaxTokens \in Nat

FileNames == UNION { [1 .. n -> Tokens] : n \in 1 .. MaxTokens }
TextOf(name) == FlattenSeq([i \in DOMAIN name |-> Spelling[name[i]]])

At(s, i) == IF i <= Len(s) THEN s[i] ELSE End

-----------------------------------------------------------------------------
(* The line.  Server::cmdRm quotes a whole path, FsExecuteFileW appends    *)
(* the bare name to a chmod after a cd; a user who quotes a command        *)
(* doubles the quotes of its arguments.                                    *)
Doubled(text) ==
  FlattenSeq([i \in DOMAIN text |-> IF text[i] = Quote THEN <<Quote, Quote>>
                                    ELSE <<text[i]>>])

RmLine(path) == <<"rm", " ", Quote>> \o path \o <<Quote>>
ChmodLine(text) == <<"chmod", " ", "mode", " ">> \o text

LineFor(how, text) ==
  CASE how = "rm"    -> RmLine(<<"/">> \o text)
    [] how = "chmod" -> ChmodLine(text)
    [] how = "quote" -> RmLine(Doubled(text))

(* line2command: one character after the other.                            *)
(* Slip: a pair of quotes ends one quoted part and begins another.         *)
IsPair_Never(line, i) == FALSE
IsPair(line, i) == line[i] = Quote /\ At(line, i + 1) = Quote

ReadChar(line, st, i) ==
  CASE st.skip -> [st EXCEPT !.skip = FALSE]
    [] ~st.skip /\ line[i] = " " /\ ~st.quoting ->
         [st EXCEPT !.words = IF st.open THEN Append(@, st.word) ELSE @,
                    !.word = <<>>, !.open = FALSE]
    [] ~st.skip /\ IsPair(line, i) ->
         [st EXCEPT !.word = Append(@, Quote), !.open = TRUE, !.skip = TRUE]
    [] ~st.skip /\ line[i] = Quote /\ ~IsPair(line, i) ->
         [st EXCEPT !.quoting = ~@, !.open = TRUE]
    [] OTHER -> [st EXCEPT !.word = Append(@, line[i]), !.open = TRUE]

WordsIn(line) ==
  LET st == FoldLeftDomain(LAMBDA s, i : ReadChar(line, s, i),
                           [words |-> <<>>, word |-> <<>>, open |-> FALSE,
                            quoting |-> FALSE, skip |-> FALSE], line)
  IN IF st.open THEN Append(st.words, st.word) ELSE st.words

(* The arguments that are file names: a mode comes first in a chmod.       *)
FileWords(words) ==
  SubSeq(words, IF words[1] = <<"chmod">> THEN 3 ELSE 2, Len(words))

-----------------------------------------------------------------------------
(* wc_unescape: [ and ] alone make no wildcard in this program.            *)
Unescape(word) ==
  FoldLeft(LAMBDA st, c :
             IF ~st.escaped /\ c = Escape THEN [st EXCEPT !.escaped = TRUE]
             ELSE [out |-> Append(st.out, c), escaped |-> FALSE,
                   wild |-> st.wild \/ (~st.escaped /\ c \in {"*", "?"})],
           [out |-> <<>>, escaped |-> FALSE, wild |-> FALSE], word)

(* Characters in the order of their codes.                                 *)
Ascii == <<" ", Quote, "*", "-", "?", "[", Escape, "]", "^", "a", "b">>
Code(c) == CHOOSE i \in DOMAIN Ascii : Ascii[i] = c
Between(c, x, y) ==
  (Code(x) <= Code(c) /\ Code(c) <= Code(y)) \/ (Code(y) <= Code(c) /\ Code(c) <= Code(x))

Failed(ret) == [ret |-> ret, i |-> 0, j |-> 0]

(* A class from w[first] on: where it ends, and whether c is in it.        *)
InClass(w, first, c) ==
  LET class[i \in 1 .. Len(w) + 1, matched \in BOOLEAN] ==
        LET skip(k) == IF At(w, k) = Escape THEN k + 1 ELSE k
            low == skip(i)
            high == skip(low + 2)
            range == At(w, low + 1) = "-"
        IN CASE At(w, i) = "]" -> [ok |-> TRUE, i |-> i + 1, in |-> matched]
             [] At(w, i) # "]" /\ (\/ At(w, low) = End
                                   \/ range /\ At(w, low + 2) = "]"
                                   \/ range /\ At(w, high) = End) ->
                  [ok |-> FALSE, i |-> 0, in |-> FALSE]
             [] OTHER ->
                  IF range
                  THEN class[high + 1, matched \/ Between(c, w[low], w[high])]
                  ELSE class[low + 1, matched \/ c = w[low]]
  IN class[first, FALSE]

(* wc_match_fragment: 1 and where it got to, 0, or -1 for a syntax error.  *)
Fragment(w, first, t, start) ==
  LET fragment[i \in 1 .. Len(w) + 1, j \in 1 .. Len(t) + 1] ==
        LET invert == At(w, i + 1) = "^"
            class == InClass(w, IF invert THEN i + 2 ELSE i + 1, t[j])
        IN CASE At(w, i) \in {End, "*"} -> [ret |-> 1, i |-> i, j |-> j]
             [] At(w, i) \notin {End, "*"} /\ At(t, j) = End -> Failed(0)
             [] OTHER ->
                  CASE w[i] = Escape ->
                         IF At(w, i + 1) = End THEN Failed(0 - 1)
                         ELSE IF w[i + 1] # t[j] THEN Failed(0)
                         ELSE fragment[i + 2, j + 1]
                    [] w[i] = "?" -> fragment[i + 1, j + 1]
                    [] w[i] = "[" ->
                         IF ~class.ok THEN Failed(0 - 1)
                         ELSE IF invert = class.in THEN Failed(0)
                         ELSE fragment[class.i, j + 1]
                    [] OTHER -> IF w[i] # t[j] THEN Failed(0)
                                ELSE fragment[i + 1, j + 1]
  IN fragment[first, start]

(* Where the last fragment has to begin, when it was found at j already.   *)
(* Slip: where it was found.                                               *)
LastPlace_First(t, j, r) == j
LastPlace(t, j, r) == Len(t) + 1 - (r.j - j)

(* wc_match from a star on: a fragment is looked for in its first place.   *)
Stars(w, first, t, start) ==
  LET stars[i \in 1 .. Len(w) + 1, j \in 1 .. Len(t) + 1] ==
        LET r == Fragment(w, i, t, j)
        IN CASE At(w, i) = "*" -> stars[i + 1, j]
             [] At(w, i) = End -> 1
             [] At(w, i) \notin {"*", End} /\ At(t, j) = End -> 0
             [] OTHER ->
                  CASE r.ret = 0 -> stars[i, j + 1]
                    [] r.ret = 0 - 1 -> 0 - 1
                    [] r.ret = 1 /\ At(w, r.i) # End -> stars[r.i, r.j]
                    [] r.ret = 1 /\ At(w, r.i) = End ->
                         IF At(t, r.j) = End THEN 1
                         ELSE Fragment(w, i, t, LastPlace(t, j, r)).ret
  IN stars[first, start]

WcMatch(w, t) ==
  LET r == IF At(w, 1) = "*" THEN [ret |-> 1, i |-> 1, j |-> 1] ELSE Fragment(w, 1, t, 1)
  IN CASE r.ret # 1 -> r.ret
       [] r.ret = 1 /\ At(w, r.i) = End -> IF At(t, r.j) = End THEN 1 ELSE 0
       [] OTHER -> Stars(w, r.i, t, r.j)

(* sftp_wildcard_get_filename takes a syntax error for a match.            *)
Selected(w, t) == WcMatch(w, t) # 0

-----------------------------------------------------------------------------
(* The directory of a word and what comes after its slash.                 *)
Place(word) == IF At(word, 1) = "/" THEN "root" ELSE "current"
Base(word) == IF At(word, 1) = "/" THEN Tail(word) ELSE word

(* wildcard_iterate with an action that succeeds for files that exist.     *)
Iterate(word, files) ==
  LET whole == Unescape(Base(word)) IN
  IF whole.wild
  THEN [acted |-> { <<Place(word), f>> : f \in { g \in files : Selected(Base(word), g) } },
        ok |-> TRUE]
  ELSE [acted |-> { <<Place(word), f>> : f \in files \cap {whole.out} },
        ok |-> whole.out \in files]

(* sftp_cmd_rm, sftp_cmd_chmod: all arguments, whatever becomes of one.    *)
Run(words, files) ==
  LET done == { Iterate(FileWords(words)[i], files) : i \in DOMAIN FileWords(words) }
  IN [acted |-> UNION { d.acted : d \in done }, ok |-> \A d \in done : d.ok]

FilesWith(how, name) == IF how = "quote" THEN Files ELSE Files \cup {TextOf(name)}

Effect(how, name) == Run(WordsIn(LineFor(how, TextOf(name))), FilesWith(how, name))

-----------------------------------------------------------------------------
(* What a pattern stands for: each token for one character of a set, or    *)
(* for any number of any.                                                  *)
Character(token, c) ==
  CASE token = "?"      -> TRUE
    [] token = "[b-a]"  -> c \in {"a", "b"}
    [] token = "[^a]"   -> c # "a"
    [] token = "[-a]"   -> c \in {"-", "a"}
    [] token = "[\\]a]" -> c \in {"]", "a"}
    [] token = "\\*"    -> c = "*"
    [] OTHER            -> c = token

Like(name, text) ==
  LET like[i \in 1 .. Len(name) + 1, j \in 1 .. Len(text) + 1] ==
        IF i > Len(name) THEN j > Len(text)
        ELSE IF name[i] = "*" THEN \E k \in j .. Len(text) + 1 : like[i + 1, k]
        ELSE j <= Len(text) /\ Character(name[i], text[j]) /\ like[i + 1, j + 1]
  IN like[1, 1]

HasToken(name, tokens) == \E i \in DOMAIN name : name[i] \in tokens

(* Only * and ? make a pattern.  One with a class that has no end, and a   *)
(* name of nothing but doubled quotes, have no meaning.                    *)
IsPattern(name) == HasToken(name, {"*", "?"})
Sound(name) ==
  /\ IsPattern(name) => ~HasToken(name, {"["})
  /\ \E i \in DOMAIN name : name[i] # Quote

(* A literal name, without the backslashes that escape.                    *)
Literally(name) == SelectSeq(TextOf(name), LAMBDA c : c # Escape)

(* The files that a command is about, and that it says it is done.         *)
Meant(how, name) ==
  LET place == IF how = "rm" THEN "root" ELSE "current"
      files == IF how # "quote" THEN {TextOf(name)}
               ELSE IF IsPattern(name) THEN { f \in Files : Like(name, f) }
               ELSE Files \cap {Literally(name)}
  IN [acted |-> { <<place, f>> : f \in files },
      ok |-> files # {} \/ IsPattern(name)]
=============================================================================
