------------------------------ MODULE FatName -------------------------------
(***************************************************************************)
(* The 8.3 names of one directory: gristle.c turns the name a client gives *)
(* into a short name (str_to_fatname), pads it to the eleven characters of *)
(* an entry (make_dos_name) and back for readdir (fatname_to_str).  What   *)
(* fat_open and fat_mkdir do to the directory is reduced to its entries.   *)
(*                                                                         *)
(* A name is a sequence of characters, a character a string; only the      *)
(* classes that doschar tells apart are kept: "a", "b" are small letters,  *)
(* "*" any illegal character, "x05" and "xE5" the codes 0x05 and 0xE5.     *)
(***************************************************************************)
EXTENDS Integers, Sequences, SequencesExt, FiniteSetsExt

CONSTANTS GivenNames,   \* the names clients use, not empty and without "/"
          Stale,        \* what an unassigned byte of the stack may hold
          MaxMade       \* bound on the entries made

VARIABLES entries,      \* the directory: its entries in order
          call          \* the last call: its name, its result

nameVars == <<entries, call>>

End == "end"            \* the terminating NUL

At(s, i) == IF i < Len(s) THEN s[i + 1] ELSE End        \* C's s[i]

\* Mutant: small letters kept as they are.
doscharAsGiven(c) ==
  CASE c = "\\" -> "/" [] c = "xE5" -> "x05" [] c = "x05" -> "*" [] OTHER -> c

\* "*" stands for the code 1 too, with which doschar reports an illegal character.
doschar(c) ==
  CASE c = "a"  -> "A"
    [] c = "b"  -> "B"
    [] c = "\\" -> "/"
    [] c = "xE5" -> "x05"
    [] c = "x05" -> "*"
    [] OTHER -> c

Fold(s) == [i \in 1..Len(s) |-> doschar(s[i])]
Illegal == <<"*">>                                       \* both calls failing
First(s, n) == SubSeq(s, 1, Min({n, Len(s)}))
Pad(s, n) == [i \in 1..n |-> IF i <= Len(s) THEN s[i] ELSE " "]

-----------------------------------------------------------------------------
\* Where the extension's dot is: the last one that is neither the first nor the
\* last character; a final dot hides the others.
DotOf(url) ==
  IF url[Len(url)] = "." THEN 0
  ELSE Max({0} \cup {i \in 2..Len(url) - 1 : url[i] = "."})

\* The short name: at most eight characters up to the first dot, or six of them
\* and "~1", then a dot and at most three characters of the extension.  The loop
\* over the base returns at the end of the string, without the dot.
str_to_fatname(url) ==
  LET n     == Len(url)
      ext   == IF DotOf(url) = 0 THEN <<>> ELSE SubSeq(url, DotOf(url) + 1, n)
      len   == IF DotOf(url) # 0 THEN DotOf(url) - 1
               ELSE IF url[n] = "." THEN n - 1 ELSE n
      short == len > 8 \/ Len(ext) > 3
      room  == IF short THEN 6 ELSE 8
      stop  == Min({room + 1, n + 1} \cup {i \in 1..n : doschar(url[i]) \in {".", "*"}})
      base  == Fold(SubSeq(url, 1, stop - 1))
      tail  == Fold(First(ext, 3))
  IN  CASE stop <= room /\ stop <= n /\ doschar(url[stop]) = "*" -> Illegal
        [] stop <= room /\ stop = n + 1 -> base
        [] OTHER -> IF "*" \in Range(tail) THEN Illegal
                    ELSE base \o (IF short THEN <<"~", "1">> ELSE <<>>)
                              \o <<".">> \o tail

\* One turn of make_dos_name's loop over the eight characters of the base; at
\* counts the characters of path that are done, so c is the one at path[at].
\* A single character before a dot leaves dosname[1] as it was on the stack.
BaseTurn(path, junk, s, i) ==
  LET c == doschar(At(path, s.at))
      put(x) == [s EXCEPT !.out = Append(@, x)]
      take(x) == [s EXCEPT !.out = Append(@, x), !.at = @ + 1]
  IN  CASE c \in {"/", End} -> put(" ")
        [] c = "." /\ i = 1 -> take(".")
        [] c = "." /\ i = 2 ->
             IF doschar(At(path, s.at + 1)) \in {"/", End} THEN take(".") ELSE put(junk)
        [] c = "." /\ i > 2 -> put(" ")
        [] c = "*" -> [put("*") EXCEPT !.bad = TRUE]
        [] OTHER -> take(c)

\* The eleven characters of the entry, or Illegal.
make_dos_name(path, junk) ==
  LET b   == FoldLeft(LAMBDA s, i : BaseTurn(path, junk, s, i),
                      [out |-> <<>>, at |-> 0, bad |-> FALSE],
                      [i \in 1..8 |-> i])
      c   == doschar(At(path, b.at))
      dot == IF c = "." THEN b.at                        \* where the extension's
             ELSE IF c \in {"/", End} THEN -1            \* dot is; none (-1); or
             ELSE b.at + 1                               \* behind a ninth one
      d   == doschar(At(path, dot))
      all == Fold([i \in 1..4 |-> At(path, dot + i)])
      end == Min({4} \cup {i \in 1..4 : all[i] \in {"/", End}})
      ext == SubSeq(all, 1, end - 1)
  IN  CASE b.bad -> Illegal
        [] dot = -1 \/ d \in {"/", End} -> Pad(b.out, 11)
        [] d # "." \/ {"*", "."} \cap Range(ext) # {} -> Illegal
        [] all[end] \notin {"/", End} -> Illegal
        [] OTHER -> b.out \o Pad(ext, 3)

\* Mutant: the padding left out, but no dot put in.
fatname_to_strBare(dos) == LET used(c) == c # " " IN SelectSeq(dos, used)

\* The name readdir shows for an entry.
fatname_to_str(dos) ==
  LET used(c) == c # " "
      ext == SubSeq(dos, 9, 11)
      end == Min({4} \cup {i \in 1..3 : ext[i] = " "})
  IN  SelectSeq(SubSeq(dos, 1, 8), used)
        \o IF end = 1 THEN <<>> ELSE <<".">> \o SubSeq(ext, 1, end - 1)

\* The entry fat_lookup_path compares a path element with.
DosOf(name, junk) ==
  IF str_to_fatname(name) = Illegal THEN Illegal
  ELSE make_dos_name(str_to_fatname(name), junk)

\* Mutant: the given name copied instead of the short one.
MkdirDosGiven(name) == Pad(First(name, 8), 11)

\* The entry fat_mkdir writes: eight characters of the short name, its dot
\* included, and no extension.
MkdirDos(name) == Pad(First(str_to_fatname(name), 8), 11)

\* The same of the given names, tabulated: TLC evaluates a constant once.
GivenDos == [name \in GivenNames, junk \in Stale |-> DosOf(name, junk)]

-----------------------------------------------------------------------------
\* The first entry with the name, 0 if there is none.
Found(es, dos) == LET at == {i \in DOMAIN es : es[i].dos = dos}
                  IN  IF at = {} THEN 0 ELSE Min(at)

\* by is the call that made the entry; what it leads to holds data, nothing yet,
\* or the first two entries of a directory.
Entry(dos, name, by, holds) == [dos |-> dos, name |-> name, by |-> by, holds |-> holds]
IsDirectory(e) == e.by # "open"
Result(op, name, res, at) ==
  [op |-> op, name |-> name, res |-> res, at |-> at, of |-> 0]

\* A subdirectory with its first two entries.
NameInit ==
  /\ entries = << Entry(Pad(<<".">>, 11), <<".">>, "dot", "dots"),
                  Entry(Pad(<<".", ".">>, 11), <<".", ".">>, "dotdot", "dots") >>
  /\ call = Result("none", <<>>, "ok", 0)

\* fat_open with O_CREAT for writing, a write and fat_close.  A directory is not
\* opened for writing.
Open(name) == \E junk \in Stale :
  LET dos == GivenDos[name, junk]
      at  == Found(entries, dos)
  IN  IF dos = Illegal
      THEN call' = Result("open", name, "EIO", 0) /\ UNCHANGED entries
      ELSE IF at # 0
      THEN /\ call' = Result("open", name, IF IsDirectory(entries[at]) THEN "EISDIR" ELSE "ok", at)
           /\ UNCHANGED entries
      ELSE /\ Len(entries) < MaxMade + 2
           /\ entries' = Append(entries, Entry(dos, name, "open", "data"))
           /\ call' = Result("open", name, "ok", Len(entries) + 1)

\* fat_mkdir: it writes the entry, whatever the directory holds already, looks
\* the name up again and puts the first two entries of the new directory into
\* what it finds, which may be an older file or directory.
Mkdir(name) == \E junk \in Stale :
  IF str_to_fatname(name) = Illegal
  THEN call' = Result("mkdir", name, "ENAMETOOLONG", 0) /\ UNCHANGED entries
  ELSE /\ Len(entries) < MaxMade + 2
       /\ LET made == Append(entries, Entry(MkdirDos(name), name, "mkdir", "nothing"))
              dos  == GivenDos[name, junk]
              at   == IF dos = Illegal THEN 0 ELSE Found(made, dos)
          IN  /\ entries' = IF at = 0 THEN made ELSE [made EXCEPT ![at].holds = "dots"]
              /\ call' = Result("mkdir", name,
                                IF dos = Illegal THEN "EIO"
                                ELSE IF at = 0 THEN "ENOENT" ELSE "ok", at)

\* A client reads the directory and opens what an entry is shown as.
OpenListed(i) == \E junk \in Stale :
  LET name == fatname_to_str(entries[i].dos)
      dos  == DosOf(name, junk)
      at   == IF dos = Illegal THEN 0 ELSE Found(entries, dos)
  IN  /\ call' = [Result("listed", name, IF at = 0 THEN "ENOENT" ELSE "ok", at)
                    EXCEPT !.of = i]
      /\ UNCHANGED entries

NameNext ==
  \/ \E name \in GivenNames : Open(name) \/ Mkdir(name)
  \/ \E i \in DOMAIN entries \ {1, 2} : OpenListed(i)

-----------------------------------------------------------------------------
\* The part of a plain name in front of its dot, and behind it.
DotAt(name) == Min({Len(name) + 1} \cup {i \in DOMAIN name : name[i] = "."})
Stem(name) == SubSeq(name, 1, DotAt(name) - 1)
Ext(name)  == SubSeq(name, DotAt(name) + 1, Len(name))
Letters == {"a", "b", "A", "B"}

\* A plain 8.3 name: letters, and one dot at most.  A single character in front
\* of a dot is not among them: make_dos_name takes a final dot there for a part
\* of the base, and stores a stale byte if an extension follows.
Plain(name) ==
  /\ Range(Stem(name)) \cup Range(Ext(name)) \subseteq Letters
  /\ Len(Stem(name)) \in 1..8
  /\ Len(Ext(name)) \in 0..3
  /\ Len(Stem(name)) = 1 => Len(name) = 1

\* The same plain name, but for the case and for a final dot.
Capital == [c \in Letters |-> IF c = "a" THEN "A" ELSE IF c = "b" THEN "B" ELSE c]
InCapitals(s) == [i \in DOMAIN s |-> Capital[s[i]]]
Same(m, n) == /\ InCapitals(Stem(m)) = InCapitals(Stem(n))
              /\ InCapitals(Ext(m)) = InCapitals(Ext(n))

\* A plain name opens the file that was made under it, or is refused for the
\* directory that was, and finds what was made under no other plain name, whatever
\* other names the directory holds: no two of the files share an entry, and no
\* file has two.  (Names that are shortened do share entries, and the entry of a
\* directory made under a name with a dot has lost the extension.)
OwnEntry ==
  /\ \A i, j \in DOMAIN entries :
       /\ entries[i].by = "open" /\ entries[j].by = "open" /\ i # j
       /\ Plain(entries[i].name) /\ Plain(entries[j].name)
       => ~Same(entries[i].name, entries[j].name)
  /\ call.op = "open" /\ Plain(call.name) =>
       /\ call.at # 0
       /\ LET e == entries[call.at]
          IN  /\ call.res = IF e.by = "open" THEN "ok" ELSE "EISDIR"
              /\ e.by \in {"open", "mkdir"}
              /\ Plain(e.name) /\ (e.by = "mkdir" => "." \notin Range(e.name))
                   => Same(e.name, call.name)

\* The name readdir shows for a file's entry opens an entry of the same name,
\* shortened names included.  (Spaces, stale bytes and the code 0x05 get lost.)
ListedOpens ==
  call.op = "listed" =>
    LET e == entries[call.of]
    IN  /\ e.by = "open" /\ Range(e.name) \cap {" ", "xE5"} = {}
        /\ Len(Stem(e.name)) = 1 => Len(e.name) = 1
        => call.res = "ok" /\ entries[call.at].dos = e.dos

\* The two ways from a name to an entry, fat_mkdir's own and the look-up's, agree
\* on names without a dot and unusual characters: fat_mkdir fails for none of them
\* but the illegal ones, before it has written the entry, and it is the new
\* directory that gets the first two entries, unless an older file or directory
\* has the same entry name: that one is overwritten then.
Usual(name) == Range(name) \cap {".", "xE5", "\\"} = {}
MkdirReopens ==
  call.op = "mkdir" /\ Usual(call.name) =>
    \/ call.res = "ENAMETOOLONG" /\ "*" \in Range(call.name)
    \/ /\ call.res = "ok"
       /\ LET new == Len(entries)
          IN  \/ call.at = new /\ entries[new].holds = "dots"
              \/ \E i \in 1 .. new - 1 : entries[i].dos = entries[new].dos
=============================================================================
