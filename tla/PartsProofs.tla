----------------------------- MODULE PartsProofs -----------------------------
(***************************************************************************)
(* Three parts that share nothing.  The archive: what is handed to the     *)
(* indexer is in it, or in a part of it that a kill or an error cut off,   *)
(* for any records, files, kills and errors.  The files the API's          *)
(* processes share: no stale read of a state file and one chime per start, *)
(* for any readers, workers and window.  The link graph of a drain: it is  *)
(* what was recorded and its ranks sum to one but for the rounding, for    *)
(* any sites, documents, links and limits.                                 *)
(***************************************************************************)
EXTENDS WarcArchive, StateFile, StartChime, LinkGraph, FiniteSetTheorems, LoopTheorems

-----------------------------------------------------------------------------
(* The files *)

\* A record changes one file, at its end.
LEMMA RecordShape ==
    ASSUME NEW last \in Nat, NEW fs \in [1 .. last -> WarcFile], current \in 1 .. last,
           NEW p \in Nat, NEW size \in Nat
    PROVE  LET new == WithRecord(fs, p, size)
           IN  /\ new \in [1 .. last -> WarcFile]
               /\ new[current].pages = Append(fs[current].pages, p)
               /\ \A n \in 1 .. last : /\ new[n].state = fs[n].state
                                       /\ n # current => new[n] = fs[n]
<1> DEFINE mine == [bytes |-> fs[current].bytes + size,
                    pages |-> Append(fs[current].pages, p), state |-> fs[current].state]
           new == WithRecord(fs, p, size)
<1>1. fs[current] \in WarcFile
  OBVIOUS
<1>2. /\ mine \in WarcFile /\ mine.state = fs[current].state
      /\ mine.pages = Append(fs[current].pages, p)
  <2>1. Append(fs[current].pages, p) \in Seq(Nat) /\ fs[current].bytes + size \in Nat
    BY <1>1 DEF WarcFile
  <2> QED
    BY <1>1, <2>1 DEF WarcFile
<1>3. new = [fs EXCEPT ![current] = mine]
  BY DEF WithRecord
<1> HIDE DEF mine, new
<1> QED
  BY <1>1, <1>2, <1>3 DEF new

\* Finishing a file changes no page.
LEMMA FinishedShape ==
    ASSUME NEW last \in Nat, NEW fs \in [1 .. last -> WarcFile], NEW n \in 1 .. last
    PROVE  /\ Finished(fs, n) \in [1 .. last -> WarcFile]
           /\ Finished(fs, n)[n].state = "finished"
           /\ \A m \in 1 .. last : /\ Finished(fs, n)[m].pages = fs[m].pages
                                   /\ m # n => Finished(fs, n)[m] = fs[m]
  BY DEF Finished, WarcFile

\* A cut leaves the first pages of one file.
LEMMA CutShape ==
    ASSUME NEW last \in Nat, NEW fs \in [1 .. last -> WarcFile], NEW n \in 1 .. last,
           NEW kept \in 0 .. Len(fs[n].pages)
    PROVE  LET left == CutAt(fs, n, kept)
           IN  /\ left \in [1 .. last -> WarcFile] /\ left[n].state = "cut"
               /\ DOMAIN left[n].pages = 1 .. kept
               /\ 1 .. kept \subseteq DOMAIN fs[n].pages
               /\ \A j \in 1 .. kept : left[n].pages[j] = fs[n].pages[j]
               /\ \A m \in 1 .. last : m # n => left[m] = fs[m]
<1> DEFINE short == SubSeq(fs[n].pages, 1, kept)
           mine == [bytes |-> fs[n].bytes, pages |-> short, state |-> "cut"]
<1>1. fs[n] \in WarcFile /\ fs[n].pages \in Seq(Nat)
  BY DEF WarcFile
<1>2. /\ short \in Seq(Nat) /\ DOMAIN short = 1 .. kept
      /\ 1 .. kept \subseteq DOMAIN fs[n].pages
      /\ \A j \in 1 .. kept : short[j] = fs[n].pages[j]
  BY ONLY <1>1, kept \in 0 .. Len(fs[n].pages), SMTT(20)
<1> HIDE DEF short
<1>3. mine \in WarcFile /\ mine.state = "cut" /\ mine.pages = short
  BY <1>1, <1>2 DEF WarcFile
<1>4. CutAt(fs, n, kept) = [fs EXCEPT ![n] = mine]
  BY DEF CutAt, short
<1> HIDE DEF mine
<1> QED
  BY <1>2, <1>3, <1>4

\* A new file has no pages.
LEMMA NewFileShape ==
    ASSUME NEW last \in Nat, NEW fs \in [1 .. last -> WarcFile]
    PROVE  /\ WithFile(fs, last + 1) \in [1 .. last + 1 -> WarcFile]
           /\ WithFile(fs, last + 1)[last + 1].state = "open"
           /\ WithFile(fs, last + 1)[last + 1].pages = << >>
           /\ \A m \in 1 .. last : WithFile(fs, last + 1)[m] = fs[m]
<1> DEFINE new == WithFile(fs, last + 1)
<1>1. Started \in WarcFile /\ Started.state = "open" /\ Started.pages = << >>
  BY WarcAssumption DEF Started, WarcFile
<1>2. DOMAIN fs \cup {last + 1} = 1 .. last + 1
  OBVIOUS
<1>3. new = [m \in 1 .. last + 1 |-> IF m = last + 1 THEN Started ELSE fs[m]]
  BY <1>2 DEF WithFile
<1> HIDE DEF new
<1> QED
  BY <1>1, <1>3 DEF new

\* Numbering goes on after the last file.
LEMMA NextIsLast ==
    ASSUME NEW last \in Nat, DOMAIN files = 1 .. last
    PROVE  NextWarcSequence = last + 1
<1>1. last \in DOMAIN files \cup {0} /\ \A m \in DOMAIN files : m <= last
  OBVIOUS
<1>2. \A n \in DOMAIN files \cup {0} : (\A m \in DOMAIN files : m <= n) => n = last
  <2> SUFFICES ASSUME NEW n \in DOMAIN files \cup {0}, \A m \in DOMAIN files : m <= n
               PROVE  n = last
    OBVIOUS
  <2>1. CASE last = 0
    BY <2>1
  <2>2. CASE last # 0
    <3>1. last \in DOMAIN files
      BY <2>2
    <3>2. last <= n
      BY <3>1
    <3>3. n \in Nat /\ n <= last
      OBVIOUS
    <3> QED
      BY <3>2, <3>3
  <2> QED
    BY <2>1, <2>2
<1>3. (CHOOSE n \in DOMAIN files \cup {0} : \A m \in DOMAIN files : m <= n) = last
  BY <1>1, <1>2
<1> DEFINE newest == CHOOSE n \in DOMAIN files \cup {0} : \A m \in DOMAIN files : m <= n
<1>4. NextWarcSequence = 1 + newest /\ newest = last
  BY <1>3 DEF NextWarcSequence
<1> HIDE DEF newest
<1> QED
  BY <1>4

\* A page appended to a list is added to its set.
LEMMA SetOfAppend ==
    ASSUME NEW s \in Seq(Nat), NEW p \in Nat
    PROVE  SetOf(Append(s, p)) = SetOf(s) \cup {p}
<1>1. /\ DOMAIN Append(s, p) = 1 .. Len(s) + 1 /\ DOMAIN s = 1 .. Len(s)
      /\ Len(s) \in Nat
      /\ Append(s, p)[Len(s) + 1] = p
      /\ \A i \in 1 .. Len(s) : Append(s, p)[i] = s[i]
  OBVIOUS
<1>2. 1 .. Len(s) + 1 = (1 .. Len(s)) \cup {Len(s) + 1}
  BY <1>1
<1> QED
  BY <1>1, <1>2 DEF SetOf

-----------------------------------------------------------------------------
(***************************************************************************)
(* Files are sound if their pages are in order, none is younger than the   *)
(* last that came, and what a segment was given and no file holds was cut  *)
(* off.  Each thing that is done to the files keeps them sound.            *)
(***************************************************************************)
\* What sound files hold, and what was given, are numbers up to the last.
LEMMA NoneIsYounger ==
    ASSUME NEW last \in Nat, NEW fs \in [1 .. last -> WarcFile],
           NEW top \in Nat, NEW given \in SUBSET Nat, FilesSound(fs, top, given)
    PROVE  \A page \in given \cup PagesIn(fs) : page \in Nat /\ page <= top
<1>1. \A n \in DOMAIN fs : fs[n].pages \in Seq(Nat)
  BY DEF WarcFile
<1>2. PagesIn(fs) \subseteq Nat
  BY <1>1 DEF PagesIn
<1> QED
  BY <1>2 DEF FilesSound

\* Less may have been given to the segments, and more may have come.
LEMMA LessIsSound ==
    ASSUME NEW last \in Nat, NEW fs \in [1 .. last -> WarcFile],
           NEW top \in Nat, NEW given \in SUBSET Nat, FilesSound(fs, top, given),
           NEW more \in Nat, top <= more, NEW fewer \in SUBSET given
    PROVE  FilesSound(fs, more, fewer)
<1>1. \A page \in given \cup PagesIn(fs) : page \in Nat /\ page <= top
  BY NoneIsYounger
<1>2. \A page \in fewer \cup PagesIn(fs) : page <= more
  BY <1>1
<1>3. InOrder(fs) /\ LossesAreCut(fs, fewer)
  BY DEF FilesSound, LossesAreCut
<1> QED
  BY <1>2, <1>3 DEF FilesSound

\* The page that comes next, at the end of the last file.
LEMMA RecordIsSound ==
    ASSUME NEW last \in Nat, NEW fs \in [1 .. last -> WarcFile], last \in 1 .. last,
           fs[last].state # "cut",
           NEW top \in Nat, NEW given \in SUBSET Nat, FilesSound(fs, top, given),
           NEW new \in [1 .. last -> WarcFile],
           new[last].pages = Append(fs[last].pages, top + 1),
           \A n \in 1 .. last : new[n].state = fs[n].state /\ (n # last => new[n] = fs[n])
    PROVE  FilesSound(new, top + 1, given \cup {top + 1})
<1>1. /\ DOMAIN fs = 1 .. last /\ DOMAIN new = 1 .. last
      /\ \A n \in 1 .. last : fs[n].pages \in Seq(Nat)
  BY DEF WarcFile
<1>2. \A page \in given \cup PagesIn(fs) : page \in Nat /\ page <= top
  BY NoneIsYounger
<1> DEFINE Old(n, j) == j \in DOMAIN fs[n].pages /\ new[n].pages[j] = fs[n].pages[j]
           Newest(n, j) == /\ n = last /\ j = Len(fs[n].pages) + 1
                           /\ new[n].pages[j] = top + 1
<1>3. \A n \in 1 .. last : \A j \in DOMAIN new[n].pages : Old(n, j) \/ Newest(n, j)
  <2> SUFFICES ASSUME NEW n \in 1 .. last, NEW j \in DOMAIN new[n].pages
               PROVE  Old(n, j) \/ Newest(n, j)
    OBVIOUS
  <2>1. CASE n # last
    BY <2>1
  <2>2. CASE n = last
    <3>1. /\ new[n].pages = Append(fs[n].pages, top + 1) /\ fs[n].pages \in Seq(Nat)
          /\ j \in DOMAIN Append(fs[n].pages, top + 1)
      BY <1>1, <2>2
    <3>2. \/ j \in DOMAIN fs[n].pages
             /\ Append(fs[n].pages, top + 1)[j] = fs[n].pages[j]
          \/ j = Len(fs[n].pages) + 1 /\ Append(fs[n].pages, top + 1)[j] = top + 1
      BY ONLY <3>1, top \in Nat, SMTT(20)
    <3> QED
      BY ONLY <2>2, <3>1, <3>2
  <2> QED
    BY <2>1, <2>2
<1>4. PagesIn(new) \subseteq PagesIn(fs) \cup {top + 1}
  BY <1>1, <1>3 DEF PagesIn
<1>5. PagesIn(fs) \cup {top + 1} \subseteq PagesIn(new)
  <2>1. SetOf(new[last].pages) = SetOf(fs[last].pages) \cup {top + 1}
    BY <1>1, SetOfAppend
  <2>2. \A n \in 1 .. last : SetOf(fs[n].pages) \subseteq SetOf(new[n].pages)
    BY <2>1
  <2>3. /\ PagesIn(fs) = UNION {SetOf(fs[n].pages) : n \in 1 .. last}
        /\ PagesIn(new) = UNION {SetOf(new[n].pages) : n \in 1 .. last}
    <3>1. /\ PagesIn(fs) = UNION {SetOf(fs[n].pages) : n \in DOMAIN fs}
          /\ PagesIn(new) = UNION {SetOf(new[n].pages) : n \in DOMAIN new}
      BY DEF PagesIn, SetOf
    <3> QED
      BY <1>1, <3>1
  <2>4. PagesIn(fs) \subseteq PagesIn(new)
    <3> SUFFICES ASSUME NEW page \in PagesIn(fs) PROVE page \in PagesIn(new)
      OBVIOUS
    <3>1. PICK n \in 1 .. last : page \in SetOf(fs[n].pages)
      BY <2>3
    <3>2. page \in SetOf(new[n].pages)
      BY ONLY <2>2, <3>1
    <3> QED
      BY ONLY <2>3, <3>2
  <2>5. top + 1 \in PagesIn(new)
    <3>1. top + 1 \in SetOf(new[last].pages)
      BY ONLY <2>1
    <3> QED
      BY <2>3, <3>1
  <2> QED
    BY ONLY <2>4, <2>5
<1>6. \A page \in given \cup {top + 1} \cup PagesIn(new) : page <= top + 1
  <2> SUFFICES ASSUME NEW page \in given \cup {top + 1} \cup PagesIn(new)
               PROVE  page <= top + 1
    OBVIOUS
  <2>1. page = top + 1 \/ (page \in Nat /\ page <= top)
    BY <1>2, <1>4
  <2> QED
    BY <2>1
<1>7. InOrder(new)
  <2> SUFFICES ASSUME NEW m \in 1 .. last, NEW n \in 1 .. last,
                      NEW i \in DOMAIN new[m].pages, NEW j \in DOMAIN new[n].pages,
                      m < n \/ (m = n /\ i < j)
               PROVE  new[m].pages[i] < new[n].pages[j]
    BY <1>1 DEF InOrder
  <2>1. CASE Old(m, i) /\ Old(n, j)
    <3>1. fs[m].pages[i] < fs[n].pages[j]
      BY <1>1, <2>1 DEF FilesSound, InOrder
    <3> QED
      BY ONLY <2>1, <3>1
  <2>2. CASE Old(m, i) /\ Newest(n, j)
    <3>1. fs[m].pages[i] \in PagesIn(fs)
      BY ONLY <1>1, <2>2, m \in 1 .. last DEF PagesIn
    <3>2. new[m].pages[i] \in Nat /\ new[m].pages[i] <= top
      BY ONLY <1>2, <2>2, <3>1
    <3>3. new[n].pages[j] = top + 1
      BY ONLY <2>2
    <3> QED
      BY ONLY <3>2, <3>3, top \in Nat
  <2>3. CASE Newest(m, i)
    <3>1. n = last /\ m = last /\ i < j
      BY <2>3
    <3>2. /\ fs[last].pages \in Seq(Nat) /\ i = Len(fs[last].pages) + 1
          /\ j \in DOMAIN fs[last].pages \/ j = Len(fs[last].pages) + 1
      BY <1>1, <1>3, <2>3, <3>1
    <3>3. FALSE
      BY ONLY <3>1, <3>2
    <3> QED
      BY <3>3
  <2> QED
    BY <1>3, <2>1, <2>2, <2>3
<1>8. LossesAreCut(new, given \cup {top + 1})
  <2> SUFFICES ASSUME NEW page \in (given \cup {top + 1}) \ PagesIn(new)
               PROVE  \E n \in DOMAIN new : LostFrom(new, n, page)
    BY DEF LossesAreCut
  <2>1. page \in given \ PagesIn(fs) /\ page \in Nat /\ page <= top
    BY <1>2, <1>5
  <2>2. PICK n \in 1 .. last : LostFrom(fs, n, page)
    BY <1>1, <2>1 DEF FilesSound, LossesAreCut
  <2>3. n < last /\ new[n].state = "cut"
    BY <2>2 DEF LostFrom
  <2>4. ASSUME NEW m \in 1 .. last, NEW q \in SetOf(new[m].pages)
        PROVE  IF m <= n THEN q < page ELSE q > page
    <3>1. PICK j \in DOMAIN new[m].pages : q = new[m].pages[j]
      BY DEF SetOf
    <3>2. CASE Old(m, j)
      BY <1>1, <2>2, <3>1, <3>2 DEF LostFrom, SetOf
    <3>3. CASE Newest(m, j)
      BY <2>1, <2>3, <3>1, <3>3
    <3> QED
      BY <1>3, <3>1, <3>2, <3>3
  <2> QED
    BY <1>1, <2>3, <2>4 DEF LostFrom
<1> QED
  BY <1>6, <1>7, <1>8 DEF FilesSound

\* Files whose pages are as they were.
LEMMA SamePagesAreSound ==
    ASSUME NEW last \in Nat, NEW fs \in [1 .. last -> WarcFile],
           NEW top \in Nat, NEW given \in SUBSET Nat, FilesSound(fs, top, given),
           NEW new \in [1 .. last -> WarcFile],
           \A n \in 1 .. last : /\ new[n].pages = fs[n].pages
                                /\ fs[n].state = "cut" => new[n].state = "cut"
    PROVE  FilesSound(new, top, given)
<1>1. DOMAIN fs = 1 .. last /\ DOMAIN new = 1 .. last
  OBVIOUS
<1>2. PagesIn(new) = PagesIn(fs)
  BY <1>1 DEF PagesIn
<1>3. InOrder(new)
  BY <1>1 DEF FilesSound, InOrder
<1>4. \A n \in 1 .. last : \A page : LostFrom(fs, n, page) => LostFrom(new, n, page)
  BY <1>1 DEF LostFrom
<1> QED
  BY <1>1, <1>2, <1>3, <1>4 DEF FilesSound, LossesAreCut

\* A file that begins is empty.
LEMMA NewFileIsSound ==
    ASSUME NEW last \in Nat, NEW fs \in [1 .. last -> WarcFile],
           NEW top \in Nat, NEW given \in SUBSET Nat, FilesSound(fs, top, given)
    PROVE  FilesSound(WithFile(fs, last + 1), top, given)
<1> DEFINE new == WithFile(fs, last + 1)
<1>1. /\ new \in [1 .. last + 1 -> WarcFile] /\ new[last + 1].pages = << >>
      /\ \A m \in 1 .. last : new[m] = fs[m]
  BY NewFileShape
<1> HIDE DEF new
<1>2. /\ DOMAIN fs = 1 .. last /\ DOMAIN new = 1 .. last + 1
      /\ 1 .. last + 1 = (1 .. last) \cup {last + 1} /\ last + 1 \notin 1 .. last
      /\ DOMAIN new[last + 1].pages = {}
  BY <1>1
<1>3. PagesIn(new) = PagesIn(fs)
  BY <1>1, <1>2 DEF PagesIn
<1>4. InOrder(new)
  BY <1>1, <1>2 DEF FilesSound, InOrder
<1>5. \A n \in 1 .. last : \A page : LostFrom(fs, n, page) => LostFrom(new, n, page)
  BY <1>1, <1>2 DEF LostFrom, SetOf
<1>6. LossesAreCut(new, given)
  BY <1>2, <1>3, <1>5 DEF FilesSound, LossesAreCut
<1> QED
  BY <1>3, <1>4, <1>6 DEF FilesSound, new

\* The pages that a cut of the last file loses are younger than all that stay.
LEMMA CutIsSound ==
    ASSUME NEW last \in Nat, NEW fs \in [1 .. last -> WarcFile], last \in 1 .. last,
           NEW top \in Nat, NEW given \in SUBSET Nat, FilesSound(fs, top, given),
           NEW kept \in 0 .. Len(fs[last].pages)
    PROVE  FilesSound(CutAt(fs, last, kept), top, given)
<1> DEFINE new == CutAt(fs, last, kept)
<1>1. /\ new \in [1 .. last -> WarcFile] /\ new[last].state = "cut"
      /\ DOMAIN new[last].pages = 1 .. kept
      /\ 1 .. kept \subseteq DOMAIN fs[last].pages
      /\ \A j \in 1 .. kept : new[last].pages[j] = fs[last].pages[j]
      /\ \A m \in 1 .. last : m # last => new[m] = fs[m]
  BY CutShape
<1> HIDE DEF new
<1>2. DOMAIN fs = 1 .. last /\ DOMAIN new = 1 .. last
  BY <1>1
<1>3. \A n \in 1 .. last : \A j \in DOMAIN new[n].pages :
          /\ j \in DOMAIN fs[n].pages /\ new[n].pages[j] = fs[n].pages[j]
          /\ n = last => j \in 1 .. kept
  BY <1>1
<1>4. PagesIn(new) \subseteq PagesIn(fs)
  BY <1>2, <1>3 DEF PagesIn
<1>5. InOrder(new)
  BY <1>2, <1>3 DEF FilesSound, InOrder
<1>6. LossesAreCut(new, given)
  <2> SUFFICES ASSUME NEW page \in given \ PagesIn(new)
               PROVE  \E n \in 1 .. last : LostFrom(new, n, page)
    BY <1>2 DEF LossesAreCut
  <2>1. CASE page \in PagesIn(fs)
    <3>1. PICK n \in 1 .. last : \E i \in DOMAIN fs[n].pages : page = fs[n].pages[i]
      BY <1>2, <2>1 DEF PagesIn
    <3>2. PICK i \in DOMAIN fs[n].pages : page = fs[n].pages[i]
      BY <3>1
    <3>3. n = last
      BY <1>1, <1>2, <3>2 DEF PagesIn
    <3>4. i \notin 1 .. kept
      BY <1>1, <1>2, <3>2, <3>3 DEF PagesIn
    <3>5. i \in Nat /\ kept \in Nat /\ kept < i
      <4>1. fs[last].pages \in Seq(Nat) /\ i \in DOMAIN fs[last].pages
        BY <3>2, <3>3 DEF WarcFile
      <4>2. i \in Nat /\ 1 <= i /\ kept \in Nat
        BY ONLY <4>1, kept \in 0 .. Len(fs[last].pages)
      <4> QED
        BY ONLY <3>4, <4>2
    <3>6. ASSUME NEW m \in 1 .. last, NEW q \in SetOf(new[m].pages)
          PROVE  q < page /\ m <= last
      <4>1. PICK j \in DOMAIN new[m].pages : q = new[m].pages[j]
        BY DEF SetOf
      <4>2. /\ j \in DOMAIN fs[m].pages /\ q = fs[m].pages[j]
            /\ m = last => j \in 1 .. kept
        BY <1>3, <4>1
      <4>3. m < last \/ (m = last /\ j < i)
        BY <3>5, <4>2
      <4>4. fs[m].pages[j] < fs[last].pages[i]
        BY <1>2, <3>2, <3>3, <4>2, <4>3 DEF FilesSound, InOrder
      <4> QED
        BY <3>2, <3>3, <4>2, <4>4
    <3> QED
      BY <1>1, <1>2, <3>6 DEF LostFrom
  <2>2. CASE page \notin PagesIn(fs)
    <3>1. PICK n \in 1 .. last : LostFrom(fs, n, page)
      BY <1>2, <2>2 DEF FilesSound, LossesAreCut
    <3>2. new[n].state = "cut"
      BY <1>1, <3>1 DEF LostFrom
    <3>3. \A m \in 1 .. last : SetOf(new[m].pages) \subseteq SetOf(fs[m].pages)
      BY <1>3 DEF SetOf
    <3> QED
      BY <1>2, <3>1, <3>2, <3>3 DEF LostFrom
  <2> QED
    BY <2>1, <2>2
<1> QED
  BY <1>4, <1>5, <1>6 DEF FilesSound, new

\* The last file is closed, whole or not.
LEMMA ClosingIsSound ==
    ASSUME NEW last \in Nat, NEW fs \in [1 .. last -> WarcFile], last \in 1 .. last,
           fs[last].state # "cut",
           NEW top \in Nat, NEW given \in SUBSET Nat, FilesSound(fs, top, given),
           NEW new \in Closings(fs, last)
    PROVE  /\ new \in [1 .. last -> WarcFile]
           /\ new[last].state \in {"finished", "cut"}
           /\ \A m \in 1 .. last : m # last => new[m] = fs[m]
           /\ FilesSound(new, top, given)
<1>1. CASE new = Finished(fs, last)
  <2>1. /\ new \in [1 .. last -> WarcFile] /\ new[last].state = "finished"
        /\ \A m \in 1 .. last : /\ new[m].pages = fs[m].pages
                                /\ m # last => new[m] = fs[m]
    BY <1>1, FinishedShape
  <2>2. FilesSound(new, top, given)
    BY <2>1, SamePagesAreSound
  <2> QED
    BY <2>1, <2>2
<1>2. CASE new \in CutFiles(fs, last)
  <2>1. PICK kept \in 0 .. Len(fs[last].pages) : new = CutAt(fs, last, kept)
    BY <1>2 DEF CutFiles
  <2>2. /\ new \in [1 .. last -> WarcFile] /\ new[last].state = "cut"
        /\ \A m \in 1 .. last : m # last => new[m] = fs[m]
    BY <2>1, CutShape
  <2>3. FilesSound(new, top, given)
    BY <2>1, CutIsSound
  <2> QED
    BY <2>2, <2>3
<1> QED
  BY <1>1, <1>2 DEF Closings

-----------------------------------------------------------------------------
(* The steps *)

\* Nothing has been handed over, so nothing is missing.
LEMMA InitWarcIInv == WarcInit => WarcIInv
<1> SUFFICES ASSUME WarcInit PROVE WarcIInv
  OBVIOUS
<1>1. /\ files = NoFiles /\ DOMAIN files = {} /\ current = 0 /\ written = 0
      /\ unsealed = << >> /\ handed = {} /\ arrived = 0 /\ stops = 0
  BY DEF WarcInit, NoFiles
<1>2. PagesIn(files) = {} /\ Given = {}
  BY <1>1 DEF PagesIn, SetOf, Given
<1>3. files \in [1 .. 0 -> WarcFile]
  BY <1>1 DEF NoFiles
<1>4. WarcTypeOK
  BY <1>1, <1>3 DEF WarcTypeOK
<1> QED
  BY <1>1, <1>2, <1>4 DEF WarcIInv, LastIsOpen, FilesSound, InOrder, LossesAreCut

\* What the invariant says of the files, with their number named.
LEMMA FilesNow ==
    ASSUME WarcIInv
    PROVE  /\ FilesSound(files, arrived, Given) /\ Given \in SUBSET Nat
           /\ arrived \in Nat /\ stops \in Nat /\ written \in Nat
           /\ handed \in SUBSET Nat /\ unsealed \in Seq(Nat) /\ SetOf(unsealed) \subseteq Nat
           /\ \E last \in Nat :
              /\ files \in [1 .. last -> WarcFile]
              /\ NextWarcSequence = last + 1
              /\ current # 0 => /\ current = last /\ last \in 1 .. last
                                /\ files[last].state = "open"
              /\ \A n \in 1 .. last : n # current => files[n].state \in {"finished", "cut"}
<1>1. PICK last \in Nat : files \in [1 .. last -> WarcFile]
  BY DEF WarcIInv, WarcTypeOK
<1>2. DOMAIN files = 1 .. last /\ NextWarcSequence = last + 1
  BY <1>1, NextIsLast
<1>3. /\ arrived \in Nat /\ stops \in Nat /\ written \in Nat
      /\ handed \in SUBSET Nat /\ unsealed \in Seq(Nat)
  BY DEF WarcIInv, WarcTypeOK
<1>4. SetOf(unsealed) \subseteq Nat
  BY <1>3 DEF SetOf
<1>5. ASSUME current # 0
      PROVE  /\ current = last /\ last \in 1 .. last
             /\ files[last].state = "open"
  <2>1. /\ current \in 1 .. last /\ \A m \in 1 .. last : m <= current
        /\ files[current].state = "open"
    BY <1>2, <1>5 DEF WarcIInv, LastIsOpen
  <2>2. last \in 1 .. last
    BY <2>1
  <2>3. last <= current /\ current <= last /\ current \in Nat
    BY <2>1, <2>2
  <2> QED
    BY <2>1, <2>2, <2>3
<1>6. \A n \in 1 .. last : n # current => files[n].state \in {"finished", "cut"}
  BY <1>2 DEF WarcIInv, LastIsOpen
<1>7. FilesSound(files, arrived, Given) /\ Given \in SUBSET Nat
  BY <1>3, <1>4 DEF WarcIInv, Given
<1> QED
  BY <1>1, <1>2, <1>3, <1>4, <1>5, <1>6, <1>7

\* A process starts a file after the last.
LEMMA OpenStep ==
    ASSUME WarcIInv, Open
    PROVE  WarcIInv'
<1>1. /\ FilesSound(files, arrived, Given) /\ Given \in SUBSET Nat /\ arrived \in Nat
      /\ stops \in Nat /\ handed \in SUBSET Nat
  BY FilesNow
<1>2. PICK last \in Nat :
          /\ files \in [1 .. last -> WarcFile] /\ NextWarcSequence = last + 1
          /\ \A n \in 1 .. last : n # current => files[n].state \in {"finished", "cut"}
  BY FilesNow
<1>3. /\ current = 0 /\ current' = last + 1 /\ files' = WithFile(files, last + 1)
      /\ written' = HeaderSize /\ unsealed' = << >> /\ unsealed = << >>
      /\ handed' = handed /\ arrived' = arrived /\ stops' = stops
  BY <1>2 DEF Open, WarcIInv, LastIsOpen
<1>4. /\ files' \in [1 .. last + 1 -> WarcFile] /\ files'[last + 1].state = "open"
      /\ \A m \in 1 .. last : files'[m] = files[m]
      /\ 1 .. last + 1 = (1 .. last) \cup {last + 1}
      /\ last + 1 \in Nat /\ last + 1 # 0 /\ \A m \in 1 .. last + 1 : m <= last + 1
  BY <1>2, <1>3, NewFileShape
<1>5. WarcTypeOK'
  <2>1. \E l \in Nat : files' \in [1 .. l -> WarcFile]
    BY <1>4
  <2>2. /\ HeaderSize \in Nat /\ << >> \in Seq(Nat)
    BY WarcAssumption
  <2> QED
    BY ONLY <1>1, <1>3, <1>4, <2>1, <2>2 DEF WarcTypeOK
<1>6. LastIsOpen'
  BY <1>2, <1>3, <1>4 DEF LastIsOpen
<1>7. Given' = Given
  BY <1>3 DEF Given
<1>8. FilesSound(files, arrived, Given)'
  BY <1>1, <1>2, <1>3, <1>7, NewFileIsSound
<1> QED
  BY <1>5, <1>6, <1>8 DEF WarcIInv

\* No process writes, and the files are sound: whoever stopped, and where.
LEMMA AtRest ==
    ASSUME NEW last \in Nat, files' \in [1 .. last -> WarcFile],
           \A n \in 1 .. last : files'[n].state \in {"finished", "cut"},
           current' = 0, unsealed' = << >>, handed' \in SUBSET Nat,
           written' \in Nat, stops' \in Nat, arrived' \in Nat,
           NEW given \in SUBSET Nat, FilesSound(files', arrived', given), handed' \subseteq given
    PROVE  WarcIInv'
<1>1. Given' = handed'
  BY DEF Given, SetOf
<1>2. WarcTypeOK'
  <2>1. << >> \in Seq(Nat) /\ 0 \in Nat
    OBVIOUS
  <2> QED
    BY <2>1 DEF WarcTypeOK
<1>3. LastIsOpen'
  BY DEF LastIsOpen
<1>4. FilesSound(files', arrived', handed')
  BY LessIsSound
<1> QED
  BY <1>1, <1>2, <1>3, <1>4 DEF WarcIInv

\* A file is begun and nothing written to it.
LEMMA OpenFailsStep ==
    ASSUME WarcIInv, OpenFails
    PROVE  WarcIInv'
<1>1. /\ FilesSound(files, arrived, Given) /\ Given \in SUBSET Nat /\ arrived \in Nat
      /\ stops \in Nat /\ handed \in SUBSET Nat /\ written \in Nat
  BY FilesNow
<1>2. PICK last \in Nat :
          /\ files \in [1 .. last -> WarcFile] /\ NextWarcSequence = last + 1
          /\ \A n \in 1 .. last : n # current => files[n].state \in {"finished", "cut"}
  BY FilesNow
<1> DEFINE new == WithFile(files, last + 1)
<1>3. /\ current = 0 /\ current' = 0 /\ files' \in Closings(new, last + 1)
      /\ unsealed' = << >> /\ unsealed = << >> /\ handed' = handed /\ arrived' = arrived
      /\ stops' \in Nat /\ written' = written
  BY <1>1, <1>2 DEF OpenFails, WarcIInv, LastIsOpen
<1>4. /\ new \in [1 .. last + 1 -> WarcFile] /\ new[last + 1].state = "open"
      /\ \A m \in 1 .. last : new[m] = files[m]
      /\ 1 .. last + 1 = (1 .. last) \cup {last + 1}
      /\ last + 1 \in Nat /\ last + 1 \in 1 .. last + 1
      /\ FilesSound(new, arrived, Given)
  BY <1>1, <1>2, NewFileShape, NewFileIsSound
<1> HIDE DEF new
<1>5. /\ files' \in [1 .. last + 1 -> WarcFile]
      /\ files'[last + 1].state \in {"finished", "cut"}
      /\ \A m \in 1 .. last + 1 : m # last + 1 => files'[m] = new[m]
      /\ FilesSound(files', arrived, Given)
  BY <1>1, <1>3, <1>4, ClosingIsSound
<1>6. \A n \in 1 .. last + 1 : files'[n].state \in {"finished", "cut"}
  BY <1>2, <1>3, <1>4, <1>5
<1>7. handed' \subseteq Given
  BY <1>3 DEF Given
<1> QED
  BY <1>1, <1>3, <1>4, <1>5, <1>6, <1>7, AtRest

\* A page's record at the end of the file that is being written.
LEMMA RecordNow ==
    ASSUME WarcIInv, NEW last \in Nat, files \in [1 .. last -> WarcFile],
           current = last, last \in 1 .. last, files[last].state = "open",
           NEW size \in RecordSizes
    PROVE  LET fs == WithRecord(files, arrived + 1, size)
           IN  /\ fs \in [1 .. last -> WarcFile]
               /\ \A n \in 1 .. last : /\ fs[n].state = files[n].state
                                       /\ n # last => fs[n] = files[n]
               /\ FilesSound(fs, arrived + 1, Given \cup {arrived + 1})
<1> DEFINE page == arrived + 1
           fs == WithRecord(files, page, size)
<1>1. /\ FilesSound(files, arrived, Given) /\ Given \in SUBSET Nat /\ arrived \in Nat
  BY FilesNow
<1>2. page \in Nat /\ size \in Nat /\ current \in 1 .. last
  <2>1. size \in Nat
    BY ONLY WarcAssumption, size \in RecordSizes
  <2>2. current \in 1 .. last
    OBVIOUS
  <2> QED
    BY ONLY <1>1, <2>1, <2>2
<1> HIDE DEF page
<1>3. /\ fs \in [1 .. last -> WarcFile]
      /\ fs[current].pages = Append(files[current].pages, page)
      /\ \A n \in 1 .. last : /\ fs[n].state = files[n].state
                              /\ n # current => fs[n] = files[n]
  BY ONLY <1>2, last \in Nat, files \in [1 .. last -> WarcFile], RecordShape, SMTT(20)
<1> HIDE DEF fs
<1>4. /\ fs \in [1 .. last -> WarcFile]
      /\ fs[last].pages = Append(files[last].pages, arrived + 1)
      /\ \A n \in 1 .. last : fs[n].state = files[n].state /\ (n # last => fs[n] = files[n])
      /\ files[last].state # "cut"
  BY <1>3 DEF page
<1>5. FilesSound(fs, arrived + 1, Given \cup {arrived + 1})
  BY <1>1, <1>4, RecordIsSound
<1> QED
  BY <1>3, <1>4, <1>5 DEF fs, page

\* A page's record, whether or not the file rolls.
LEMMA RecordedIsSound ==
    ASSUME WarcIInv, current # 0, NEW size \in RecordSizes
    PROVE  LET new == Recorded(arrived + 1, size)
               at  == FileAfter(size)
           IN  /\ new \in [1 .. at -> WarcFile] /\ at \in Nat /\ at \in 1 .. at
               /\ new[at].state = "open"
               /\ \A n \in 1 .. at : n # at => new[n].state \in {"finished", "cut"}
               /\ FilesSound(new, arrived + 1, Given \cup {arrived + 1})
<1>1. /\ FilesSound(files, arrived, Given) /\ Given \in SUBSET Nat /\ arrived \in Nat
  BY FilesNow
<1>2. PICK last \in Nat :
          /\ files \in [1 .. last -> WarcFile]
          /\ current = last /\ last \in 1 .. last /\ files[last].state = "open"
          /\ \A n \in 1 .. last : n # current => files[n].state \in {"finished", "cut"}
  BY FilesNow
<1> DEFINE fs == WithRecord(files, arrived + 1, size)
           all == Given \cup {arrived + 1}
<1>3. arrived + 1 \in Nat /\ size \in Nat /\ all \in SUBSET Nat
  BY <1>1, WarcAssumption
<1>4. /\ fs \in [1 .. last -> WarcFile]
      /\ \A n \in 1 .. last : /\ fs[n].state = files[n].state
                              /\ n # last => fs[n] = files[n]
      /\ FilesSound(fs, arrived + 1, all)
  BY <1>2, RecordNow
<1> HIDE DEF fs, all
<1>5. CASE ~Rolls(size)
  <2>1. Recorded(arrived + 1, size) = fs /\ FileAfter(size) = last
    BY <1>2, <1>5 DEF Recorded, FileAfter, fs
  <2> QED
    BY <1>2, <1>4, <2>1 DEF all
<1>6. CASE Rolls(size)
  <2> DEFINE done == Finished(fs, last)
             new == WithFile(done, last + 1)
  <2>1. Recorded(arrived + 1, size) = new /\ FileAfter(size) = last + 1
    BY <1>2, <1>6 DEF Recorded, FileAfter, fs
  <2>2. /\ done \in [1 .. last -> WarcFile] /\ done[last].state = "finished"
        /\ \A m \in 1 .. last : /\ done[m].pages = fs[m].pages
                                /\ m # last => done[m] = fs[m]
    BY <1>2, <1>4, FinishedShape
  <2>3. \A m \in 1 .. last : /\ done[m].state \in {"finished", "cut"}
                             /\ fs[m].state = "cut" => done[m].state = "cut"
    BY <1>2, <1>4, <2>2
  <2> HIDE DEF done
  <2>4. FilesSound(done, arrived + 1, all)
    BY <1>3, <1>4, <2>2, <2>3, SamePagesAreSound
  <2>5. /\ new \in [1 .. last + 1 -> WarcFile] /\ new[last + 1].state = "open"
        /\ \A m \in 1 .. last : new[m] = done[m]
        /\ FilesSound(new, arrived + 1, all)
    BY <1>3, <2>2, <2>4, NewFileShape, NewFileIsSound
  <2> HIDE DEF new
  <2>6. /\ last + 1 \in Nat /\ last + 1 \in 1 .. last + 1
        /\ \A n \in 1 .. last + 1 : n # last + 1 => n \in 1 .. last
    BY <1>2
  <2> QED
    BY <2>1, <2>3, <2>5, <2>6 DEF all
<1> QED
  BY <1>5, <1>6

\* A page: its record, and then its frame.
LEMMA WriteStep ==
    ASSUME WarcIInv, NEW size \in RecordSizes, Write(size)
    PROVE  WarcIInv'
<1> DEFINE all == Given \cup {arrived + 1}
<1>1. /\ arrived \in Nat /\ stops \in Nat /\ written \in Nat /\ handed \in SUBSET Nat
      /\ unsealed \in Seq(Nat) /\ SetOf(unsealed) \subseteq Nat /\ Given \in SUBSET Nat
      /\ size \in Nat /\ HeaderSize \in Nat
  BY FilesNow, WarcAssumption
<1>2. /\ current # 0 /\ arrived' = arrived + 1 /\ stops' = stops
      /\ files' = Recorded(arrived + 1, size) /\ current' = FileAfter(size)
      /\ written' = written + size + (IF Rolls(size) THEN HeaderSize ELSE 0)
      /\ WriteFrame(arrived + 1)
  BY DEF Write
<1>3. /\ files' \in [1 .. current' -> WarcFile] /\ current' \in Nat
      /\ current' \in 1 .. current' /\ files'[current'].state = "open"
      /\ \A n \in 1 .. current' : n # current' => files'[n].state \in {"finished", "cut"}
      /\ FilesSound(files', arrived', all)
  BY <1>2, RecordedIsSound
<1>4. handed' \in SUBSET Nat /\ unsealed' \in Seq(Nat) /\ Given' = all
  <2>1. /\ SetOf(Append(unsealed, arrived + 1)) = SetOf(unsealed) \cup {arrived + 1}
        /\ SetOf(<< >>) = {} /\ {arrived + 1} \subseteq Nat /\ << >> \in Seq(Nat)
        /\ Append(unsealed, arrived + 1) \in Seq(Nat)
    <3>1. SetOf(<< >>) = {}
      BY DEF SetOf
    <3> QED
      BY <1>1, <3>1, SetOfAppend
  <2>2. CASE Fills
    <3>1. /\ handed' = handed \cup SetOf(unsealed) \cup {arrived + 1}
          /\ unsealed' = << >>
      BY <1>2, <2>2 DEF WriteFrame, Framed
    <3> QED
      BY <1>1, <2>1, <3>1 DEF Given
  <2>3. CASE ~Fills
    <3>1. handed' = handed /\ unsealed' = Append(unsealed, arrived + 1)
      BY <1>2, <2>3 DEF WriteFrame
    <3> QED
      BY <1>1, <2>1, <3>1 DEF Given
  <2> QED
    BY <2>2, <2>3
<1>5. WarcTypeOK'
  <2>1. \E l \in Nat : files' \in [1 .. l -> WarcFile]
    BY <1>3
  <2>2. written' \in Nat /\ arrived' \in Nat /\ stops' \in Nat
    BY <1>1, <1>2
  <2> QED
    BY <1>3, <1>4, <2>1, <2>2 DEF WarcTypeOK
<1>6. LastIsOpen'
  BY <1>3 DEF LastIsOpen
<1>7. FilesSound(files, arrived, Given)'
  BY <1>3, <1>4
<1> QED
  BY <1>5, <1>6, <1>7 DEF WarcIInv

\* The process stops between pages: in order, by an error or killed.
LEMMA EndStep ==
    ASSUME WarcIInv, current # 0, files' \in Closings(files, current),
           current' = 0, unsealed' = << >>, handed' \in SUBSET Given,
           written' = written, stops' \in Nat, arrived' \in {arrived, arrived + 1}
    PROVE  WarcIInv'
<1>1. /\ FilesSound(files, arrived, Given) /\ Given \in SUBSET Nat /\ arrived \in Nat
      /\ written \in Nat /\ handed' \in SUBSET Nat
  BY FilesNow
<1>2. PICK last \in Nat :
          /\ files \in [1 .. last -> WarcFile]
          /\ current = last /\ last \in 1 .. last /\ files[last].state = "open"
          /\ \A n \in 1 .. last : n # current => files[n].state \in {"finished", "cut"}
  BY FilesNow
<1>3. /\ files' \in [1 .. last -> WarcFile]
      /\ files'[last].state \in {"finished", "cut"}
      /\ \A m \in 1 .. last : m # last => files'[m] = files[m]
      /\ FilesSound(files', arrived, Given)
  BY <1>1, <1>2, ClosingIsSound
<1>4. \A n \in 1 .. last : files'[n].state \in {"finished", "cut"}
  BY <1>2, <1>3
<1>5. arrived' \in Nat /\ arrived <= arrived'
  BY <1>1
<1>6. FilesSound(files', arrived', Given)
  BY <1>1, <1>3, <1>5, LessIsSound
<1> QED
  BY <1>1, <1>2, <1>3, <1>4, <1>5, <1>6, AtRest

\* Sealing publishes the file that was being written.
LEMMA SealStep ==
    ASSUME WarcIInv, SealArchive
    PROVE  WarcIInv'
<1>1. stops \in Nat
  BY FilesNow
<1>2. /\ current # 0 /\ files' \in Closings(files, current) /\ current' = 0
      /\ unsealed' = << >> /\ handed' \in SUBSET Given /\ written' = written
      /\ stops' = stops /\ arrived' = arrived
  BY DEF SealArchive, Closings, Given
<1> QED
  BY <1>1, <1>2, EndStep

\* A seal that fails hands over the segment or nothing.
LEMMA SealFailsStep ==
    ASSUME WarcIInv, SealFails
    PROVE  WarcIInv'
<1>1. stops' \in Nat
  BY FilesNow DEF SealFails, Stop
<1>2. /\ current # 0 /\ files' \in Closings(files, current) /\ current' = 0
      /\ unsealed' = << >> /\ handed' \in SUBSET Given /\ written' = written
      /\ arrived' = arrived
  BY DEF SealFails, Stop, SealOnDrop, Given
<1> QED
  BY <1>1, <1>2, EndStep

\* A kill cuts the last file and hands nothing over.
LEMMA KillStep ==
    ASSUME WarcIInv, Kill
    PROVE  WarcIInv'
<1>1. stops' \in Nat
  BY FilesNow DEF Kill, Stop
<1>2. /\ current # 0 /\ files' \in Closings(files, current) /\ current' = 0
      /\ unsealed' = << >> /\ handed' \in SUBSET Given /\ written' = written
      /\ arrived' = arrived
  BY DEF Kill, Stop, Closings, Given
<1> QED
  BY <1>1, <1>2, EndStep

\* A record that does not reach its file whole gets no frame.
LEMMA WriteFailsStep ==
    ASSUME WarcIInv, WriteFails
    PROVE  WarcIInv'
<1>1. stops' \in Nat
  BY FilesNow DEF WriteFails, PageStops, Stop
<1>2. /\ current # 0 /\ files' \in Closings(files, current) /\ current' = 0
      /\ unsealed' = << >> /\ handed' \in SUBSET Given /\ written' = written
      /\ arrived' = arrived + 1
  BY DEF WriteFails, PageStops, Stop, SealOnDrop, Given
<1> QED
  BY <1>1, <1>2, EndStep

\* A record that is in its file and has no frame is more than the spool needs.
LEMMA RollFailsStep ==
    ASSUME WarcIInv, NEW size \in RecordSizes, RollFails(size)
    PROVE  WarcIInv'
<1> DEFINE fs == WithRecord(files, arrived + 1, size)
           all == Given \cup {arrived + 1}
<1>1. /\ FilesSound(files, arrived, Given) /\ Given \in SUBSET Nat /\ arrived \in Nat
      /\ written \in Nat /\ stops \in Nat
  BY FilesNow
<1>2. /\ current # 0 /\ current' = 0 /\ unsealed' = << >> /\ handed' \in SUBSET Given
      /\ written' = written /\ stops' \in Nat /\ arrived' = arrived + 1
      /\ \/ files' \in Closings(fs, current)
         \/ files' \in CutFiles(WithFile(Finished(fs, current), current + 1), current + 1)
  BY <1>1 DEF RollFails, PageStops, Stop, SealOnDrop, Given
<1>3. PICK last \in Nat :
          /\ files \in [1 .. last -> WarcFile]
          /\ current = last /\ last \in 1 .. last /\ files[last].state = "open"
          /\ \A n \in 1 .. last : n # current => files[n].state \in {"finished", "cut"}
  BY <1>2, FilesNow
<1>4. /\ arrived + 1 \in Nat /\ size \in Nat /\ all \in SUBSET Nat
      /\ handed' \in SUBSET Nat /\ handed' \subseteq all
  BY <1>1, <1>2, WarcAssumption
<1>5. /\ fs \in [1 .. last -> WarcFile]
      /\ \A n \in 1 .. last : /\ fs[n].state = files[n].state
                              /\ n # last => fs[n] = files[n]
      /\ FilesSound(fs, arrived + 1, all)
  BY <1>3, RecordNow
<1> HIDE DEF fs, all
<1>6. CASE files' \in Closings(fs, current)
  <2>1. /\ files' \in [1 .. last -> WarcFile]
        /\ files'[last].state \in {"finished", "cut"}
        /\ \A m \in 1 .. last : m # last => files'[m] = fs[m]
        /\ FilesSound(files', arrived + 1, all)
    BY <1>3, <1>4, <1>5, <1>6, ClosingIsSound
  <2>2. \A n \in 1 .. last : files'[n].state \in {"finished", "cut"}
    BY <1>3, <1>5, <2>1
  <2> QED
    BY <1>1, <1>2, <1>4, <2>1, <2>2, AtRest
<1>7. CASE files' \in CutFiles(WithFile(Finished(fs, current), current + 1), current + 1)
  <2> DEFINE done == Finished(fs, last)
             new == WithFile(done, last + 1)
  <2>1. files' \in Closings(new, last + 1)
    BY <1>3, <1>7 DEF Closings
  <2>2. /\ done \in [1 .. last -> WarcFile] /\ done[last].state = "finished"
        /\ \A m \in 1 .. last : /\ done[m].pages = fs[m].pages
                                /\ m # last => done[m] = fs[m]
    BY <1>3, <1>5, FinishedShape
  <2>3. \A m \in 1 .. last : /\ done[m].state \in {"finished", "cut"}
                             /\ fs[m].state = "cut" => done[m].state = "cut"
    BY <1>3, <1>5, <2>2
  <2> HIDE DEF done
  <2>4. FilesSound(done, arrived + 1, all)
    BY <1>4, <1>5, <2>2, <2>3, SamePagesAreSound
  <2>5. /\ new \in [1 .. last + 1 -> WarcFile] /\ new[last + 1].state = "open"
        /\ \A m \in 1 .. last : new[m] = done[m]
        /\ FilesSound(new, arrived + 1, all)
    BY <1>4, <2>2, <2>4, NewFileShape, NewFileIsSound
  <2> HIDE DEF new
  <2>6. /\ last + 1 \in Nat /\ last + 1 \in 1 .. last + 1
        /\ \A n \in 1 .. last + 1 : n # last + 1 => n \in 1 .. last
    BY <1>3
  <2>7. /\ files' \in [1 .. last + 1 -> WarcFile]
        /\ files'[last + 1].state \in {"finished", "cut"}
        /\ \A m \in 1 .. last + 1 : m # last + 1 => files'[m] = new[m]
        /\ FilesSound(files', arrived + 1, all)
    BY <1>4, <2>1, <2>5, <2>6, ClosingIsSound
  <2>8. \A n \in 1 .. last + 1 : files'[n].state \in {"finished", "cut"}
    BY <2>3, <2>5, <2>6, <2>7
  <2> QED
    BY <1>1, <1>2, <1>4, <2>6, <2>7, <2>8, AtRest
<1> QED
  BY <1>2, <1>6, <1>7

\* The record is in, the frame may be: only the file can lose the page.
LEMMA FrameFailsStep ==
    ASSUME WarcIInv, NEW size \in RecordSizes, FrameFails(size)
    PROVE  WarcIInv'
<1> DEFINE new == Recorded(arrived + 1, size)
           at  == FileAfter(size)
           all == Given \cup {arrived + 1}
<1>1. /\ Given \in SUBSET Nat /\ arrived \in Nat /\ written \in Nat /\ stops \in Nat
  BY FilesNow
<1>2. /\ current # 0 /\ current' = 0 /\ unsealed' = << >> /\ handed' \in SUBSET all
      /\ written' = written /\ stops' \in Nat /\ arrived' = arrived + 1
      /\ files' \in Closings(new, at)
  BY <1>1 DEF FrameFails, PageStops, Stop, SealOnDrop, Framed, Given
<1>3. all \in SUBSET Nat /\ arrived + 1 \in Nat /\ handed' \in SUBSET Nat
  BY <1>1, <1>2
<1>4. /\ new \in [1 .. at -> WarcFile] /\ at \in Nat /\ at \in 1 .. at
      /\ new[at].state = "open"
      /\ \A n \in 1 .. at : n # at => new[n].state \in {"finished", "cut"}
      /\ FilesSound(new, arrived + 1, all)
  BY <1>2, RecordedIsSound
<1> HIDE DEF new, at, all
<1>5. /\ files' \in [1 .. at -> WarcFile]
      /\ files'[at].state \in {"finished", "cut"}
      /\ \A m \in 1 .. at : m # at => files'[m] = new[m]
      /\ FilesSound(files', arrived + 1, all)
  BY <1>2, <1>3, <1>4, ClosingIsSound
<1>6. \A n \in 1 .. at : files'[n].state \in {"finished", "cut"}
  BY <1>4, <1>5
<1> QED
  BY <1>1, <1>2, <1>3, <1>4, <1>5, <1>6, AtRest

\* Every step of the archive writer keeps the invariant.
LEMMA NextWarcIInv == WarcIInv /\ [WarcNext]_warcVars => WarcIInv'
<1> SUFFICES ASSUME WarcIInv, [WarcNext]_warcVars PROVE WarcIInv'
  OBVIOUS
<1>1. CASE UNCHANGED warcVars
  <2>1. UNCHANGED <<files, current, written, unsealed, handed, arrived, stops>>
    BY <1>1 DEF warcVars
  <2>2. WarcTypeOK' /\ LastIsOpen' /\ Given' = Given
    BY <2>1 DEF WarcIInv, WarcTypeOK, LastIsOpen, Given
  <2>3. FilesSound(files, arrived, Given)'
    BY <2>1, <2>2 DEF WarcIInv
  <2> QED
    BY <2>2, <2>3 DEF WarcIInv
<1> QED
  BY <1>1, OpenStep, OpenFailsStep, SealStep, SealFailsStep, KillStep, WriteFailsStep,
     WriteStep, RollFailsStep, FrameFailsStep
  DEF WarcNext

-----------------------------------------------------------------------------
(***************************************************************************)
(* storage.rs, ArchiveWriter: whatever is written, rolled, killed and      *)
(* started again, the files are in order and every loss is a cut.          *)
(***************************************************************************)
THEOREM SpecWarcIInv == WarcSpec => []WarcIInv
<1> QED
  BY InitWarcIInv, NextWarcIInv, PTL DEF WarcSpec

(***************************************************************************)
(* storage.rs, write_page: the record goes before the frame, so a page     *)
(* that is handed over and not archived was cut off by a kill or an error. *)
(***************************************************************************)
THEOREM SpecArchiveCoversSpool == WarcSpec => []ArchiveCoversSpool
<1>1. WarcIInv => ArchiveCoversSpool
  <2> SUFFICES ASSUME WarcIInv PROVE ArchiveCoversSpool
    OBVIOUS
  <2>1. LossesAreCut(files, handed) /\ InOrder(files)
    BY DEF WarcIInv, FilesSound, LossesAreCut, Given
  <2> QED
    BY <2>1 DEF ArchiveCoversSpool
<1> QED
  BY <1>1, SpecWarcIInv, PTL

-----------------------------------------------------------------------------
(* State files and the cache of their parse *)

\* The steps of the process that writes the file keep the invariant: a version
\* under the file's name is only ever replaced by a later one.
LEMMA WriterKeepsStateFile ==
    ASSUME StateFileIInv, BeginTemporary \/ FillTemporary \/ Rename
    PROVE  StateFileIInv'
<1> USE DEF StateFileIInv, StateFileTypeOK, RenamesAscend, ReadAfterStat, NoTemporary
<1>1. CASE BeginTemporary
  BY <1>1 DEF BeginTemporary
<1>2. CASE FillTemporary
  BY <1>2 DEF FillTemporary
<1>3. CASE Rename
  <2>1. onDisk < temporary.version
    BY <1>3 DEF Rename
  <2>2. StateFileTypeOK' /\ RenamesAscend'
    BY <1>3 DEF Rename
  <2>3. ReadAfterStat'
    BY <1>3, <2>1 DEF Rename
  <2> QED
    BY <2>2, <2>3
<1> QED
  BY <1>1, <1>2, <1>3

\* So do the steps of a call of _cached_json.
LEMMA ReaderKeepsStateFile ==
    ASSUME StateFileIInv, NEW r \in Reader,
           Stat(r) \/ Hit(r) \/ Miss(r) \/ ReadText(r) \/ Store(r)
    PROVE  StateFileIInv'
<1> USE DEF StateFileIInv, StateFileTypeOK, RenamesAscend, ReadAfterStat
<1>1. CASE Stat(r)
  BY <1>1 DEF Stat
<1>2. CASE Hit(r)
  BY <1>2, ZenonT(30) DEF Hit
<1>3. CASE Miss(r)
  BY <1>3 DEF Miss
<1>4. CASE ReadText(r)
  <2>1. StateFileTypeOK' /\ RenamesAscend'
    BY <1>4, ZenonT(30) DEF ReadText
  <2>2. /\ reading'[r].at = "read" /\ reading'[r].version = onDisk
        /\ reading'[r].identity = reading[r].identity
        /\ reading'[r].since = reading[r].since
        /\ \A q \in Reader \ {r} : reading'[q] = reading[q]
    BY <1>4 DEF ReadText
  <2>3. reading[r].at = "missed" /\ onDisk' = onDisk /\ parsed' = parsed
    BY <1>4 DEF ReadText
  <2>4. ReadAfterStat'
    BY <2>2, <2>3
  <2> QED
    BY <2>1, <2>4
<1>5. CASE Store(r)
  BY <1>5 DEF Store, IdentityToStore
<1> QED
  BY <1>1, <1>2, <1>3, <1>4, <1>5

\* The inductive invariant of a state file and the cache of its parse.
THEOREM SpecStateFileIInv == StateFileSpec => []StateFileIInv
<1>1. StateFileInit => StateFileIInv
  BY DEF StateFileInit, StateFileIInv, StateFileTypeOK, RenamesAscend, ReadAfterStat,
         NoTemporary, Resting
<1>2. StateFileIInv /\ [StateFileNext]_stateFileVars => StateFileIInv'
  <2> SUFFICES ASSUME StateFileIInv, [StateFileNext]_stateFileVars
               PROVE  StateFileIInv'
    OBVIOUS
  <2>1. CASE UNCHANGED stateFileVars
    BY <2>1 DEF stateFileVars, StateFileIInv, StateFileTypeOK, RenamesAscend, ReadAfterStat
  <2> QED
    BY <2>1, WriterKeepsStateFile, ReaderKeepsStateFile DEF StateFileNext
<1> QED
  BY <1>1, <1>2, PTL DEF StateFileSpec

\* A call of _cached_json (index_state.py:57) returns a version no older than the
\* file was when the call began, however many threads read and store.
THEOREM SpecReadsAreFresh == StateFileSpec => []ReadsAreFresh
<1>1. StateFileIInv => ReadsAreFresh
  BY DEF StateFileIInv, StateFileTypeOK, ReadAfterStat, ReadsAreFresh
<1> QED
  BY <1>1, SpecStateFileIInv, PTL

-----------------------------------------------------------------------------
(* The claim of the start-up chime *)

\* The lock is what keeps a worker from writing over another's stamp: while one
\* is between its second look and the stamp, no stamp becomes recent.
LEMMA WriteStampKeepsChime ==
    ASSUME ChimeIInv, NEW w \in Worker, WriteStamp(w)
    PROVE  ChimeIInv'
<1> USE ChimeAssumption DEF NoStamp, RecentlyAnnounced
<1>1. /\ step[w] = "writing" /\ step' = [step EXCEPT ![w] = "claimed"]
      /\ stamp' = clock /\ clock' = clock /\ played' = played
      /\ claimed' = [claimed EXCEPT ![w] = clock]
      /\ lockedBy' = lockedBy \ {w}
  BY DEF WriteStamp, Goes
<1>2. /\ ~RecentlyAnnounced
      /\ lockedBy = {w}
  BY <1>1 DEF ChimeIInv, WriterSawNoStamp, LockIsHeld
<1>3. \A v \in Worker : step[v] # "claimed"
  BY <1>2 DEF ChimeIInv, ClaimStands
<1>4. \A v \in Worker \ {w} : step[v] \notin {"locked", "writing"}
  BY <1>2 DEF ChimeIInv, LockIsHeld
<1>5. \A p \in played : p[2] \in Nat /\ p[2] + Window <= clock
  BY <1>2 DEF ChimeIInv, PlayedApart, ChimeTypeOK
<1>6. ChimeTypeOK'
  BY <1>1 DEF ChimeIInv, ChimeTypeOK
<1>7. LockIsHeld' /\ WriterSawNoStamp'
  BY <1>1, <1>4 DEF LockIsHeld, WriterSawNoStamp, ChimeIInv, ChimeTypeOK
<1>8. ClaimStands'
  BY <1>1, <1>3, <1>5 DEF ClaimStands, ChimeIInv, ChimeTypeOK
<1>9. PlayedApart'
  BY <1>1, <1>5 DEF PlayedApart, ChimeIInv, ChimeTypeOK
<1> QED
  BY <1>6, <1>7, <1>8, <1>9 DEF ChimeIInv

\* A claim is alone when it is played, and the sounds before it are a window away.
LEMMA PlayKeepsChime ==
    ASSUME ChimeIInv, NEW w \in Worker, Play(w)
    PROVE  ChimeIInv'
<1> USE ChimeAssumption DEF NoStamp, RecentlyAnnounced
<1>1. /\ step[w] = "claimed" /\ step' = [step EXCEPT ![w] = "done"]
      /\ stamp' = stamp /\ clock' = clock /\ claimed' = claimed
      /\ lockedBy' = lockedBy
      /\ played' = played \cup {<<w, claimed[w]>>}
  BY DEF Play, Goes
<1>2. /\ stamp = claimed[w] /\ stamp \in Nat
      /\ \A v \in Worker : step[v] = "claimed" => v = w
      /\ \A p \in played : p[2] + Window <= claimed[w]
  BY <1>1 DEF ChimeIInv, ClaimStands, ChimeTypeOK
<1>3. ChimeTypeOK' /\ LockIsHeld' /\ WriterSawNoStamp'
  BY <1>1, <1>2 DEF ChimeIInv, ChimeTypeOK, LockIsHeld, WriterSawNoStamp
<1>4. ClaimStands'
  BY <1>1, <1>2 DEF ChimeIInv, ClaimStands, ChimeTypeOK
<1>5. PlayedApart'
  BY <1>1, <1>2 DEF ChimeIInv, PlayedApart, ChimeTypeOK
<1> QED
  BY <1>3, <1>4, <1>5 DEF ChimeIInv

\* Giving a claim back removes its own stamp, no other worker's.
LEMMA ReleaseKeepsChime ==
    ASSUME ChimeIInv, NEW w \in Worker, Release(w)
    PROVE  ChimeIInv'
<1> USE ChimeAssumption DEF NoStamp, RecentlyAnnounced
<1>1. /\ step[w] = "claimed" /\ step' = [step EXCEPT ![w] = "done"]
      /\ stamp' = NoStamp /\ clock' = clock /\ claimed' = claimed
      /\ lockedBy' = lockedBy /\ played' = played
  BY DEF Release, Goes
<1>2. /\ stamp = claimed[w] /\ stamp \in Nat /\ stamp <= clock
      /\ \A v \in Worker : step[v] = "claimed" => v = w
      /\ \A p \in played : p[2] \in Nat /\ p[2] + Window <= claimed[w]
  BY <1>1 DEF ChimeIInv, ClaimStands, ChimeTypeOK
<1>3. ChimeTypeOK' /\ LockIsHeld' /\ WriterSawNoStamp'
  BY <1>1 DEF ChimeIInv, ChimeTypeOK, LockIsHeld, WriterSawNoStamp
<1>4. ClaimStands'
  BY <1>1, <1>2 DEF ChimeIInv, ClaimStands, ChimeTypeOK
<1>5. PlayedApart'
  BY <1>1, <1>2 DEF ChimeIInv, PlayedApart, ChimeTypeOK
<1> QED
  BY <1>3, <1>4, <1>5 DEF ChimeIInv

\* The steps before a claim, and a kill: none of them makes a stamp recent.
LEMMA WorkerKeepsChime ==
    ASSUME ChimeIInv, NEW w \in Worker,
           LookFirst(w) \/ TryLock(w) \/ LookAgain(w) \/ KillWorker(w)
    PROVE  ChimeIInv'
<1> USE DEF ChimeIInv
<1>1. /\ clock' = clock /\ stamp' = stamp /\ claimed' = claimed /\ played' = played
      /\ \E s \in {"lock", "locked", "writing", "done"} : step' = [step EXCEPT ![w] = s]
  BY DEF LookFirst, TryLock, LookAgain, KillWorker, Goes
<1>2. /\ \A v \in Worker \ {w} : step'[v] = step[v]
      /\ step'[w] \in {"lock", "locked", "writing", "done"}
  BY <1>1 DEF ChimeTypeOK
<1>3. ChimeTypeOK'
  <2>1. lockedBy' \subseteq Worker
    BY DEF LookFirst, TryLock, LookAgain, KillWorker, ChimeTypeOK
  <2> QED
    BY <1>1, <2>1 DEF ChimeTypeOK
<1>4. LockIsHeld'
  <2>1. CASE LookFirst(w)
    BY <2>1 DEF LookFirst, Goes, LockIsHeld, ChimeTypeOK
  <2>2. CASE TryLock(w)
    BY <2>2 DEF TryLock, Goes, LockIsHeld, ChimeTypeOK
  <2>3. CASE LookAgain(w)
    BY <2>3 DEF LookAgain, Goes, LockIsHeld, ChimeTypeOK
  <2>4. CASE KillWorker(w)
    BY <2>4 DEF KillWorker, LockIsHeld, ChimeTypeOK
  <2> QED
    BY <2>1, <2>2, <2>3, <2>4
<1>5. RecentlyAnnounced' = RecentlyAnnounced
  BY <1>1 DEF RecentlyAnnounced
<1>6. WriterSawNoStamp'
  <2>1. step'[w] = "writing" => ~RecentlyAnnounced
    BY DEF LookFirst, TryLock, LookAgain, KillWorker, Goes, AlreadyAnnounced, ChimeTypeOK
  <2> QED
    BY <1>2, <1>5, <2>1 DEF WriterSawNoStamp
<1>7. ClaimStands'
  BY <1>1, <1>2, <1>5 DEF ClaimStands
<1>8. PlayedApart'
  BY <1>1 DEF PlayedApart
<1> QED
  BY <1>3, <1>4, <1>6, <1>7, <1>8

\* Time passes: nothing becomes recent, and a claim stays so until it is used.
LEMMA TickKeepsChime ==
    ASSUME ChimeIInv, Tick
    PROVE  ChimeIInv'
<1> USE ChimeAssumption DEF NoStamp, RecentlyAnnounced, Tick
<1>1. ChimeTypeOK' /\ LockIsHeld'
  BY DEF ChimeIInv, ChimeTypeOK, LockIsHeld
<1>2. WriterSawNoStamp'
  BY DEF ChimeIInv, ChimeTypeOK, WriterSawNoStamp
<1>3. ClaimStands'
  BY DEF ChimeIInv, ChimeTypeOK, ClaimStands
<1>4. PlayedApart'
  BY DEF ChimeIInv, ChimeTypeOK, PlayedApart
<1> QED
  BY <1>1, <1>2, <1>3, <1>4 DEF ChimeIInv

\* The inductive invariant of the start-up claim.
THEOREM SpecChimeIInv == ChimeSpec => []ChimeIInv
<1>1. ChimeInit => ChimeIInv
  BY DEF ChimeInit, ChimeIInv, ChimeTypeOK, LockIsHeld, WriterSawNoStamp, ClaimStands,
         PlayedApart, NoStamp
<1>2. ChimeIInv /\ [ChimeNext]_chimeVars => ChimeIInv'
  <2> SUFFICES ASSUME ChimeIInv, [ChimeNext]_chimeVars
               PROVE  ChimeIInv'
    OBVIOUS
  <2>1. CASE UNCHANGED chimeVars
    BY <2>1 DEF chimeVars, ChimeIInv, ChimeTypeOK, LockIsHeld, WriterSawNoStamp,
                ClaimStands, PlayedApart, RecentlyAnnounced
  <2> QED
    BY <2>1, TickKeepsChime, WorkerKeepsChime, WriteStampKeepsChime, PlayKeepsChime,
       ReleaseKeepsChime DEF ChimeNext
<1> QED
  BY <1>1, <1>2, PTL DEF ChimeSpec

\* However many workers start, die and give their claims back, two sounds are a
\* window apart, and a claim's stamp is its own (sound.py:133-238).
THEOREM SpecChimeOnce == ChimeSpec => []ChimeOnce
<1>1. ChimeIInv => ChimeOnce
  BY DEF ChimeIInv, PlayedApart, ClaimStands, ChimeOnce
<1> QED
  BY <1>1, SpecChimeIInv, PTL

-----------------------------------------------------------------------------
(* Sums *)
Numbers(f, n) == \A i \in 1 .. n : f[i] \in Nat

Sums(s, f, n) ==
    /\ s \in [0 .. n -> Nat] /\ s[0] = 0
    /\ \A i \in 1 .. n : s[i] = s[i - 1] + f[i]
    /\ SumOf(f, n) = s[n]

LEMMA SumRuns ==
    ASSUME NEW n \in Nat, NEW f, Numbers(f, n)
    PROVE  \E s : Sums(s, f, n)
<1> DEFINE turn == [x \in (1 .. n) \X Nat |-> x[2] + f[x[1]]]
           Loop(g) == g = [i \in 0 .. n |-> IF i = 0 THEN 0 ELSE g[i - 1] + f[i]]
<1>1. \A i \in 1 .. n : f[i] \in Nat
  BY DEF Numbers
<1>2. \A i \in 1 .. n : \A x \in Nat : turn[<<i, x>>] \in Nat /\ turn[<<i, x>>] = x + f[i]
  BY <1>1
<1> HIDE DEF turn
<1>3. PICK g : Runs(g, n, Nat, 0, turn)
  BY <1>2, LoopRuns
<1>4. /\ g \in [0 .. n -> Nat] /\ g[0] = 0
      /\ \A i \in 1 .. n : g[i] = turn[<<i, g[i - 1]>>]
  BY <1>3 DEF Runs
<1>5. \A i \in 1 .. n : g[i] = g[i - 1] + f[i]
  <2>1. \A i \in 1 .. n : i - 1 \in 0 .. n
    OBVIOUS
  <2> QED
    BY <1>2, <1>4, <2>1
<1>6. Loop(g)
  <2>1. \A i \in 0 .. n : i = 0 \/ i \in 1 .. n
    OBVIOUS
  <2> QED
    BY <1>4, <1>5, <2>1
<1> DEFINE sofar == CHOOSE h : Loop(h)
<1>7. Loop(sofar)
  <2> HIDE DEF Loop
  <2> QED
    BY <1>6
<1>8. SumOf(f, n) = sofar[n]
  BY DEF SumOf
<1> HIDE DEF sofar
<1>9. sofar[0] = 0 /\ \A i \in 1 .. n : sofar[i] = sofar[i - 1] + f[i]
  BY <1>7
<1> DEFINE S == {m \in Nat : m <= n => sofar[m] = g[m]}
<1>10. 0 \in S
  BY <1>4, <1>9
<1>11. ASSUME NEW m \in Nat, m \in S PROVE m + 1 \in S
  <2> SUFFICES ASSUME m + 1 <= n PROVE sofar[m + 1] = g[m + 1]
    OBVIOUS
  <2>1. m + 1 \in 1 .. n /\ (m + 1) - 1 = m /\ m <= n
    OBVIOUS
  <2>2. sofar[m] = g[m]
    BY <1>11, <2>1
  <2> QED
    BY <1>5, <1>9, <2>1, <2>2
<1> HIDE DEF S
<1>12. n \in S
  BY <1>10, <1>11, NatBySteps
<1>13. sofar[n] = g[n]
  BY <1>12 DEF S
<1> QED
  BY <1>4, <1>5, <1>8, <1>13 DEF Sums

\* A sum of numbers is one.
LEMMA SumIsNat ==
    ASSUME NEW n \in Nat, NEW f, Numbers(f, n)
    PROVE  SumOf(f, n) \in Nat
<1>1. PICK s : Sums(s, f, n)
  BY SumRuns
<1> QED
  BY <1>1 DEF Sums

\* The parts of a sum are within it.
LEMMA SumHolds ==
    ASSUME NEW n \in Nat, NEW f, Numbers(f, n), NEW p \in 1 .. n
    PROVE  f[p] <= SumOf(f, n)
<1>1. PICK s : Sums(s, f, n)
  BY SumRuns
<1>2. /\ s \in [0 .. n -> Nat] /\ SumOf(f, n) = s[n]
      /\ \A i \in 1 .. n : s[i] = s[i - 1] + f[i] /\ f[i] \in Nat
  BY <1>1 DEF Sums, Numbers
<1> DEFINE S == {m \in Nat : p + m <= n => f[p] <= s[p + m]}
<1>3. 0 \in S
  <2>1. s[p] = s[p - 1] + f[p] /\ p - 1 \in 0 .. n
    BY <1>2
  <2>2. s[p - 1] \in Nat /\ f[p] \in Nat
    BY <1>2, <2>1
  <2>3. f[p] <= s[p] /\ p + 0 = p
    BY <2>1, <2>2
  <2> QED
    BY <2>3
<1>4. ASSUME NEW m \in Nat, m \in S PROVE m + 1 \in S
  <2> SUFFICES ASSUME p + (m + 1) <= n PROVE f[p] <= s[p + (m + 1)]
    OBVIOUS
  <2>1. PICK q \in Nat : q = p + (m + 1)
    OBVIOUS
  <2>2. q \in 1 .. n /\ q - 1 = p + m /\ p + m \in 0 .. n /\ p + m <= n
    BY <2>1
  <2>3. f[p] <= s[p + m]
    BY <1>4, <2>2
  <2>4. s[q] = s[p + m] + f[q] /\ f[q] \in Nat /\ s[p + m] \in Nat /\ f[p] \in Nat
    BY <1>2, <2>2
  <2> QED
    BY <2>1, <2>3, <2>4
<1> HIDE DEF S
<1>5. n - p \in S
  <2>1. n - p \in Nat
    OBVIOUS
  <2> QED
    BY <1>3, <1>4, <2>1, NatBySteps
<1>6. p + (n - p) = n /\ n <= n
  OBVIOUS
<1> QED
  BY <1>2, <1>5, <1>6 DEF S

\* Sums of the same numbers, one of them replaced.
LEMMA SumReplaced ==
    ASSUME NEW n \in Nat, NEW f, Numbers(f, n), NEW h, Numbers(h, n), NEW p \in 1 .. n,
           \A i \in 1 .. n : i # p => h[i] = f[i]
    PROVE  SumOf(h, n) + f[p] = SumOf(f, n) + h[p]
<1>1. PICK s : Sums(s, f, n)
  BY SumRuns
<1>2. PICK t : Sums(t, h, n)
  BY SumRuns
<1>3. /\ s \in [0 .. n -> Nat] /\ s[0] = 0 /\ SumOf(f, n) = s[n]
      /\ \A i \in 1 .. n : s[i] = s[i - 1] + f[i] /\ f[i] \in Nat
  BY <1>1 DEF Sums, Numbers
<1>4. /\ t \in [0 .. n -> Nat] /\ t[0] = 0 /\ SumOf(h, n) = t[n]
      /\ \A i \in 1 .. n : t[i] = t[i - 1] + h[i] /\ h[i] \in Nat
  BY <1>2 DEF Sums, Numbers
<1> DEFINE Close(m) == IF m < p THEN t[m] = s[m] ELSE t[m] + f[p] = s[m] + h[p]
           S == {m \in Nat : m <= n => Close(m)}
<1>5. 0 \in S
  BY <1>3, <1>4
<1>6. ASSUME NEW m \in Nat, m \in S PROVE m + 1 \in S
  <2> SUFFICES ASSUME m + 1 <= n PROVE Close(m + 1)
    <3> HIDE DEF Close
    <3> QED
      OBVIOUS
  <2>1. PICK q \in 1 .. n : q = m + 1
    OBVIOUS
  <2>2. q - 1 = m /\ m <= n /\ m \in 0 .. n
    BY <2>1
  <2>3. Close(m)
    <3> HIDE DEF Close
    <3> QED
      BY <1>6, <2>2
  <2>4. s[q] = s[m] + f[q] /\ t[q] = t[m] + h[q]
    BY <1>3, <1>4, <2>2
  <2>5. /\ s[m] \in Nat /\ t[m] \in Nat /\ f[q] \in Nat /\ h[q] \in Nat
        /\ f[p] \in Nat /\ h[p] \in Nat
    BY <1>3, <1>4, <2>2
  <2>6. CASE q < p
    <3>1. h[q] = f[q] /\ t[m] = s[m]
      BY <2>1, <2>3, <2>6
    <3> QED
      BY <2>1, <2>4, <2>6, <3>1
  <2>7. CASE q = p
    <3>1. t[m] = s[m]
      BY <2>1, <2>3, <2>7
    <3> QED
      BY <2>1, <2>4, <2>5, <2>7, <3>1
  <2>8. CASE q > p
    <3>1. h[q] = f[q] /\ t[m] + f[p] = s[m] + h[p]
      BY <2>1, <2>3, <2>8
    <3> QED
      BY <2>1, <2>4, <2>5, <2>8, <3>1
  <2> QED
    BY <2>6, <2>7, <2>8
<1> HIDE DEF S
<1>7. n \in S
  BY <1>5, <1>6, NatBySteps
<1>8. Close(n)
  <2> HIDE DEF Close
  <2>1. n <= n
    OBVIOUS
  <2> QED
    BY <1>7, <2>1 DEF S
<1> QED
  BY <1>3, <1>4, <1>8

\* Zeros add nothing.
LEMMA SumExtended ==
    ASSUME NEW n \in Nat, NEW k \in Nat, n <= k, NEW f, Numbers(f, n), NEW h,
           \A i \in 1 .. n : h[i] = f[i], \A i \in n + 1 .. k : h[i] = 0
    PROVE  SumOf(h, k) = SumOf(f, n)
<1>1. PICK s : Sums(s, f, n)
  BY SumRuns
<1>2. Numbers(h, k)
  <2>1. \A i \in 1 .. k : i \in 1 .. n \/ i \in n + 1 .. k
    OBVIOUS
  <2> QED
    BY <2>1 DEF Numbers
<1>3. PICK t : Sums(t, h, k)
  BY <1>2, SumRuns
<1>4. /\ s \in [0 .. n -> Nat] /\ s[0] = 0 /\ SumOf(f, n) = s[n]
      /\ \A i \in 1 .. n : s[i] = s[i - 1] + f[i]
  BY <1>1 DEF Sums
<1>5. /\ t \in [0 .. k -> Nat] /\ t[0] = 0 /\ SumOf(h, k) = t[k]
      /\ \A i \in 1 .. k : t[i] = t[i - 1] + h[i]
  BY <1>3 DEF Sums
<1> DEFINE Close(m) == IF m <= n THEN t[m] = s[m] ELSE t[m] = s[n]
           S == {m \in Nat : m <= k => Close(m)}
<1>6. 0 \in S
  BY <1>4, <1>5
<1>7. ASSUME NEW m \in Nat, m \in S PROVE m + 1 \in S
  <2> SUFFICES ASSUME m + 1 <= k PROVE Close(m + 1)
    <3> HIDE DEF Close
    <3> QED
      OBVIOUS
  <2>1. PICK q \in 1 .. k : q = m + 1
    OBVIOUS
  <2>2. q - 1 = m /\ m <= k /\ m \in 0 .. k
    BY <2>1
  <2>3. Close(m)
    <3> HIDE DEF Close
    <3> QED
      BY <1>7, <2>2
  <2>4. t[q] = t[m] + h[q] /\ t[m] \in Nat
    BY <1>5, <2>2
  <2>5. CASE q <= n
    <3>1. q \in 1 .. n /\ m <= n
      BY <2>1, <2>5
    <3>2. s[q] = s[m] + f[q] /\ h[q] = f[q] /\ t[m] = s[m]
      BY <1>4, <2>2, <2>3, <3>1
    <3> QED
      BY <2>1, <2>4, <2>5, <3>2
  <2>6. CASE q > n
    <3>1. q \in n + 1 .. k /\ (m <= n => m = n)
      BY <2>1, <2>6
    <3>2. h[q] = 0 /\ t[m] = s[n]
      BY <2>3, <3>1
    <3> QED
      BY <2>1, <2>4, <2>6, <3>2
  <2> QED
    BY <2>1, <2>5, <2>6
<1> HIDE DEF S
<1>8. k \in S
  BY <1>6, <1>7, NatBySteps
<1>9. Close(k)
  <2> HIDE DEF Close
  <2>1. k <= k
    OBVIOUS
  <2> QED
    BY <1>8, <2>1 DEF S
<1>10. t[k] = s[n]
  BY <1>9
<1> QED
  BY <1>4, <1>5, <1>10

-----------------------------------------------------------------------------
(* Recording a page *)
Distinct(nodes) == \A i, j \in 1 .. Len(nodes) : nodes[i] = nodes[j] => i = j
Interned(nodes) == nodes \in Seq(PageURL) /\ Distinct(nodes)
Extends(more, nodes) ==
    Len(nodes) <= Len(more) /\ \A i \in 1 .. Len(nodes) : more[i] = nodes[i]

LEMMA InternedOnce ==
    ASSUME NEW nodes, Interned(nodes), NEW url \in PageURL
    PROVE  /\ Interned(Intern(nodes, url)) /\ Extends(Intern(nodes, url), nodes)
           /\ Len(Intern(nodes, url)) = IF url \in ToSet(nodes) THEN Len(nodes)
                                        ELSE Len(nodes) + 1
           /\ url \in ToSet(Intern(nodes, url))
           /\ ToSet(Intern(nodes, url)) = ToSet(nodes) \cup {url}
<1>1. nodes \in Seq(PageURL) /\ Distinct(nodes)
  BY DEF Interned
<1>2. CASE url \in ToSet(nodes)
  <2>1. Intern(nodes, url) = nodes
    BY <1>2 DEF Intern
  <2> QED
    BY <1>1, <1>2, <2>1 DEF Interned, Extends
<1>3. CASE url \notin ToSet(nodes)
  <2>1. PICK more : more = Append(nodes, url)
    OBVIOUS
  <2>2. Intern(nodes, url) = more
    BY <1>3, <2>1 DEF Intern
  <2>3. /\ more \in Seq(PageURL) /\ Len(more) = Len(nodes) + 1
        /\ \A i \in 1 .. Len(nodes) : more[i] = nodes[i]
        /\ more[Len(nodes) + 1] = url /\ Len(nodes) \in Nat
    BY <1>1, <2>1
  <2>4. \A i \in 1 .. Len(nodes) : nodes[i] # url
    BY <1>1, <1>3 DEF ToSet
  <2>5. Distinct(more)
    <3> SUFFICES ASSUME NEW i \in 1 .. Len(more), NEW j \in 1 .. Len(more), more[i] = more[j]
                 PROVE  i = j
      BY DEF Distinct
    <3>1. (i \in 1 .. Len(nodes) \/ i = Len(nodes) + 1)
          /\ (j \in 1 .. Len(nodes) \/ j = Len(nodes) + 1)
      BY <2>3
    <3>2. CASE i \in 1 .. Len(nodes) /\ j \in 1 .. Len(nodes)
      BY <1>1, <2>3, <3>2 DEF Distinct
    <3>3. CASE i \in 1 .. Len(nodes) /\ j = Len(nodes) + 1
      BY <2>3, <2>4, <3>3
    <3>4. CASE i = Len(nodes) + 1 /\ j \in 1 .. Len(nodes)
      BY <2>3, <2>4, <3>4
    <3> QED
      BY <3>1, <3>2, <3>3, <3>4
  <2>6. ToSet(more) = ToSet(nodes) \cup {url}
    <3>1. DOMAIN more = 1 .. Len(nodes) + 1 /\ DOMAIN nodes = 1 .. Len(nodes)
      BY <1>1, <2>3
    <3>2. \A i \in 1 .. Len(nodes) + 1 : i \in 1 .. Len(nodes) \/ i = Len(nodes) + 1
      BY <2>3
    <3>3. Len(nodes) + 1 \in 1 .. Len(nodes) + 1
          /\ \A i \in 1 .. Len(nodes) : i \in 1 .. Len(nodes) + 1
      BY <2>3
    <3> QED
      BY <2>3, <3>1, <3>2, <3>3 DEF ToSet
  <2>7. Extends(more, nodes)
    BY <2>3 DEF Extends
  <2> QED
    BY <1>3, <2>2, <2>3, <2>5, <2>6, <2>7 DEF Interned
<1> QED
  BY <1>2, <1>3

\* A URL's node is the one that has it.
LEMMA NodeIsFound ==
    ASSUME NEW nodes, Interned(nodes), NEW url \in ToSet(nodes)
    PROVE  /\ NodeOf(nodes, url) \in 1 .. Len(nodes) /\ nodes[NodeOf(nodes, url)] = url
           /\ \A i \in 1 .. Len(nodes) : nodes[i] = url => i = NodeOf(nodes, url)
<1>1. DOMAIN nodes = 1 .. Len(nodes) /\ Distinct(nodes)
  BY DEF Interned
<1>2. \E i \in DOMAIN nodes : nodes[i] = url
  BY DEF ToSet
<1>3. NodeOf(nodes, url) \in DOMAIN nodes /\ nodes[NodeOf(nodes, url)] = url
  BY <1>2 DEF NodeOf
<1> QED
  BY <1>1, <1>3 DEF Distinct

\* A longer list of nodes extends a shorter one it is made of.
LEMMA ExtendsOn ==
    ASSUME NEW a, NEW b, NEW c, Interned(a), Interned(b), Interned(c), Extends(b, a), Extends(c, b)
    PROVE  Extends(c, a)
<1>1. Len(a) \in Nat /\ Len(b) \in Nat /\ Len(c) \in Nat
  BY DEF Interned
<1> QED
  BY <1>1 DEF Extends

\* A graph under way, and one turn of the loop of record.
Under == [nodes : Seq(PageURL), edges : Nat, targets : SUBSET Nat, full : BOOLEAN]

Turned(x, y, url, link) ==
    LET nodes == Intern(x.nodes, link)
        target == NodeOf(nodes, link)
        ends == x.full \/ x.edges >= MaxEdges \/ Len(x.nodes) >= MaxNodes
        known == link = url \/ target \in x.targets
    IN  /\ ends => /\ y.nodes = x.nodes /\ y.edges = x.edges /\ y.targets = x.targets
                    /\ y.full = TRUE
        /\ ~ends /\ known => /\ y.nodes = nodes /\ y.edges = x.edges
                              /\ y.targets = x.targets /\ y.full = x.full
        /\ ~ends /\ ~known => /\ y.nodes = nodes /\ y.edges = x.edges + 1
                               /\ y.targets = x.targets \cup {target} /\ y.full = x.full

LEMMA LinkAdded ==
    ASSUME NEW x, NEW nodes, NEW counted, NEW all,
           x = [nodes |-> x.nodes, edges |-> x.edges, targets |-> x.targets, full |-> x.full]
    PROVE  [x EXCEPT !.nodes = nodes, !.edges = counted, !.targets = all]
           = [nodes |-> nodes, edges |-> counted, targets |-> all, full |-> x.full]
<1>1. ASSUME NEW a, NEW b, NEW c, NEW d,
             x = [nodes |-> a, edges |-> b, targets |-> c, full |-> d]
      PROVE  [x EXCEPT !.nodes = nodes, !.edges = counted, !.targets = all]
             = [nodes |-> nodes, edges |-> counted, targets |-> all, full |-> d]
  <2>1. PICK y : y = [x EXCEPT !.nodes = nodes, !.edges = counted, !.targets = all]
    OBVIOUS
  <2>2. y = [nodes |-> nodes, edges |-> counted, targets |-> all, full |-> d]
    BY <1>1, <2>1
  <2> QED
    BY <2>1, <2>2
<1> QED
  BY <1>1

LEMMA LinkIsFollowed ==
    ASSUME NEW x \in Under, NEW url, NEW link \in PageURL
    PROVE  FollowLink(x, url, link) \in Under /\ Turned(x, FollowLink(x, url, link), url, link)
<1>1. PICK nodes : nodes = Intern(x.nodes, link)
  OBVIOUS
<1>2. PICK target : target = NodeOf(nodes, link)
  OBVIOUS
<1>3. /\ x = [nodes |-> x.nodes, edges |-> x.edges, targets |-> x.targets, full |-> x.full]
      /\ x.nodes \in Seq(PageURL) /\ x.edges \in Nat /\ x.targets \subseteq Nat
      /\ x.full \in BOOLEAN
  BY DEF Under
<1>4. nodes \in Seq(PageURL) /\ link \in ToSet(nodes)
  <2>1. CASE link \in ToSet(x.nodes)
    BY <1>1, <1>3, <2>1 DEF Intern
  <2>2. CASE link \notin ToSet(x.nodes)
    <3>1. nodes = Append(x.nodes, link)
      BY <1>1, <2>2 DEF Intern
    <3>2. nodes \in Seq(PageURL) /\ Len(nodes) = Len(x.nodes) + 1 /\ nodes[Len(nodes)] = link
      BY <1>3, <3>1
    <3>3. Len(nodes) \in DOMAIN nodes
      BY <1>3, <3>2
    <3> QED
      BY <3>2, <3>3 DEF ToSet
  <2> QED
    BY <2>1, <2>2
<1>5. target \in Nat
  <2>1. \E i \in DOMAIN nodes : nodes[i] = link
    BY <1>4 DEF ToSet
  <2>2. target \in DOMAIN nodes
    BY <1>2, <2>1 DEF NodeOf
  <2> QED
    BY <1>4, <2>2
<1>6. PICK y : y = FollowLink(x, url, link)
  OBVIOUS
<1>7. CASE x.full \/ x.edges >= MaxEdges \/ Len(x.nodes) >= MaxNodes
  <2>1. y = [x EXCEPT !.full = TRUE]
    BY <1>6, <1>7 DEF FollowLink
  <2>2. y = [nodes |-> x.nodes, edges |-> x.edges, targets |-> x.targets, full |-> TRUE]
    BY <1>3, <2>1
  <2>3. y \in Under
    BY <1>3, <2>2 DEF Under
  <2>4. y.nodes = x.nodes /\ y.edges = x.edges /\ y.targets = x.targets /\ y.full = TRUE
    BY <2>2
  <2>5. Turned(x, y, url, link)
    BY <1>7, <2>4 DEF Turned
  <2> QED
    BY <1>6, <2>3, <2>5
<1>8. CASE /\ ~(x.full \/ x.edges >= MaxEdges \/ Len(x.nodes) >= MaxNodes)
           /\ link = url \/ target \in x.targets
  <2>1. y = [x EXCEPT !.nodes = nodes]
    BY <1>1, <1>2, <1>6, <1>8 DEF FollowLink
  <2>2. y = [nodes |-> nodes, edges |-> x.edges, targets |-> x.targets, full |-> x.full]
    BY <1>3, <2>1
  <2>3. y \in Under
    BY <1>3, <1>4, <2>2 DEF Under
  <2>4. y.nodes = nodes /\ y.edges = x.edges /\ y.targets = x.targets /\ y.full = x.full
    BY <2>2
  <2>5. Turned(x, y, url, link)
    BY <1>1, <1>2, <1>8, <2>4 DEF Turned
  <2> QED
    BY <1>6, <2>3, <2>5
<1>9. CASE /\ ~(x.full \/ x.edges >= MaxEdges \/ Len(x.nodes) >= MaxNodes)
           /\ ~(link = url \/ target \in x.targets)
  <2>1. y = [x EXCEPT !.nodes = nodes, !.edges = x.edges + 1,
                      !.targets = x.targets \cup {target}]
    BY <1>1, <1>2, <1>6, <1>9 DEF FollowLink
  <2>2. y = [nodes |-> nodes, edges |-> x.edges + 1, targets |-> x.targets \cup {target},
             full |-> x.full]
    <3>1. PICK more : more = x.edges + 1
      OBVIOUS
    <3>2. PICK all : all = x.targets \cup {target}
      OBVIOUS
    <3>3. y = [x EXCEPT !.nodes = nodes, !.edges = more, !.targets = all]
      BY <2>1, <3>1, <3>2
    <3> QED
      BY <1>3, <3>1, <3>2, <3>3, LinkAdded
  <2>3. y \in Under
    BY <1>3, <1>4, <1>5, <2>2 DEF Under
  <2>4. /\ y.nodes = nodes /\ y.edges = x.edges + 1 /\ y.targets = x.targets \cup {target}
        /\ y.full = x.full
    BY <2>2
  <2>5. Turned(x, y, url, link)
    BY <1>1, <1>2, <1>9, <2>4 DEF Turned
  <2> QED
    BY <1>6, <2>3, <2>5
<1> QED
  BY <1>7, <1>8, <1>9

\* The loop of record, turn by turn.
Following(g, n, url, links, nodes, counted) ==
    /\ g \in [0 .. n -> Under]
    /\ g[0] = [nodes |-> nodes, edges |-> counted, targets |-> {}, full |-> FALSE]
    /\ \A i \in 1 .. n : Turned(g[i - 1], g[i], url, links[i])

LEMMA FollowLoop ==
    ASSUME NEW n \in Nat, NEW url \in PageURL, NEW links \in Seq(PageURL), Len(links) = n,
           Interned(ids), edges \in Nat
    PROVE  \E g : /\ Following(g, n, url, links, Intern(ids, url), edges)
                  /\ Follow(url, links) = g[n]
<1> DEFINE start == [nodes |-> Intern(ids, url), edges |-> edges, targets |-> {}, full |-> FALSE]
           turn == [x \in (1 .. n) \X Under |-> FollowLink(x[2], url, links[x[1]])]
           Loop(g) == g = [i \in 0 .. Len(links) |->
                             IF i = 0
                             THEN [nodes |-> Intern(ids, url), edges |-> edges, targets |-> {},
                                   full |-> FALSE]
                             ELSE FollowLink(g[i - 1], url, links[i])]
<1>1. start \in Under
  <2>1. Intern(ids, url) \in Seq(PageURL)
    BY InternedOnce DEF Interned
  <2> QED
    BY <2>1 DEF Under
<1>2. \A i \in 1 .. n : \A x \in Under :
          turn[<<i, x>>] \in Under /\ turn[<<i, x>>] = FollowLink(x, url, links[i])
  BY LinkIsFollowed
<1> HIDE DEF turn, start
<1>3. PICK g : Runs(g, n, Under, start, turn)
  BY <1>1, <1>2, LoopRuns
<1>4. /\ g \in [0 .. n -> Under] /\ g[0] = start
      /\ \A i \in 1 .. n : g[i] = turn[<<i, g[i - 1]>>]
  BY <1>3 DEF Runs
<1>5. \A i \in 1 .. n : i - 1 \in 0 .. n /\ g[i - 1] \in Under
  BY <1>4
<1>6. \A i \in 1 .. n : g[i] = FollowLink(g[i - 1], url, links[i])
  BY <1>2, <1>4, <1>5
<1>7. Loop(g)
  <2>1. \A i \in 0 .. n : i = 0 \/ i \in 1 .. n
    OBVIOUS
  <2> QED
    BY <1>4, <1>6, <2>1 DEF start
<1> DEFINE sofar == CHOOSE h : Loop(h)
<1>8. Loop(sofar)
  <2> HIDE DEF Loop
  <2> QED
    BY <1>7
<1>9. Follow(url, links) = sofar[n]
  BY DEF Follow
<1> HIDE DEF sofar
<1>10. sofar[0] = start /\ \A i \in 1 .. n : sofar[i] = FollowLink(sofar[i - 1], url, links[i])
  <2>1. sofar = [i \in 0 .. n |-> IF i = 0 THEN start ELSE FollowLink(sofar[i - 1], url, links[i])]
    BY <1>8 DEF start
  <2> HIDE DEF Loop
  <2>2. 0 \in 0 .. n /\ \A i \in 1 .. n : i \in 0 .. n /\ i # 0
    OBVIOUS
  <2> QED
    BY <2>1, <2>2
<1> HIDE DEF Loop
<1> DEFINE S == {m \in Nat : m <= n => sofar[m] = g[m]}
<1>11. 0 \in S
  BY <1>4, <1>10
<1>12. ASSUME NEW m \in Nat, m \in S PROVE m + 1 \in S
  <2> SUFFICES ASSUME m + 1 <= n PROVE sofar[m + 1] = g[m + 1]
    OBVIOUS
  <2>1. m + 1 \in 1 .. n /\ (m + 1) - 1 = m /\ m <= n
    OBVIOUS
  <2>2. sofar[m] = g[m]
    BY <1>12, <2>1
  <2> QED
    BY <1>6, <1>10, <2>1, <2>2
<1> HIDE DEF S
<1>13. n \in S
  BY <1>11, <1>12, NatBySteps
<1>14. sofar[n] = g[n]
  BY <1>13 DEF S
<1>15. \A i \in 1 .. n : Turned(g[i - 1], g[i], url, links[i])
  <2> TAKE i \in 1 .. n
  <2>1. PICK x \in Under : x = g[i - 1]
    BY <1>5
  <2>2. PICK link \in PageURL : link = links[i]
    OBVIOUS
  <2>3. g[i] = FollowLink(x, url, link)
    BY <1>6, <2>1, <2>2
  <2>4. Turned(x, FollowLink(x, url, link), url, link)
    BY LinkIsFollowed
  <2> QED
    BY <2>1, <2>2, <2>3, <2>4
<1>16. Following(g, n, url, links, Intern(ids, url), edges)
  BY <1>4, <1>15 DEF Following, start
<1> QED
  BY <1>9, <1>14, <1>16

\* What a graph under way holds after m links of a page.
Sound(x, m, url, links, nodes, counted) ==
    /\ x \in Under /\ Interned(x.nodes) /\ Extends(x.nodes, nodes)
    /\ \A t \in x.targets :
          t \in 1 .. Len(x.nodes) /\ x.nodes[t] # url /\ \E p \in 1 .. m : x.nodes[t] = links[p]
    /\ x.full \/ \A p \in 1 .. m : links[p] # url => \E t \in x.targets : x.nodes[t] = links[p]
    /\ IsFiniteSet(x.targets) /\ x.edges = counted + Cardinality(x.targets)
    /\ x.edges <= MaxEdges
    /\ Len(x.nodes) <= MaxNodes \/ Len(x.nodes) = Len(nodes)

LEMMA TurnIsSound ==
    ASSUME NEW x, NEW y \in Under, NEW m \in Nat, NEW url, NEW links \in Seq(PageURL),
           m + 1 \in 1 .. Len(links), NEW nodes, Interned(nodes), NEW counted \in Nat,
           Sound(x, m, url, links, nodes, counted), Turned(x, y, url, links[m + 1])
    PROVE  Sound(y, m + 1, url, links, nodes, counted)
<1>1. PICK link \in PageURL : link = links[m + 1]
  OBVIOUS
<1>2. PICK q \in Nat : q = m + 1
  OBVIOUS
<1>3. PICK more : more = Intern(x.nodes, link)
  OBVIOUS
<1>4. PICK target : target = NodeOf(more, link)
  OBVIOUS
<1>5. /\ x \in Under /\ Interned(x.nodes) /\ Extends(x.nodes, nodes)
      /\ \A t \in x.targets :
            t \in 1 .. Len(x.nodes) /\ x.nodes[t] # url
            /\ \E p \in 1 .. m : x.nodes[t] = links[p]
      /\ x.full \/ \A p \in 1 .. m : links[p] # url => \E t \in x.targets : x.nodes[t] = links[p]
      /\ IsFiniteSet(x.targets) /\ x.edges = counted + Cardinality(x.targets)
      /\ x.edges <= MaxEdges
      /\ Len(x.nodes) <= MaxNodes \/ Len(x.nodes) = Len(nodes)
  BY DEF Sound
<1>6. /\ Len(x.nodes) \in Nat /\ Len(nodes) \in Nat /\ x.edges \in Nat
      /\ x.full \in BOOLEAN /\ MaxEdges \in Nat /\ MaxNodes \in Nat
  BY <1>5, GraphAssumption, SMTT(30) DEF Under, Interned
<1>7. \A p : p \in 1 .. q <=> p \in 1 .. m \/ p = q
  BY <1>2
<1>8. /\ Interned(more) /\ Extends(more, x.nodes) /\ link \in ToSet(more)
      /\ Len(more) = Len(x.nodes) \/ Len(more) = Len(x.nodes) + 1
  BY <1>3, <1>5, InternedOnce
<1>9. target \in 1 .. Len(more) /\ more[target] = link
  BY <1>4, <1>8, NodeIsFound
<1>10. Extends(more, nodes)
  BY <1>5, <1>8, ExtendsOn
<1>11. /\ Len(x.nodes) <= Len(more) /\ Len(more) \in Nat
       /\ \A t \in 1 .. Len(x.nodes) : more[t] = x.nodes[t] /\ t \in 1 .. Len(more)
  BY <1>6, <1>8 DEF Extends
<1>12. CASE x.full \/ x.edges >= MaxEdges \/ Len(x.nodes) >= MaxNodes
  <2>1. y.nodes = x.nodes /\ y.edges = x.edges /\ y.targets = x.targets /\ y.full = TRUE
    BY <1>12 DEF Turned
  <2>2. \A t \in x.targets : \E p \in 1 .. q : x.nodes[t] = links[p]
    BY <1>5, <1>7
  <2>3. Sound(y, q, url, links, nodes, counted)
    BY <1>5, <2>1, <2>2 DEF Sound
  <2> QED
    BY <1>2, <2>3
<1>13. CASE /\ ~(x.full \/ x.edges >= MaxEdges \/ Len(x.nodes) >= MaxNodes)
            /\ link = url \/ target \in x.targets
  <2>1. y.nodes = more /\ y.edges = x.edges /\ y.targets = x.targets /\ y.full = x.full
    BY <1>1, <1>3, <1>4, <1>13 DEF Turned
  <2>2. \A t \in x.targets : t \in 1 .. Len(more) /\ more[t] = x.nodes[t]
    BY <1>5, <1>11
  <2>3. \A t \in x.targets : more[t] # url /\ \E p \in 1 .. q : more[t] = links[p]
    <3> TAKE t \in x.targets
    <3>1. x.nodes[t] # url /\ more[t] = x.nodes[t]
      BY <1>5, <2>2
    <3>2. PICK p \in 1 .. m : x.nodes[t] = links[p]
      BY <1>5
    <3>3. p \in 1 .. q
      BY <1>7
    <3> QED
      BY <3>1, <3>2, <3>3
  <2>4. \A p \in 1 .. q : links[p] # url => \E t \in x.targets : more[t] = links[p]
    <3> SUFFICES ASSUME NEW p \in 1 .. q, links[p] # url
                 PROVE  \E t \in x.targets : more[t] = links[p]
      OBVIOUS
    <3>1. CASE p \in 1 .. m
      <4>1. \E t \in x.targets : x.nodes[t] = links[p]
        BY <1>5, <1>13, <3>1
      <4> QED
        BY <2>2, <4>1
    <3>2. CASE p = q
      BY <1>1, <1>2, <1>9, <1>13, <3>2
    <3> QED
      BY <1>7, <3>1, <3>2
  <2>5. Len(more) <= MaxNodes
    BY <1>6, <1>8, <1>13
  <2>6. Sound(y, q, url, links, nodes, counted)
    BY <1>5, <1>8, <1>10, <2>1, <2>2, <2>3, <2>4, <2>5 DEF Sound
  <2> QED
    BY <1>2, <2>6
<1>14. CASE /\ ~(x.full \/ x.edges >= MaxEdges \/ Len(x.nodes) >= MaxNodes)
            /\ ~(link = url \/ target \in x.targets)
  <2>1. /\ y.nodes = more /\ y.edges = x.edges + 1 /\ y.targets = x.targets \cup {target}
        /\ y.full = x.full
    BY <1>1, <1>3, <1>4, <1>14 DEF Turned
  <2>2. \A t \in x.targets : t \in 1 .. Len(more) /\ more[t] = x.nodes[t]
    BY <1>5, <1>11
  <2>3. \A t \in y.targets : t \in 1 .. Len(more) /\ more[t] # url
                             /\ \E p \in 1 .. q : more[t] = links[p]
    <3> TAKE t \in y.targets
    <3>1. CASE t \in x.targets
      <4>1. t \in 1 .. Len(more) /\ more[t] = x.nodes[t]
        BY <2>2, <3>1
      <4>2. x.nodes[t] # url /\ \E p \in 1 .. m : x.nodes[t] = links[p]
        BY <1>5, <3>1
      <4> QED
        BY <1>7, <4>1, <4>2
    <3>2. CASE t = target
      BY <1>1, <1>2, <1>7, <1>9, <1>14, <3>2
    <3> QED
      BY <2>1, <3>1, <3>2
  <2>4. \A p \in 1 .. q : links[p] # url => \E t \in y.targets : more[t] = links[p]
    <3> SUFFICES ASSUME NEW p \in 1 .. q, links[p] # url
                 PROVE  \E t \in y.targets : more[t] = links[p]
      OBVIOUS
    <3>1. CASE p \in 1 .. m
      <4>1. \E t \in x.targets : x.nodes[t] = links[p]
        BY <1>5, <1>14, <3>1
      <4> QED
        BY <2>1, <2>2, <4>1
    <3>2. CASE p = q
      BY <1>1, <1>2, <1>9, <2>1, <3>2
    <3> QED
      BY <1>7, <3>1, <3>2
  <2>5. Len(more) <= MaxNodes
    BY <1>6, <1>8, <1>14
  <2>6. /\ IsFiniteSet(y.targets) /\ Cardinality(y.targets) = Cardinality(x.targets) + 1
        /\ Cardinality(x.targets) \in Nat
    <3>1. IsFiniteSet(x.targets) /\ target \notin x.targets
      BY <1>5, <1>14
    <3>2. /\ IsFiniteSet(x.targets \cup {target})
          /\ Cardinality(x.targets \cup {target}) = Cardinality(x.targets) + 1
      BY <3>1, FS_AddElement
    <3>3. Cardinality(x.targets) \in Nat
      BY <3>1, FS_CardinalityType
    <3> QED
      BY <2>1, <3>2, <3>3
  <2>7. y.edges = counted + Cardinality(y.targets) /\ y.edges <= MaxEdges
    <3>1. x.edges = counted + Cardinality(x.targets)
      BY <1>5
    <3>2. x.edges \in Nat /\ MaxEdges \in Nat /\ ~(x.edges >= MaxEdges)
      BY <1>6, <1>14
    <3>3. /\ Cardinality(y.targets) = Cardinality(x.targets) + 1
          /\ Cardinality(x.targets) \in Nat /\ y.edges = x.edges + 1
      BY <2>1, <2>6
    <3> QED
      BY <3>1, <3>2, <3>3
  <2>8. Sound(y, q, url, links, nodes, counted)
    BY <1>8, <1>10, <2>1, <2>3, <2>4, <2>5, <2>6, <2>7 DEF Sound
  <2> QED
    BY <1>2, <2>8
<1> QED
  BY <1>12, <1>13, <1>14

\* The whole loop.
LEMMA LoopIsSound ==
    ASSUME NEW url \in PageURL, NEW links \in Seq(PageURL), Interned(ids), edges \in Nat,
           edges <= MaxEdges
    PROVE  Sound(Follow(url, links), Len(links), url, links, Intern(ids, url), edges)
<1>1. PICK n \in Nat : n = Len(links)
  OBVIOUS
<1>2. PICK nodes : nodes = Intern(ids, url)
  OBVIOUS
<1>3. PICK g : Following(g, n, url, links, nodes, edges) /\ Follow(url, links) = g[n]
  BY <1>1, <1>2, FollowLoop
<1>4. /\ g \in [0 .. n -> Under]
      /\ g[0] = [nodes |-> nodes, edges |-> edges, targets |-> {}, full |-> FALSE]
      /\ \A i \in 1 .. n : Turned(g[i - 1], g[i], url, links[i])
  BY <1>3 DEF Following
<1>5. Interned(nodes) /\ Len(nodes) \in Nat
  BY <1>2, InternedOnce DEF Interned
<1> DEFINE S == {m \in Nat : m <= n => Sound(g[m], m, url, links, nodes, edges)}
<1>6. 0 \in S
  <2>1. PICK x \in Under : x = g[0]
    BY <1>4
  <2>2. x.nodes = nodes /\ x.edges = edges /\ x.targets = {} /\ x.full = FALSE
    BY <1>4, <2>1
  <2>3. IsFiniteSet({}) /\ Cardinality({}) = 0
    BY FS_EmptySet
  <2>4. Extends(nodes, nodes)
    BY <1>5 DEF Extends
  <2>5. \A p \in 1 .. 0 : FALSE
    OBVIOUS
  <2>6. Sound(x, 0, url, links, nodes, edges)
    BY <1>5, <2>2, <2>3, <2>4, <2>5 DEF Sound
  <2> QED
    BY <2>1, <2>6
<1>7. ASSUME NEW m \in Nat, m \in S PROVE m + 1 \in S
  <2> SUFFICES ASSUME m + 1 <= n PROVE Sound(g[m + 1], m + 1, url, links, nodes, edges)
    OBVIOUS
  <2>1. m + 1 \in 1 .. n /\ (m + 1) - 1 = m /\ m <= n /\ m \in 0 .. n /\ m + 1 \in 0 .. n
    OBVIOUS
  <2>2. PICK x : x = g[m]
    OBVIOUS
  <2>3. PICK y \in Under : y = g[m + 1]
    BY <1>4, <2>1
  <2>4. Sound(x, m, url, links, nodes, edges)
    BY <1>7, <2>1, <2>2
  <2>5. Turned(x, y, url, links[m + 1])
    BY <1>4, <2>1, <2>2, <2>3
  <2>6. Sound(y, m + 1, url, links, nodes, edges)
    BY <1>1, <1>5, <2>1, <2>4, <2>5, TurnIsSound
  <2> QED
    BY <2>3, <2>6
<1> HIDE DEF S
<1>8. n \in S
  BY <1>6, <1>7, NatBySteps
<1>9. Sound(g[n], n, url, links, nodes, edges)
  BY <1>8 DEF S
<1> QED
  BY <1>1, <1>2, <1>3, <1>9

-----------------------------------------------------------------------------
(* The graph and what was recorded *)
Record == [url : PageURL, links : Seq(PageURL)]
Urls(rec) == {rec[k].url : k \in DOMAIN rec}
Calls(rec, url) == {k \in DOMAIN rec : rec[k].url = url}
LinksOf(rec, url) ==
    IF Calls(rec, url) = {} THEN {} ELSE ToSet(rec[Max(Calls(rec, url))].links) \ {url}
TargetsOf(nodes, o, i) == {nodes[j] : j \in o[i]}
Degrees(nodes, o) == [i \in DOMAIN nodes |-> Cardinality(o[i])]

Shaped(nodes, o, e, cut, rec) ==
    /\ Interned(nodes) /\ o \in [1 .. Len(nodes) -> SUBSET (1 .. Len(nodes))]
    /\ e \in Nat /\ e <= MaxEdges /\ rec \in Seq(Record)
    /\ IsFiniteSet(Urls(rec)) /\ Urls(rec) \subseteq ToSet(nodes)
    /\ \A i \in 1 .. Len(nodes) : TargetsOf(nodes, o, i) \subseteq LinksOf(rec, nodes[i])
    /\ cut \/ \A i \in 1 .. Len(nodes) : TargetsOf(nodes, o, i) = LinksOf(rec, nodes[i])
    /\ e = SumOf(Degrees(nodes, o), Len(nodes))
    /\ Len(nodes) <= MaxNodes + Cardinality(Urls(rec))

\* One record more.
LEMMA OneMoreRecord ==
    ASSUME NEW rec \in Seq(Record), NEW call \in Record
    PROVE  /\ Append(rec, call) \in Seq(Record)
           /\ Urls(Append(rec, call)) = Urls(rec) \cup {call.url}
           /\ LinksOf(Append(rec, call), call.url) = ToSet(call.links) \ {call.url}
           /\ \A url : url # call.url => LinksOf(Append(rec, call), url) = LinksOf(rec, url)
<1>1. PICK more : more = Append(rec, call)
  OBVIOUS
<1>2. PICK n \in Nat : n = Len(rec)
  OBVIOUS
<1>3. PICK last \in Nat : last = n + 1
  OBVIOUS
<1>4. /\ more \in Seq(Record) /\ DOMAIN more = 1 .. last /\ DOMAIN rec = 1 .. n
      /\ \A k \in 1 .. n : more[k] = rec[k]
      /\ more[last] = call
  BY <1>1, <1>2, <1>3
<1>5. \A k : k \in 1 .. last <=> k \in 1 .. n \/ k = last
  BY <1>3
<1>6. Urls(more) = Urls(rec) \cup {call.url}
  <2>1. ASSUME NEW u \in Urls(more) PROVE u \in Urls(rec) \cup {call.url}
    <3>1. PICK k \in 1 .. last : u = more[k].url
      BY <1>4 DEF Urls
    <3>2. CASE k \in 1 .. n
      <4>1. u = rec[k].url
        BY <1>4, <3>1, <3>2
      <4> QED
        BY <1>4, <3>2, <4>1 DEF Urls
    <3>3. CASE k = last
      BY <1>4, <3>1, <3>3
    <3> QED
      BY <1>5, <3>2, <3>3
  <2>2. ASSUME NEW u \in Urls(rec) PROVE u \in Urls(more)
    <3>1. PICK k \in 1 .. n : u = rec[k].url
      BY <1>4 DEF Urls
    <3>2. k \in 1 .. last /\ u = more[k].url
      BY <1>4, <1>5, <3>1
    <3> QED
      BY <1>4, <3>2 DEF Urls
  <2>3. call.url \in Urls(more)
    <3>1. last \in 1 .. last
      BY <1>5
    <3> QED
      BY <1>4, <3>1 DEF Urls
  <2> QED
    BY <2>1, <2>2, <2>3
<1>7. LinksOf(more, call.url) = ToSet(call.links) \ {call.url}
  <2>1. last \in Calls(more, call.url)
    BY <1>4, <1>5 DEF Calls
  <2>2. \A k \in Calls(more, call.url) : k \in Nat /\ last >= k
    BY <1>3, <1>4 DEF Calls
  <2> DEFINE all == Calls(more, call.url)
  <2>3. Max(all) = last
    <3> HIDE DEF all
    <3>1. last \in all /\ \A k \in all : k \in Nat /\ last >= k
      BY <2>1, <2>2 DEF all
    <3>2. \A k \in all : (\A l \in all : k >= l) => k = last
      BY <3>1
    <3> QED
      BY <3>1, <3>2 DEF Max
  <2> QED
    BY <1>4, <2>1, <2>3 DEF LinksOf
<1>8. ASSUME NEW url, url # call.url PROVE LinksOf(more, url) = LinksOf(rec, url)
  <2>1. Calls(more, url) = Calls(rec, url)
    <3>1. ASSUME NEW k \in Calls(more, url) PROVE k \in Calls(rec, url)
      <4>1. k \in 1 .. last /\ more[k].url = url
        BY <1>4, <3>1 DEF Calls
      <4>2. k # last
        BY <1>4, <1>8, <4>1
      <4>3. k \in 1 .. n
        BY <1>5, <4>1, <4>2
      <4> QED
        BY <1>4, <4>1, <4>3 DEF Calls
    <3>2. ASSUME NEW k \in Calls(rec, url) PROVE k \in Calls(more, url)
      <4>1. k \in 1 .. n /\ rec[k].url = url
        BY <1>4, <3>2 DEF Calls
      <4>2. k \in 1 .. last /\ more[k].url = url
        BY <1>4, <1>5, <4>1
      <4> QED
        BY <1>4, <4>2 DEF Calls
    <3> QED
      BY <3>1, <3>2
  <2>2. CASE Calls(rec, url) = {}
    BY <2>1, <2>2 DEF LinksOf
  <2>3. CASE Calls(rec, url) # {}
    <3> DEFINE all == Calls(rec, url)
    <3>1. all \subseteq 0 .. n /\ all \subseteq 1 .. n
      BY <1>4 DEF Calls
    <3>2. all # {}
      BY <2>3
    <3> HIDE DEF all
    <3>3. PICK k \in all : \A l \in all : l <= k
      BY <3>1, <3>2, GreatestOf
    <3>4. \A l \in all : k >= l
      BY <3>1, <3>3
    <3>5. Max(all) \in all
      BY <3>4 DEF Max
    <3>6. more[Max(all)] = rec[Max(all)]
      BY <1>4, <3>1, <3>5
    <3>7. more[Max(Calls(rec, url))] = rec[Max(Calls(rec, url))]
      BY <3>6 DEF all
    <3> QED
      BY <2>1, <2>3, <3>7 DEF LinksOf
  <2> QED
    BY <2>2, <2>3
<1> QED
  BY <1>1, <1>4, <1>6, <1>7, <1>8

\* A page never recorded has no links.
LEMMA NeverRecorded ==
    ASSUME NEW rec, NEW url, url \notin Urls(rec)
    PROVE  LinksOf(rec, url) = {}
<1>1. Calls(rec, url) = {}
  BY DEF Calls, Urls
<1> QED
  BY <1>1 DEF LinksOf

\* The degrees of a graph are numbers.
LEMMA DegreesAreNumbers ==
    ASSUME NEW nodes, Interned(nodes), NEW o \in [1 .. Len(nodes) -> SUBSET (1 .. Len(nodes))]
    PROVE  /\ Numbers(Degrees(nodes, o), Len(nodes))
           /\ \A i \in 1 .. Len(nodes) : /\ IsFiniteSet(o[i])
                                         /\ Degrees(nodes, o)[i] = Cardinality(o[i])
<1>1. DOMAIN nodes = 1 .. Len(nodes) /\ Len(nodes) \in Nat
  BY DEF Interned
<1>2. IsFiniteSet(1 .. Len(nodes))
  BY <1>1, FS_Interval
<1>3. ASSUME NEW i \in 1 .. Len(nodes)
      PROVE  /\ IsFiniteSet(o[i]) /\ Cardinality(o[i]) \in Nat
             /\ Degrees(nodes, o)[i] = Cardinality(o[i])
  <2>1. o[i] \subseteq 1 .. Len(nodes)
    OBVIOUS
  <2>2. IsFiniteSet(o[i])
    BY <1>2, <2>1, FS_Subset
  <2>3. Cardinality(o[i]) \in Nat
    BY <2>2, FS_CardinalityType
  <2> QED
    BY <1>1, <2>2, <2>3 DEF Degrees
<1> QED
  BY <1>3 DEF Numbers

\* Recording a page keeps the graph what was recorded.
LEMMA RecordedShape ==
    ASSUME Shaped(ids, out, edges, truncated, recorded), truncated \in BOOLEAN,
           NEW url \in PageURL, NEW links \in Seq(PageURL),
           NEW g, g = Follow(url, links), NEW src, src = NodeOf(g.nodes, url),
           NEW o, o = [i \in DOMAIN g.nodes |->
                         IF i = src THEN g.targets ELSE IF i \in DOMAIN out THEN out[i] ELSE {}],
           NEW e, e = Replacing(g.edges, IF src \in DOMAIN out THEN out[src] ELSE {}),
           NEW rec, rec = Append(recorded, [url |-> url, links |-> links])
    PROVE  Shaped(g.nodes, o, e, truncated \/ g.full, rec)
<1>1. /\ Interned(ids) /\ out \in [1 .. Len(ids) -> SUBSET (1 .. Len(ids))]
      /\ edges \in Nat /\ edges <= MaxEdges /\ recorded \in Seq(Record)
      /\ IsFiniteSet(Urls(recorded)) /\ Urls(recorded) \subseteq ToSet(ids)
      /\ \A i \in 1 .. Len(ids) : TargetsOf(ids, out, i) \subseteq LinksOf(recorded, ids[i])
      /\ truncated \/ \A i \in 1 .. Len(ids) : TargetsOf(ids, out, i) = LinksOf(recorded, ids[i])
      /\ edges = SumOf(Degrees(ids, out), Len(ids))
      /\ Len(ids) <= MaxNodes + Cardinality(Urls(recorded))
  BY DEF Shaped
<1>2. PICK first : first = Intern(ids, url)
  OBVIOUS
<1>3. /\ Interned(first) /\ Extends(first, ids) /\ url \in ToSet(first)
      /\ Len(first) = IF url \in ToSet(ids) THEN Len(ids) ELSE Len(ids) + 1
      /\ ToSet(first) = ToSet(ids) \cup {url}
  BY <1>1, <1>2, InternedOnce
<1>4. PICK nodes : nodes = g.nodes
  OBVIOUS
<1>5. PICK k \in Nat : k = Len(ids)
  BY <1>1 DEF Interned
<1>6. Sound(g, Len(links), url, links, first, edges)
  BY <1>1, <1>2, LoopIsSound
<1>7. /\ g \in Under /\ Interned(nodes) /\ Extends(nodes, first)
      /\ \A t \in g.targets :
            t \in 1 .. Len(nodes) /\ nodes[t] # url /\ \E p \in 1 .. Len(links) : nodes[t] = links[p]
      /\ g.full \/ \A p \in 1 .. Len(links) : links[p] # url => \E t \in g.targets : nodes[t] = links[p]
      /\ IsFiniteSet(g.targets) /\ g.edges = edges + Cardinality(g.targets)
      /\ g.edges <= MaxEdges
      /\ Len(nodes) <= MaxNodes \/ Len(nodes) = Len(first)
  BY <1>4, <1>6 DEF Sound
<1>8. PICK n \in Nat : n = Len(nodes)
  BY <1>7 DEF Interned
<1>9. DOMAIN nodes = 1 .. n /\ DOMAIN ids = 1 .. k /\ DOMAIN out = 1 .. k
  BY <1>1, <1>5, <1>7, <1>8 DEF Interned
<1>10. Extends(nodes, ids)
  BY <1>1, <1>3, <1>7, ExtendsOn
<1>11. k <= n /\ \A i \in 1 .. k : nodes[i] = ids[i] /\ i \in 1 .. n
  BY <1>5, <1>8, <1>10 DEF Extends
<1>12. url \in ToSet(nodes) /\ \A u \in ToSet(ids) : u \in ToSet(nodes)
  <2>1. \A i \in 1 .. Len(first) : nodes[i] = first[i] /\ i \in DOMAIN nodes
    BY <1>3, <1>7, <1>8, <1>9 DEF Extends, Interned
  <2>2. DOMAIN first = 1 .. Len(first)
    BY <1>3 DEF Interned
  <2>3. ToSet(first) \subseteq ToSet(nodes)
    BY <2>1, <2>2 DEF ToSet
  <2> QED
    BY <1>3, <2>3
<1>13. /\ src \in 1 .. n /\ nodes[src] = url
       /\ \A i \in 1 .. n : nodes[i] = url => i = src
  BY <1>4, <1>7, <1>8, <1>12, NodeIsFound
<1>14. o = [i \in 1 .. n |-> IF i = src THEN g.targets ELSE IF i \in 1 .. k THEN out[i] ELSE {}]
  BY <1>4, <1>9
<1>15. o \in [1 .. n -> SUBSET (1 .. n)]
  <2>1. \A i \in 1 .. k : out[i] \subseteq 1 .. n
    BY <1>1, <1>5, <1>11
  <2>2. g.targets \subseteq 1 .. n
    BY <1>7, <1>8
  <2> QED
    BY <1>14, <2>1, <2>2
<1>16. PICK call : call = [url |-> url, links |-> links]
  OBVIOUS
<1>17. call \in Record /\ call.url = url /\ call.links = links
  BY <1>16 DEF Record
<1>18. /\ rec \in Seq(Record) /\ Urls(rec) = Urls(recorded) \cup {url}
       /\ LinksOf(rec, url) = ToSet(links) \ {url}
       /\ \A u : u # url => LinksOf(rec, u) = LinksOf(recorded, u)
  <2>1. rec = Append(recorded, call)
    BY <1>16
  <2>2. recorded \in Seq(Record) /\ call \in Record
    BY <1>1, <1>17
  <2>3. /\ Append(recorded, call) \in Seq(Record)
        /\ Urls(Append(recorded, call)) = Urls(recorded) \cup {call.url}
        /\ LinksOf(Append(recorded, call), call.url) = ToSet(call.links) \ {call.url}
        /\ \A u : u # call.url => LinksOf(Append(recorded, call), u) = LinksOf(recorded, u)
    BY <2>2, OneMoreRecord, ZenonT(30)
  <2> QED
    BY <1>17, <2>1, <2>3, ZenonT(30)
<1>19. Urls(rec) \subseteq ToSet(nodes) /\ IsFiniteSet(Urls(rec))
  <2>1. IsFiniteSet(Urls(recorded) \cup {url})
    BY <1>1, FS_AddElement
  <2> QED
    BY <1>1, <1>12, <1>18, <2>1
<1>20. TargetsOf(nodes, o, src) \subseteq LinksOf(rec, nodes[src])
  <2>1. ASSUME NEW u \in TargetsOf(nodes, o, src) PROVE u \in ToSet(links) \ {url}
    <3>1. PICK t \in g.targets : u = nodes[t]
      BY <1>13, <1>14 DEF TargetsOf
    <3>2. PICK p \in 1 .. Len(links) : nodes[t] = links[p]
      BY <1>7
    <3>3. links[p] \in ToSet(links)
      BY <3>2 DEF ToSet
    <3> QED
      BY <1>7, <3>1, <3>2, <3>3
  <2> QED
    BY <1>13, <1>18, <2>1
<1>21. g.full \/ TargetsOf(nodes, o, src) = LinksOf(rec, nodes[src])
  <2> SUFFICES ASSUME ~g.full PROVE LinksOf(rec, nodes[src]) \subseteq TargetsOf(nodes, o, src)
    BY <1>20
  <2>1. ASSUME NEW u \in ToSet(links) \ {url} PROVE u \in TargetsOf(nodes, o, src)
    <3>1. PICK p \in 1 .. Len(links) : u = links[p]
      BY DEF ToSet
    <3>2. PICK t \in g.targets : nodes[t] = links[p]
      BY <1>7, <3>1
    <3> QED
      BY <1>13, <1>14, <3>1, <3>2 DEF TargetsOf
  <2> QED
    BY <1>13, <1>18, <2>1
<1>22. ASSUME NEW i \in 1 .. k, i # src
       PROVE  /\ TargetsOf(nodes, o, i) = TargetsOf(ids, out, i)
              /\ LinksOf(rec, nodes[i]) = LinksOf(recorded, ids[i])
  <2>1. o[i] = out[i] /\ out[i] \subseteq 1 .. k
    BY <1>1, <1>5, <1>11, <1>14, <1>22
  <2>2. \A j \in out[i] : nodes[j] = ids[j]
    BY <1>11, <2>1
  <2>3. TargetsOf(nodes, o, i) = TargetsOf(ids, out, i)
    BY <2>1, <2>2 DEF TargetsOf
  <2>4. nodes[i] = ids[i] /\ nodes[i] # url
    BY <1>11, <1>13, <1>22
  <2> QED
    BY <1>18, <2>3, <2>4
<1>23. ASSUME NEW i \in k + 1 .. n, i # src
       PROVE  TargetsOf(nodes, o, i) = {} /\ LinksOf(rec, nodes[i]) = {} /\ o[i] = {}
  <2>1. i \in 1 .. n /\ i \notin 1 .. k
    BY <1>5
  <2>2. o[i] = {}
    BY <1>14, <1>23, <2>1
  <2>3. nodes[i] # url /\ nodes[i] \notin ToSet(ids)
    <3>1. \A j \in 1 .. k : ids[j] # nodes[i]
      BY <1>7, <1>8, <1>11, <2>1 DEF Interned, Distinct
    <3> QED
      BY <1>9, <1>13, <1>23, <2>1, <3>1 DEF ToSet
  <2>4. LinksOf(rec, nodes[i]) = {}
    BY <1>1, <1>18, <2>3, NeverRecorded
  <2> QED
    BY <2>2, <2>4 DEF TargetsOf
<1>24. \A i \in 1 .. n : i = src \/ (i \in 1 .. k /\ i # src) \/ (i \in k + 1 .. n /\ i # src)
  BY <1>5
<1>25. \A i \in 1 .. n : TargetsOf(nodes, o, i) \subseteq LinksOf(rec, nodes[i])
  <2> TAKE i \in 1 .. n
  <2>1. CASE i = src
    BY <1>20, <2>1
  <2>2. CASE i \in 1 .. k /\ i # src
    BY <1>1, <1>5, <1>22, <2>2
  <2>3. CASE i \in k + 1 .. n /\ i # src
    BY <1>23, <2>3
  <2> QED
    BY <1>24, <2>1, <2>2, <2>3
<1>26. (truncated \/ g.full) \/ \A i \in 1 .. n : TargetsOf(nodes, o, i) = LinksOf(rec, nodes[i])
  <2> SUFFICES ASSUME ~truncated, ~g.full, NEW i \in 1 .. n
               PROVE  TargetsOf(nodes, o, i) = LinksOf(rec, nodes[i])
    OBVIOUS
  <2>1. CASE i = src
    BY <1>21, <2>1
  <2>2. CASE i \in 1 .. k /\ i # src
    BY <1>1, <1>5, <1>22, <2>2
  <2>3. CASE i \in k + 1 .. n /\ i # src
    BY <1>23, <2>3
  <2> QED
    BY <1>24, <2>1, <2>2, <2>3
<1>27. e \in Nat /\ e <= MaxEdges /\ e = SumOf(Degrees(nodes, o), n)
  <2>1. PICK old : old = IF src \in 1 .. k THEN out[src] ELSE {}
    OBVIOUS
  <2>2. PICK f : f = Degrees(ids, out)
    OBVIOUS
  <2>3. Numbers(f, k) /\ \A i \in 1 .. k : IsFiniteSet(out[i]) /\ f[i] = Cardinality(out[i])
    BY <1>1, <1>5, <2>2, DegreesAreNumbers
  <2>4. PICK h : h = Degrees(nodes, o)
    OBVIOUS
  <2>5. Numbers(h, n) /\ \A i \in 1 .. n : h[i] = Cardinality(o[i])
    <3>1. o \in [1 .. Len(nodes) -> SUBSET (1 .. Len(nodes))]
      BY <1>8, <1>15
    <3>2. Interned(nodes)
      BY <1>7
    <3>3. \A w \in [1 .. Len(nodes) -> SUBSET (1 .. Len(nodes))] :
             /\ Numbers(Degrees(nodes, w), Len(nodes))
             /\ \A i \in 1 .. Len(nodes) :
                   IsFiniteSet(w[i]) /\ Degrees(nodes, w)[i] = Cardinality(w[i])
      BY <3>2, DegreesAreNumbers
    <3>4. /\ Numbers(Degrees(nodes, o), Len(nodes))
          /\ \A i \in 1 .. Len(nodes) : Degrees(nodes, o)[i] = Cardinality(o[i])
      BY <3>1, <3>3, Zenon
    <3> QED
      BY <1>8, <2>4, <3>4
  <2>6. PICK w : w = [i \in 1 .. n |-> IF i \in 1 .. k THEN f[i] ELSE 0]
    OBVIOUS
  <2>7. Numbers(w, n)
    BY <2>3, <2>6 DEF Numbers
  <2>8. SumOf(w, n) = edges
    <3>1. \A i \in 1 .. k : w[i] = f[i]
      BY <1>11, <2>6
    <3>2. \A i \in k + 1 .. n : w[i] = 0
      BY <2>6
    <3>3. SumOf(w, n) = SumOf(f, k)
      BY <1>11, <2>3, <3>1, <3>2, SumExtended
    <3> QED
      BY <1>1, <1>5, <2>2, <3>3
  <2>9. \A i \in 1 .. n : i # src => h[i] = w[i]
    <3> TAKE i \in 1 .. n
    <3> SUFFICES ASSUME i # src PROVE h[i] = w[i]
      OBVIOUS
    <3>1. CASE i \in 1 .. k
      BY <1>14, <2>3, <2>5, <2>6, <3>1
    <3>2. CASE i \in k + 1 .. n
      <4>1. o[i] = {} /\ w[i] = 0
        <5>1. i \notin 1 .. k
          BY <3>2
        <5> QED
          BY <1>23, <2>6, <3>2, <5>1
      <4> QED
        BY <2>5, <4>1, FS_EmptySet
    <3> QED
      BY <1>24, <3>1, <3>2
  <2>10. SumOf(h, n) + w[src] = SumOf(w, n) + h[src]
    BY <1>13, <2>5, <2>7, <2>9, SumReplaced
  <2>11. w[src] = Cardinality(old) /\ w[src] \in Nat /\ w[src] <= edges
    <3>1. w[src] = Cardinality(old)
      BY <1>13, <2>1, <2>3, <2>6, FS_EmptySet
    <3>2. w[src] <= SumOf(w, n)
      BY <1>13, <2>7, SumHolds
    <3>3. w[src] \in Nat
      BY <1>13, <2>7 DEF Numbers
    <3> QED
      BY <2>8, <3>1, <3>2, <3>3
  <2>12. h[src] = Cardinality(g.targets) /\ h[src] \in Nat
    BY <1>13, <1>14, <2>5 DEF Numbers
  <2>13. SumOf(h, n) \in Nat
    BY <2>5, SumIsNat
  <2>14. e = IF g.edges < w[src] THEN 0 ELSE g.edges - w[src]
    <3>1. e = Replacing(g.edges, old)
      BY <1>9, <2>1
    <3> QED
      BY <2>11, <3>1 DEF Replacing
  <2>15. g.edges = edges + h[src]
    BY <1>7, <2>12
  <2>16. e = g.edges - w[src] /\ e \in Nat /\ e = SumOf(h, n)
    BY <1>1, <2>8, <2>10, <2>11, <2>12, <2>13, <2>14, <2>15
  <2>17. e <= MaxEdges
    <3>1. g.edges \in Nat /\ MaxEdges \in Nat /\ g.edges <= MaxEdges
      BY <1>7, GraphAssumption DEF Under
    <3> QED
      BY <2>11, <2>16, <3>1
  <2> QED
    BY <2>4, <2>16, <2>17
<1>28. n <= MaxNodes + Cardinality(Urls(rec))
  <2>1. Cardinality(Urls(recorded)) \in Nat /\ Cardinality(Urls(rec)) \in Nat /\ MaxNodes \in Nat
    BY <1>1, <1>19, FS_CardinalityType, GraphAssumption
  <2>2. CASE n <= MaxNodes
    BY <2>1, <2>2
  <2>3. CASE n = Len(first) /\ url \in ToSet(ids)
    <3>1. n = k /\ k <= MaxNodes + Cardinality(Urls(recorded))
      BY <1>1, <1>3, <1>5, <2>3
    <3>2. Cardinality(Urls(recorded)) <= Cardinality(Urls(rec))
      BY <1>18, <1>19, FS_Subset
    <3> QED
      BY <2>1, <3>1, <3>2
  <2>4. CASE n = Len(first) /\ url \notin ToSet(ids)
    <3>1. n = k + 1 /\ k <= MaxNodes + Cardinality(Urls(recorded))
      BY <1>1, <1>3, <1>5, <2>4
    <3>2. url \notin Urls(recorded)
      BY <1>1, <2>4
    <3>3. Cardinality(Urls(rec)) = Cardinality(Urls(recorded)) + 1
      BY <1>1, <1>18, <3>2, FS_AddElement
    <3> QED
      BY <2>1, <3>1, <3>3
  <2> QED
    BY <1>7, <1>8, <2>2, <2>3, <2>4
<1> QED
  BY <1>4, <1>7, <1>8, <1>15, <1>18, <1>19, <1>25, <1>26, <1>27, <1>28 DEF Shaped

-----------------------------------------------------------------------------
(* Links from other hosts *)
CrossingOf(nodes, o, h) ==
    {e \in (1 .. Len(nodes)) \X (1 .. Len(nodes)) :
        e[2] \in o[e[1]] /\ SiteOf[nodes[e[2]]] = h /\ SiteOf[nodes[e[1]]] # h}
CrossingUrls(rec, h) ==
    {e \in PageURL \X PageURL :
        e[2] \in LinksOf(rec, e[1]) /\ SiteOf[e[2]] = h /\ SiteOf[e[1]] # h}

LEMMA CrossingIsFinite ==
    ASSUME NEW nodes, Interned(nodes), NEW o, NEW h
    PROVE  IsFiniteSet(CrossingOf(nodes, o, h)) /\ Cardinality(CrossingOf(nodes, o, h)) \in Nat
<1>1. Len(nodes) \in Nat
  BY DEF Interned
<1>2. IsFiniteSet(1 .. Len(nodes))
  BY <1>1, FS_Interval
<1>3. IsFiniteSet((1 .. Len(nodes)) \X (1 .. Len(nodes)))
  BY <1>2, FS_Product
<1>4. CrossingOf(nodes, o, h) \subseteq (1 .. Len(nodes)) \X (1 .. Len(nodes))
  BY DEF CrossingOf
<1>5. IsFiniteSet(CrossingOf(nodes, o, h))
  BY <1>3, <1>4, FS_Subset
<1> QED
  BY <1>5, FS_CardinalityType

\* A graph that is whole crosses hosts as often as what was recorded.
LEMMA CrossingsAreTheLinks ==
    ASSUME NEW nodes, NEW o, NEW e, NEW rec, Shaped(nodes, o, e, FALSE, rec), NEW h
    PROVE  Cardinality(CrossingUrls(rec, h)) = Cardinality(CrossingOf(nodes, o, h))
<1>1. /\ Interned(nodes) /\ o \in [1 .. Len(nodes) -> SUBSET (1 .. Len(nodes))]
      /\ Urls(rec) \subseteq ToSet(nodes)
      /\ \A i \in 1 .. Len(nodes) : TargetsOf(nodes, o, i) = LinksOf(rec, nodes[i])
  BY DEF Shaped
<1>2. PICK n \in Nat : n = Len(nodes)
  BY <1>1 DEF Interned
<1>3. /\ DOMAIN nodes = 1 .. n /\ \A i \in 1 .. n : nodes[i] \in PageURL
      /\ \A i, j \in 1 .. n : nodes[i] = nodes[j] => i = j
  BY <1>1, <1>2 DEF Interned, Distinct
<1> DEFINE S == CrossingOf(nodes, o, h)
           T == CrossingUrls(rec, h)
           f == [x \in S |-> <<nodes[x[1]], nodes[x[2]]>>]
<1>4. ASSUME NEW x \in S
      PROVE  /\ x = <<x[1], x[2]>> /\ x[1] \in 1 .. n /\ x[2] \in 1 .. n /\ x[2] \in o[x[1]]
             /\ SiteOf[nodes[x[2]]] = h /\ SiteOf[nodes[x[1]]] # h
  BY <1>2 DEF CrossingOf
<1>5. ASSUME NEW x \in S PROVE f[x] \in T
  <2>1. PICK i \in 1 .. n : i = x[1]
    BY <1>4
  <2>2. PICK j \in 1 .. n : j = x[2]
    BY <1>4
  <2>3. j \in o[i] /\ SiteOf[nodes[j]] = h /\ SiteOf[nodes[i]] # h
    BY <1>4, <2>1, <2>2
  <2>4. nodes[j] \in LinksOf(rec, nodes[i])
    <3>1. nodes[j] \in TargetsOf(nodes, o, i)
      BY <2>3 DEF TargetsOf
    <3> QED
      BY <1>1, <1>2, <3>1
  <2>5. <<nodes[i], nodes[j]>> \in T
    BY <1>3, <2>3, <2>4 DEF CrossingUrls
  <2> QED
    BY <2>1, <2>2, <2>5
<1>6. ASSUME NEW x \in S, NEW y \in S, f[x] = f[y] PROVE x = y
  <2>1. nodes[x[1]] = nodes[y[1]] /\ nodes[x[2]] = nodes[y[2]]
    BY <1>6
  <2>2. x[1] = y[1] /\ x[2] = y[2]
    BY <1>3, <1>4, <2>1
  <2>3. x = <<x[1], x[2]>> /\ y = <<y[1], y[2]>>
    BY <1>4
  <2> QED
    BY <2>2, <2>3
<1>7. ASSUME NEW u \in T PROVE \E x \in S : f[x] = u
  <2>1. /\ u = <<u[1], u[2]>> /\ u[1] \in PageURL /\ u[2] \in PageURL
        /\ u[2] \in LinksOf(rec, u[1])
        /\ SiteOf[u[2]] = h /\ SiteOf[u[1]] # h
    BY DEF CrossingUrls
  <2>2. u[1] \in Urls(rec)
    BY <2>1, NeverRecorded
  <2>3. PICK i \in 1 .. n : nodes[i] = u[1]
    BY <1>1, <1>3, <2>2 DEF ToSet
  <2>4. u[2] \in TargetsOf(nodes, o, i)
    BY <1>1, <1>2, <2>1, <2>3
  <2>5. PICK j \in o[i] : nodes[j] = u[2]
    BY <2>4 DEF TargetsOf
  <2>6. j \in 1 .. n
    BY <1>1, <1>2
  <2>7. PICK x : x = <<i, j>>
    OBVIOUS
  <2>8. x[1] = i /\ x[2] = j /\ x \in (1 .. Len(nodes)) \X (1 .. Len(nodes))
    BY <1>2, <2>6, <2>7
  <2>9. x \in S
    BY <2>1, <2>3, <2>5, <2>8 DEF CrossingOf
  <2>10. f[x] = u
    BY <2>1, <2>3, <2>5, <2>8, <2>9
  <2> QED
    BY <2>9, <2>10
<1>8. IsFiniteSet(S)
  BY <1>1, CrossingIsFinite
<1>9. f \in [S -> T]
  BY <1>5
<1> HIDE DEF S, T, f
<1>10. f \in Bijection(S, T)
  BY <1>6, <1>7, <1>9 DEF Bijection, Injection, Surjection, IsInjective
<1>11. ExistsBijection(S, T)
  BY <1>10 DEF ExistsBijection
<1>12. Cardinality(T) = Cardinality(S)
  BY <1>8, <1>11, FS_Bijection
<1> QED
  BY <1>12 DEF S, T

-----------------------------------------------------------------------------
(* No rank leaks *)

\* A number divided and rounded down.
LEMMA RoundedDown ==
    ASSUME NEW a \in Nat, NEW b \in Nat, b # 0
    PROVE  a \div b \in Nat /\ b * (a \div b) <= a /\ a <= b * (a \div b) + b
  OBVIOUS

\* The sum of the first numbers is where the whole sum passes.
LEMMA SumPasses ==
    ASSUME NEW n \in Nat, NEW f, Numbers(f, n)
    PROVE  /\ SumOf(f, 0) = 0
           /\ \A m \in 1 .. n : SumOf(f, m) = SumOf(f, m - 1) + f[m]
<1>1. PICK s : Sums(s, f, n)
  BY SumRuns
<1>2. /\ s \in [0 .. n -> Nat] /\ s[0] = 0
      /\ \A i \in 1 .. n : s[i] = s[i - 1] + f[i]
  BY <1>1 DEF Sums
<1>3. ASSUME NEW m \in 0 .. n PROVE SumOf(f, m) = s[m]
  <2>1. Numbers(f, m) /\ m \in Nat
    BY DEF Numbers
  <2>2. PICK t : Sums(t, f, m)
    BY <2>1, SumRuns
  <2>3. /\ t[0] = 0 /\ SumOf(f, m) = t[m]
        /\ \A i \in 1 .. m : t[i] = t[i - 1] + f[i]
    BY <2>2 DEF Sums
  <2> DEFINE S == {i \in Nat : i <= m => t[i] = s[i]}
  <2>4. 0 \in S
    BY <1>2, <2>3
  <2>5. ASSUME NEW i \in Nat, i \in S PROVE i + 1 \in S
    <3> SUFFICES ASSUME i + 1 <= m PROVE t[i + 1] = s[i + 1]
      OBVIOUS
    <3>1. PICK q \in Nat : q = i + 1
      OBVIOUS
    <3>2. q \in 1 .. m /\ q \in 1 .. n /\ q - 1 = i /\ i <= m
      BY <3>1
    <3>3. t[i] = s[i]
      BY <2>5, <3>2
    <3>4. t[q] = t[i] + f[q] /\ s[q] = s[i] + f[q]
      BY <1>2, <2>3, <3>2
    <3> QED
      BY <3>1, <3>3, <3>4
  <2> HIDE DEF S
  <2>6. m \in S
    BY <2>1, <2>4, <2>5, NatBySteps
  <2>7. m <= m
    BY <2>1
  <2> QED
    BY <2>3, <2>6, <2>7 DEF S
<1> QED
  BY <1>2, <1>3

\* A sum of sums.
LEMMA SumAdds ==
    ASSUME NEW n \in Nat, NEW f, Numbers(f, n), NEW g, Numbers(g, n), NEW h,
           \A i \in 1 .. n : h[i] = f[i] + g[i]
    PROVE  Numbers(h, n) /\ SumOf(h, n) = SumOf(f, n) + SumOf(g, n)
<1>1. Numbers(h, n)
  BY DEF Numbers
<1>2. PICK s : Sums(s, f, n)
  BY SumRuns
<1>3. PICK t : Sums(t, g, n)
  BY SumRuns
<1>4. PICK u : Sums(u, h, n)
  BY <1>1, SumRuns
<1>5. /\ s \in [0 .. n -> Nat] /\ s[0] = 0 /\ SumOf(f, n) = s[n]
      /\ \A i \in 1 .. n : s[i] = s[i - 1] + f[i] /\ f[i] \in Nat
  BY <1>2 DEF Sums, Numbers
<1>6. /\ t \in [0 .. n -> Nat] /\ t[0] = 0 /\ SumOf(g, n) = t[n]
      /\ \A i \in 1 .. n : t[i] = t[i - 1] + g[i] /\ g[i] \in Nat
  BY <1>3 DEF Sums, Numbers
<1>7. /\ u \in [0 .. n -> Nat] /\ u[0] = 0 /\ SumOf(h, n) = u[n]
      /\ \A i \in 1 .. n : u[i] = u[i - 1] + h[i]
  BY <1>4 DEF Sums
<1> DEFINE S == {i \in Nat : i <= n => u[i] = s[i] + t[i]}
<1>8. 0 \in S
  BY <1>5, <1>6, <1>7
<1>9. ASSUME NEW i \in Nat, i \in S PROVE i + 1 \in S
  <2> SUFFICES ASSUME i + 1 <= n PROVE u[i + 1] = s[i + 1] + t[i + 1]
    OBVIOUS
  <2>1. PICK q \in Nat : q = i + 1
    OBVIOUS
  <2>2. q \in 1 .. n /\ q - 1 = i /\ i <= n /\ i \in 0 .. n
    BY <2>1
  <2>3. u[i] = s[i] + t[i]
    BY <1>9, <2>2
  <2>4. s[q] = s[i] + f[q] /\ t[q] = t[i] + g[q] /\ u[q] = u[i] + h[q] /\ h[q] = f[q] + g[q]
    BY <1>5, <1>6, <1>7, <2>2
  <2>5. s[i] \in Nat /\ t[i] \in Nat /\ f[q] \in Nat /\ g[q] \in Nat
    BY <1>5, <1>6, <2>2
  <2> QED
    BY <2>1, <2>3, <2>4, <2>5
<1> HIDE DEF S
<1>10. n \in S
  BY <1>8, <1>9, NatBySteps
<1> QED
  BY <1>1, <1>5, <1>6, <1>7, <1>10 DEF S

\* A sum of the same number, taken once for every member of a set.
Marks(f, n, T, c) == \A i \in 1 .. n : f[i] = IF i \in T THEN c ELSE 0
LEMMA SumOfMembers ==
    ASSUME NEW n \in Nat, NEW T, T \subseteq 1 .. n, NEW c \in Nat, NEW f, Marks(f, n, T, c)
    PROVE  Numbers(f, n) /\ SumOf(f, n) = Cardinality(T) * c
<1> USE DEF Marks
<1>1. Numbers(f, n)
  BY DEF Numbers
<1>2. PICK s : Sums(s, f, n)
  BY <1>1, SumRuns
<1>3. /\ s \in [0 .. n -> Nat] /\ s[0] = 0 /\ SumOf(f, n) = s[n]
      /\ \A i \in 1 .. n : s[i] = s[i - 1] + f[i]
  BY <1>2 DEF Sums
<1> DEFINE Upto(i) == T \cap (1 .. i)
           S == {i \in Nat : i <= n => s[i] = Cardinality(Upto(i)) * c}
<1>4. \A i \in Nat : IsFiniteSet(Upto(i)) /\ Cardinality(Upto(i)) \in Nat
  <2> TAKE i \in Nat
  <2>1. IsFiniteSet(1 .. i)
    BY FS_Interval
  <2>2. IsFiniteSet(Upto(i))
    BY <2>1, FS_Subset
  <2> QED
    BY <2>2, FS_CardinalityType
<1>5. 0 \in S
  <2>1. Upto(0) = {}
    OBVIOUS
  <2>2. Cardinality(Upto(0)) = 0
    BY <2>1, FS_EmptySet
  <2> QED
    BY <1>3, <2>2
<1>6. ASSUME NEW i \in Nat, i \in S PROVE i + 1 \in S
  <2> SUFFICES ASSUME i + 1 <= n PROVE s[i + 1] = Cardinality(Upto(i + 1)) * c
    OBVIOUS
  <2>1. PICK q \in Nat : q = i + 1
    OBVIOUS
  <2>2. q \in 1 .. n /\ q - 1 = i /\ i <= n /\ i \in 0 .. n /\ q \notin 1 .. i
    BY <2>1
  <2>3. PICK d \in Nat : d = Cardinality(Upto(i))
    BY <1>4
  <2>4. s[i] = d * c
    BY <1>6, <2>2, <2>3
  <2>5. s[q] = s[i] + f[q]
    BY <1>3, <2>2
  <2>6. CASE q \in T
    <3>1. Upto(q) = Upto(i) \cup {q} /\ q \notin Upto(i)
      BY <2>1, <2>2, <2>6
    <3>2. Cardinality(Upto(q)) = d + 1
      BY <1>4, <2>3, <3>1, FS_AddElement
    <3>3. f[q] = c
      BY <2>2, <2>6
    <3>4. (d + 1) * c = d * c + c
      OBVIOUS
    <3> QED
      BY <2>1, <2>4, <2>5, <3>2, <3>3, <3>4
  <2>7. CASE q \notin T
    <3>1. Upto(q) = Upto(i)
      BY <2>1, <2>2, <2>7
    <3>2. f[q] = 0 /\ d * c \in Nat
      BY <2>2, <2>7
    <3>3. s[q] = d * c
      BY <2>4, <2>5, <3>2
    <3>4. Cardinality(Upto(q)) = d
      BY <2>3, <3>1
    <3> QED
      BY <2>1, <3>3, <3>4
  <2> QED
    BY <2>6, <2>7
<1>7. Upto(n) = T
  OBVIOUS
<1> HIDE DEF S, Upto
<1>8. n \in S
  BY <1>5, <1>6, NatBySteps
<1>9. s[n] = Cardinality(Upto(n)) * c
  BY <1>8 DEF S
<1> QED
  BY <1>1, <1>3, <1>7, <1>9

\* A sum of one number over and over.
LEMMA SumOfSame ==
    ASSUME NEW n \in Nat, NEW c \in Nat, NEW f, \A i \in 1 .. n : f[i] = c
    PROVE  Numbers(f, n) /\ SumOf(f, n) = n * c
<1>1. Numbers(f, n)
  BY DEF Numbers
<1>2. PICK s : Sums(s, f, n)
  BY <1>1, SumRuns
<1>3. /\ s \in [0 .. n -> Nat] /\ s[0] = 0 /\ SumOf(f, n) = s[n]
      /\ \A i \in 1 .. n : s[i] = s[i - 1] + c
  BY <1>2 DEF Sums
<1> DEFINE S == {i \in Nat : i <= n => s[i] = i * c}
<1>4. 0 \in S
  BY <1>3
<1>5. ASSUME NEW i \in Nat, i \in S PROVE i + 1 \in S
  <2> SUFFICES ASSUME i + 1 <= n PROVE s[i + 1] = (i + 1) * c
    OBVIOUS
  <2>1. PICK q \in Nat : q = i + 1
    OBVIOUS
  <2>2. q \in 1 .. n /\ q - 1 = i /\ i <= n
    BY <2>1
  <2>3. s[q] = i * c + c
    BY <1>3, <1>5, <2>2
  <2>4. (i + 1) * c = i * c + c
    OBVIOUS
  <2> QED
    BY <2>1, <2>3, <2>4
<1> HIDE DEF S
<1>6. n \in S
  BY <1>4, <1>5, NatBySteps
<1> QED
  BY <1>1, <1>3, <1>6 DEF S

\* Numbers that are bounded one by one are bounded in their sums.
Bounded(n, b, f, w, l, d) ==
    \A i \in 1 .. n : /\ 100 * w[i] + b * l[i] <= b * f[i]
                      /\ b * f[i] <= 100 * w[i] + b * l[i] + 100 * d[i]
LEMMA SumsBounded ==
    ASSUME NEW n \in Nat, NEW b \in Nat,
           NEW f, Numbers(f, n), NEW w, Numbers(w, n), NEW l, Numbers(l, n),
           NEW d, Numbers(d, n), Bounded(n, b, f, w, l, d)
    PROVE  /\ 100 * SumOf(w, n) + b * SumOf(l, n) <= b * SumOf(f, n)
           /\ b * SumOf(f, n) <= 100 * SumOf(w, n) + b * SumOf(l, n) + 100 * SumOf(d, n)
<1>1. PICK s : Sums(s, f, n)
  BY SumRuns
<1>2. PICK t : Sums(t, w, n)
  BY SumRuns
<1>3. PICK u : Sums(u, l, n)
  BY SumRuns
<1>4. PICK v : Sums(v, d, n)
  BY SumRuns
<1>5. /\ s \in [0 .. n -> Nat] /\ s[0] = 0 /\ SumOf(f, n) = s[n]
      /\ \A i \in 1 .. n : s[i] = s[i - 1] + f[i] /\ f[i] \in Nat
  BY <1>1 DEF Sums, Numbers
<1>6. /\ t \in [0 .. n -> Nat] /\ t[0] = 0 /\ SumOf(w, n) = t[n]
      /\ \A i \in 1 .. n : t[i] = t[i - 1] + w[i] /\ w[i] \in Nat
  BY <1>2 DEF Sums, Numbers
<1>7. /\ u \in [0 .. n -> Nat] /\ u[0] = 0 /\ SumOf(l, n) = u[n]
      /\ \A i \in 1 .. n : u[i] = u[i - 1] + l[i] /\ l[i] \in Nat
  BY <1>3 DEF Sums, Numbers
<1>8. /\ v \in [0 .. n -> Nat] /\ v[0] = 0 /\ SumOf(d, n) = v[n]
      /\ \A i \in 1 .. n : v[i] = v[i - 1] + d[i] /\ d[i] \in Nat
  BY <1>4 DEF Sums, Numbers
<1> DEFINE P(i) == /\ 100 * t[i] + b * u[i] <= b * s[i]
                   /\ b * s[i] <= 100 * t[i] + b * u[i] + 100 * v[i]
           S == {i \in Nat : i <= n => P(i)}
<1>9. 0 \in S
  BY <1>5, <1>6, <1>7, <1>8
<1>10. ASSUME NEW i \in Nat, i \in S PROVE i + 1 \in S
  <2> SUFFICES ASSUME i + 1 <= n PROVE P(i + 1)
    OBVIOUS
  <2>1. PICK q \in Nat : q = i + 1
    OBVIOUS
  <2>2. q \in 1 .. n /\ q - 1 = i /\ i <= n /\ i \in 0 .. n
    BY <2>1
  <2>3. P(i)
    BY <1>10, <2>2
  <2>4. /\ s[q] = s[i] + f[q] /\ s[i] \in Nat /\ f[q] \in Nat
        /\ t[q] = t[i] + w[q] /\ t[i] \in Nat /\ w[q] \in Nat
        /\ u[q] = u[i] + l[q] /\ u[i] \in Nat /\ l[q] \in Nat
        /\ v[q] = v[i] + d[q] /\ v[i] \in Nat /\ d[q] \in Nat
    BY <1>5, <1>6, <1>7, <1>8, <2>2
  <2>5. /\ b * s[q] = b * s[i] + b * f[q] /\ 100 * t[q] = 100 * t[i] + 100 * w[q]
        /\ b * u[q] = b * u[i] + b * l[q] /\ 100 * v[q] = 100 * v[i] + 100 * d[q]
    BY <2>4
  <2>6. /\ 100 * w[q] + b * l[q] <= b * f[q]
        /\ b * f[q] <= 100 * w[q] + b * l[q] + 100 * d[q]
    BY <2>2 DEF Bounded
  <2>7. /\ b * s[i] \in Nat /\ b * f[q] \in Nat /\ 100 * t[i] \in Nat /\ 100 * w[q] \in Nat
        /\ b * u[i] \in Nat /\ b * l[q] \in Nat /\ 100 * v[i] \in Nat /\ 100 * d[q] \in Nat
    BY <2>4
  <2>8. P(q)
    BY <2>3, <2>5, <2>6, <2>7
  <2> QED
    BY <2>1, <2>8
<1> HIDE DEF S
<1>11. n \in S
  BY <1>9, <1>10, NatBySteps
<1>12. P(n)
  BY <1>11 DEF S
<1> QED
  BY <1>5, <1>6, <1>7, <1>8, <1>12

\* What a page keeps and what it hands on is what it has, but for the rounding.
LEMMA ShareIsFair ==
    ASSUME NEW i, rank[i] \in Nat, IsFiniteSet(out[i]), NEW d, d = Cardinality(out[i])
    PROVE  /\ d \in Nat /\ Share(i) \in Nat /\ Left(i) \in Nat
           /\ 100 * (d * Share(i)) + Damping * Left(i) <= Damping * rank[i]
           /\ Damping * rank[i] <= 100 * (d * Share(i)) + Damping * Left(i) + 100 * d
<1>1. d \in Nat /\ Damping \in Nat
  <2>1. Cardinality(out[i]) \in Nat
    BY FS_CardinalityType
  <2>2. Damping \in Nat
    BY GraphAssumption
  <2> QED
    BY <2>1, <2>2
<1>2. PICK r \in Nat : r = rank[i]
  OBVIOUS
<1>3. CASE out[i] = {}
  <2>1. Share(i) = 0 /\ Left(i) = r
    BY <1>2, <1>3 DEF Share, Left
  <2>2. d = 0
    BY <1>3, FS_EmptySet
  <2>3. Damping * r \in Nat
    BY <1>1
  <2> QED
    BY <1>2, <2>1, <2>2, <2>3
<1>4. CASE out[i] # {}
  <2>1. d # 0
    BY <1>4, FS_EmptySet
  <2>2. PICK a \in Nat : a = Damping * r
    BY <1>1
  <2>3. PICK b \in Nat : b = 100 * d
    BY <1>1
  <2>4. PICK q : q = a \div b
    OBVIOUS
  <2>5. b # 0
    BY <1>1, <2>1, <2>3
  <2>6. q \in Nat /\ b * q <= a /\ a <= b * q + b
    BY <2>4, <2>5, RoundedDown
  <2>7. Share(i) = q /\ Left(i) = 0
    BY <1>2, <1>4, <2>2, <2>3, <2>4 DEF Share, Left
  <2>8. b * q = 100 * (d * q)
    BY <1>1, <2>3, <2>6
  <2>9. Damping * 0 = 0 /\ 100 * (d * q) \in Nat
    BY <1>1, <2>6
  <2> QED
    BY <1>1, <1>2, <2>2, <2>3, <2>6, <2>7, <2>8, <2>9
<1> QED
  BY <1>3, <1>4

\* What the pages are given is what the pages hand on.
HandsOn(n, o, p, col, given, w) ==
    /\ \A i \in 1 .. n : o[i] \subseteq 1 .. n
    /\ \A j, i \in 1 .. n : col[j][i] = IF j \in o[i] THEN p[i] ELSE 0
    /\ \A j \in 1 .. n : given[j] = SumOf(col[j], n)
    /\ \A i \in 1 .. n : w[i] = Cardinality(o[i]) * p[i]
LEMMA GivenIsHandedOn ==
    ASSUME NEW n \in Nat, NEW o, NEW p, Numbers(p, n), NEW col, NEW given, NEW w,
           HandsOn(n, o, p, col, given, w)
    PROVE  Numbers(given, n) /\ Numbers(w, n) /\ SumOf(given, n) = SumOf(w, n)
<1> USE DEF HandsOn
<1> DEFINE part(m) == [j \in 1 .. n |-> SumOf(col[j], m)]
<1>1. \A j \in 1 .. n : Numbers(col[j], n)
  BY DEF Numbers
<1>2. \A i \in 1 .. n : p[i] \in Nat
  BY DEF Numbers
<1>3. Numbers(w, n)
  <2>1. ASSUME NEW i \in 1 .. n PROVE w[i] \in Nat
    <3>1. IsFiniteSet(1 .. n)
      BY FS_Interval
    <3>2. IsFiniteSet(o[i])
      BY <3>1, FS_Subset
    <3>3. Cardinality(o[i]) \in Nat /\ p[i] \in Nat
      BY <1>2, <3>2, FS_CardinalityType
    <3>4. \A x, y \in Nat : x * y \in Nat
      OBVIOUS
    <3> QED
      BY <3>3, <3>4
  <2> QED
    BY <2>1 DEF Numbers
<1>4. PICK s : Sums(s, w, n)
  BY <1>3, SumRuns
<1>5. /\ s \in [0 .. n -> Nat] /\ s[0] = 0 /\ SumOf(w, n) = s[n]
      /\ \A i \in 1 .. n : s[i] = s[i - 1] + w[i]
  BY <1>4 DEF Sums
<1>6. \A j \in 1 .. n : /\ SumOf(col[j], 0) = 0
                        /\ \A m \in 1 .. n : SumOf(col[j], m) = SumOf(col[j], m - 1) + col[j][m]
  <2> TAKE j \in 1 .. n
  <2>1. Numbers(col[j], n)
    BY <1>1
  <2> QED
    BY <2>1, SumPasses
<1> DEFINE S == {m \in Nat : m <= n => Numbers(part(m), n) /\ SumOf(part(m), n) = s[m]}
<1>7. 0 \in S
  <2>1. \A j \in 1 .. n : part(0)[j] = 0
    BY <1>6
  <2> HIDE DEF part
  <2>2. Numbers(part(0), n) /\ SumOf(part(0), n) = n * 0
    BY <2>1, SumOfSame
  <2> QED
    BY <1>5, <2>2
<1>8. ASSUME NEW m \in Nat, m \in S PROVE m + 1 \in S
  <2> SUFFICES ASSUME m + 1 <= n
               PROVE  Numbers(part(m + 1), n) /\ SumOf(part(m + 1), n) = s[m + 1]
    OBVIOUS
  <2>1. PICK q \in Nat : q = m + 1
    OBVIOUS
  <2>2. q \in 1 .. n /\ q - 1 = m /\ m <= n
    BY <2>1
  <2>3. Numbers(part(m), n) /\ SumOf(part(m), n) = s[m]
    BY <1>8, <2>2
  <2> DEFINE added == [j \in 1 .. n |-> IF j \in o[q] THEN p[q] ELSE 0]
  <2>4. \A j \in 1 .. n : part(q)[j] = part(m)[j] + added[j]
    <3>1. \A j \in 1 .. n : SumOf(col[j], q) = SumOf(col[j], m) + col[j][q]
      BY <1>6, <2>2
    <3>2. \A j \in 1 .. n : col[j][q] = added[j]
      BY <2>2
    <3> HIDE DEF added
    <3> QED
      BY <3>1, <3>2
  <2>5. Marks(added, n, o[q], p[q])
    BY DEF Marks
  <2>6. o[q] \subseteq 1 .. n /\ p[q] \in Nat
    BY <1>2, <2>2
  <2> HIDE DEF part, added
  <2>7. Numbers(added, n) /\ SumOf(added, n) = Cardinality(o[q]) * p[q]
    BY <2>5, <2>6, SumOfMembers
  <2>8. Numbers(part(q), n) /\ SumOf(part(q), n) = SumOf(part(m), n) + SumOf(added, n)
    BY <2>3, <2>4, <2>7, SumAdds
  <2>9. s[q] = s[m] + Cardinality(o[q]) * p[q]
    BY <1>5, <2>2
  <2> QED
    BY <2>1, <2>3, <2>7, <2>8, <2>9
<1>9. \A j \in 1 .. n : given[j] = part(n)[j]
  OBVIOUS
<1> HIDE DEF S, part
<1>10. n \in S /\ n <= n
  BY <1>7, <1>8, NatBySteps
<1>11. Numbers(part(n), n) /\ SumOf(part(n), n) = SumOf(w, n)
  BY <1>5, <1>10 DEF S
<1>12. Numbers(given, n)
  BY <1>9, <1>11 DEF Numbers
<1>13. SumOf(given, n) = SumOf(part(n), n)
  <2>1. \A i \in n + 1 .. n : given[i] = 0
    OBVIOUS
  <2> QED
    BY <1>9, <1>11, <2>1, SumExtended
<1> QED
  BY <1>3, <1>11, <1>12, <1>13

\* What page_rank makes of the ranks in one round.
RankAfter ==
    [j \in DOMAIN ids |->
        ((100 - Damping) * Scale) \div (100 * Len(ids))
        + OverNodes([i \in DOMAIN ids |-> IF j \in out[i] THEN Share(i) ELSE 0])
        + Spread]

\* One round: the ranks keep the share of what they sum to that is not damped,
\* and are given the rest, but for the rounding.
LEMMA RoundKeepsMass ==
    ASSUME NEW n \in Nat, n # 0, n = Len(ids), DOMAIN ids = 1 .. n,
           \A i \in 1 .. n : out[i] \subseteq 1 .. n, Numbers(rank, n),
           NEW e, e = SumOf(Degrees(ids, out), n),
           NEW next, next = RankAfter
    PROVE  /\ next \in [1 .. n -> Nat] /\ Numbers(next, n) /\ e \in Nat
           /\ 100 * SumOf(next, n) <= (100 - Damping) * Scale + Damping * SumOf(rank, n)
           /\ 100 * SumOf(next, n) + 100 * (2 * n + e)
                 >= (100 - Damping) * Scale + Damping * SumOf(rank, n)
<1>1. Damping \in Nat /\ Damping <= 100 /\ 100 - Damping \in Nat /\ Scale \in Nat
  <2>1. Damping \in 0 .. 100 /\ Scale \in Nat
    BY GraphAssumption
  <2> QED
    BY <2>1
<1>2. \A i \in 1 .. n : rank[i] \in Nat
  BY DEF Numbers
<1> DEFINE d == Degrees(ids, out)
           p == [i \in 1 .. n |-> Share(i)]
           l == [i \in 1 .. n |-> Left(i)]
           w == [i \in 1 .. n |-> Cardinality(out[i]) * p[i]]
           col == [j \in 1 .. n |-> [i \in 1 .. n |-> IF j \in out[i] THEN p[i] ELSE 0]]
           given == [j \in 1 .. n |-> SumOf(col[j], n)]
<1>3. ASSUME NEW i \in 1 .. n
      PROVE  /\ d[i] \in Nat /\ p[i] \in Nat /\ l[i] \in Nat /\ w[i] = d[i] * p[i]
             /\ 100 * w[i] + Damping * l[i] <= Damping * rank[i]
             /\ Damping * rank[i] <= 100 * w[i] + Damping * l[i] + 100 * d[i]
  <2>1. rank[i] \in Nat
    BY <1>2
  <2>2. IsFiniteSet(out[i])
    <3>1. IsFiniteSet(1 .. n)
      BY FS_Interval
    <3> QED
      BY <3>1, FS_Subset
  <2>3. d[i] = Cardinality(out[i]) /\ p[i] = Share(i) /\ l[i] = Left(i) /\ w[i] = d[i] * p[i]
    BY DEF Degrees
  <2> HIDE DEF d, p, l, w
  <2>4. /\ d[i] \in Nat /\ Share(i) \in Nat /\ Left(i) \in Nat
        /\ 100 * (d[i] * Share(i)) + Damping * Left(i) <= Damping * rank[i]
        /\ Damping * rank[i] <= 100 * (d[i] * Share(i)) + Damping * Left(i) + 100 * d[i]
    BY <2>1, <2>2, <2>3, ShareIsFair
  <2> QED
    BY <2>3, <2>4
<1>4. Numbers(d, n) /\ Numbers(p, n) /\ Numbers(l, n)
  <2> HIDE DEF d, p, l
  <2> QED
    BY <1>3 DEF Numbers
<1>5. Numbers(given, n) /\ Numbers(w, n) /\ SumOf(given, n) = SumOf(w, n)
  <2>1. HandsOn(n, out, p, col, given, w)
    BY DEF HandsOn
  <2> HIDE DEF given, w, p, col
  <2> QED
    BY <1>4, <2>1, GivenIsHandedOn
<1>6. PICK base : base = ((100 - Damping) * Scale) \div (100 * n)
  OBVIOUS
<1>7. PICK spread : spread = Spread
  OBVIOUS
<1>8. PICK a \in Nat : a = (100 - Damping) * Scale
  BY <1>1
<1>9. PICK b \in Nat : b = 100 * n
  OBVIOUS
<1>10. b # 0
  BY <1>9
<1>11. base \in Nat /\ b * base <= a /\ a <= b * base + b
  <2>1. base = a \div b
    BY <1>6, <1>8, <1>9
  <2> QED
    BY <1>10, <2>1, RoundedDown
<1>12. SumOf(l, n) \in Nat
  <2> HIDE DEF l
  <2> QED
    BY <1>4, SumIsNat
<1>13. PICK c \in Nat : c = Damping * SumOf(l, n)
  <2>1. \A x, y \in Nat : x * y \in Nat
    OBVIOUS
  <2> HIDE DEF l
  <2> QED
    BY <1>1, <1>12, <2>1
<1>14. spread = c \div b
  <2>1. [i \in DOMAIN ids |-> Left(i)] = l
    OBVIOUS
  <2>2. OverNodes(l) = SumOf(l, n)
    BY DEF OverNodes
  <2> HIDE DEF l
  <2> QED
    BY <1>7, <1>9, <1>13, <2>1, <2>2 DEF Spread
<1>15. spread \in Nat /\ b * spread <= c /\ c <= b * spread + b
  BY <1>10, <1>14, RoundedDown
<1>16. \A j \in 1 .. n : next[j] = (base + given[j]) + spread
  <2> TAKE j \in 1 .. n
  <2>1. [i \in DOMAIN ids |-> IF j \in out[i] THEN Share(i) ELSE 0]
          = [i \in 1 .. n |-> IF j \in out[i] THEN p[i] ELSE 0]
    OBVIOUS
  <2>2. col[j] = [i \in 1 .. n |-> IF j \in out[i] THEN p[i] ELSE 0]
    OBVIOUS
  <2>3. OverNodes([i \in DOMAIN ids |-> IF j \in out[i] THEN Share(i) ELSE 0]) = given[j]
    BY <2>1, <2>2 DEF OverNodes
  <2> HIDE DEF given
  <2> QED
    BY <1>6, <1>7, <2>3 DEF RankAfter
<1> HIDE DEF given, col, w, l, p, d
<1> DEFINE even == [j \in 1 .. n |-> base + spread]
<1>17. Numbers(even, n) /\ SumOf(even, n) = n * (base + spread)
  <2>1. \A j \in 1 .. n : even[j] = base + spread
    OBVIOUS
  <2>2. base + spread \in Nat
    BY <1>11, <1>15
  <2> HIDE DEF even
  <2> QED
    BY <2>1, <2>2, SumOfSame
<1>18. \A j \in 1 .. n : next[j] = even[j] + given[j]
  <2>1. \A j \in 1 .. n : given[j] \in Nat
    BY <1>5 DEF Numbers
  <2> QED
    BY <1>11, <1>15, <1>16, <2>1
<1> HIDE DEF even
<1>19. Numbers(next, n) /\ SumOf(next, n) = SumOf(even, n) + SumOf(given, n)
  <2>1. \A h : (\A j \in 1 .. n : h[j] = even[j] + given[j])
              => Numbers(h, n) /\ SumOf(h, n) = SumOf(even, n) + SumOf(given, n)
    BY <1>5, <1>17, SumAdds
  <2> QED
    BY <1>18, <2>1, Zenon
<1>20. next \in [1 .. n -> Nat]
  <2>1. \A j \in 1 .. n : next[j] \in Nat
    BY <1>19 DEF Numbers
  <2>2. DOMAIN next = 1 .. n /\ next = [j \in DOMAIN next |-> next[j]]
    BY DEF RankAfter
  <2> QED
    BY <2>1, <2>2
<1>21. /\ 100 * SumOf(w, n) + Damping * SumOf(l, n) <= Damping * SumOf(rank, n)
       /\ Damping * SumOf(rank, n) <= 100 * SumOf(w, n) + Damping * SumOf(l, n) + 100 * SumOf(d, n)
  <2>1. Bounded(n, Damping, rank, w, l, d)
    BY <1>3 DEF Bounded
  <2> QED
    BY <1>1, <1>4, <1>5, <2>1, SumsBounded
<1>22. PICK m : m = SumOf(next, n)
  OBVIOUS
<1>23. PICK x \in Nat : x = SumOf(w, n)
  BY <1>5, SumIsNat
<1>24. PICK y : y = Damping * SumOf(rank, n)
  OBVIOUS
<1>25. PICK z \in Nat : z = SumOf(d, n)
  BY <1>4, SumIsNat
<1>26. y \in Nat
  <2>1. SumOf(rank, n) \in Nat
    BY SumIsNat
  <2> QED
    BY <1>1, <1>24, <2>1
<1>27. 100 * x + c <= y /\ y <= 100 * x + c + 100 * z
  BY <1>13, <1>21, <1>23, <1>24, <1>25
<1>28. 100 * m = b * base + b * spread + 100 * x
  <2>1. m = n * (base + spread) + x
    BY <1>5, <1>17, <1>19, <1>22, <1>23
  <2>2. b * base + b * spread = 100 * (n * (base + spread))
    BY <1>9, <1>11, <1>15
  <2>3. n * (base + spread) \in Nat
    BY <1>11, <1>15
  <2> QED
    BY <2>1, <2>2, <2>3
<1>29. e = z
  BY <1>25 DEF d
<1>30. PICK s \in Nat : s = b * base
  BY <1>11
<1>31. PICK t \in Nat : t = b * spread
  BY <1>15
<1>32. m \in Nat
  <2>1. SumOf(next, n) \in Nat
    BY <1>19, SumIsNat
  <2> QED
    BY <1>22, <2>1
<1>33. 100 * m <= a + y
  BY <1>11, <1>15, <1>26, <1>27, <1>28, <1>30, <1>31, <1>32
<1>34. 100 * m + 100 * (2 * n + e) >= a + y
  BY <1>9, <1>11, <1>15, <1>26, <1>27, <1>28, <1>29, <1>30, <1>31, <1>32
<1> QED
  BY <1>8, <1>19, <1>20, <1>22, <1>24, <1>25, <1>29, <1>33, <1>34

\* Ranks that sum to one but for the rounding of the rounds made, one round on.
LEMMA MassIsKept ==
    ASSUME NEW n \in Nat, NEW e \in Nat, NEW k \in Nat, NEW mass \in Nat, NEW next \in Nat,
           mass <= Scale, mass + k * (2 * n + e) >= Scale,
           100 * next <= (100 - Damping) * Scale + Damping * mass,
           100 * next + 100 * (2 * n + e) >= (100 - Damping) * Scale + Damping * mass
    PROVE  next <= Scale /\ next + (k + 1) * (2 * n + e) >= Scale
<1>1. Damping \in Nat /\ Damping <= 100 /\ Scale \in Nat
  BY GraphAssumption
<1>2. PICK b \in Nat : b = 2 * n + e
  OBVIOUS
<1>3. PICK c \in Nat : c = k * b
  OBVIOUS
<1>4. PICK s \in Nat : s = Damping * Scale
  BY <1>1
<1>5. PICK m \in Nat : m = Damping * mass
  BY <1>1
<1>6. PICK v \in Nat : v = Damping * c
  BY <1>1
<1>7. (100 - Damping) * Scale = 100 * Scale - s
  BY <1>1, <1>4
<1>8. \A x, y, z \in Nat : x <= y => z * x <= z * y
  OBVIOUS
<1>9. m <= s
  BY <1>1, <1>4, <1>5, <1>8
<1>10. s <= m + v
  <2>1. Scale <= mass + c
    BY <1>2, <1>3
  <2>2. mass + c \in Nat
    OBVIOUS
  <2>3. Damping * Scale <= Damping * (mass + c)
    BY <1>1, <1>8, <2>1, <2>2
  <2>4. Damping * (mass + c) = m + v
    BY <1>1, <1>5, <1>6
  <2> QED
    BY <1>4, <2>3, <2>4
<1>11. v <= 100 * c
  <2>1. c * Damping <= c * 100
    BY <1>1, <1>8
  <2> QED
    BY <1>1, <1>6, <2>1
<1>12. (k + 1) * (2 * n + e) = c + b
  BY <1>2, <1>3
<1> QED
  BY <1>1, <1>2, <1>5, <1>7, <1>9, <1>10, <1>11, <1>12

\* An even rank sums to one but for the rounding.
LEMMA EvenMass ==
    ASSUME NEW n \in Nat, n # 0, NEW next, next = [i \in 1 .. n |-> Scale \div n]
    PROVE  /\ next \in [1 .. n -> Nat] /\ Numbers(next, n)
           /\ SumOf(next, n) <= Scale /\ SumOf(next, n) + n >= Scale
<1>1. Scale \in Nat
  BY GraphAssumption
<1>2. PICK c : c = Scale \div n
  OBVIOUS
<1>3. c \in Nat /\ n * c <= Scale /\ Scale <= n * c + n
  BY <1>1, <1>2, RoundedDown
<1>4. \A i \in 1 .. n : next[i] = c
  BY <1>2
<1>5. Numbers(next, n) /\ SumOf(next, n) = n * c
  BY <1>3, <1>4, SumOfSame
<1>6. next \in [1 .. n -> Nat]
  BY <1>2, <1>3
<1> QED
  BY <1>1, <1>3, <1>5, <1>6

-----------------------------------------------------------------------------
(* The invariant *)
Counted ==
    \A h \in DOMAIN Persisted :
        hostInlinks[h] = Persisted[h] + Cardinality(CrossingUrls(recorded, h))
MassKept ==
    /\ SumOf(rank, Len(ids)) <= Scale
    /\ SumOf(rank, Len(ids)) + (rounds + 1) * (2 * Len(ids) + edges) >= Scale

GraphIInv ==
    /\ Shaped(ids, out, edges, truncated, recorded)
    /\ truncated \in BOOLEAN /\ rounds \in Nat
    /\ hostInlinks \in [DOMAIN Persisted -> Nat]
    /\ rank = << >> => rounds = 0 /\ hostInlinks = Persisted
    /\ rank # << >> =>
          /\ Len(ids) # 0 /\ rank \in [1 .. Len(ids) -> Nat]
          /\ truncated \/ Counted
          /\ MassKept

LEMMA GraphInitIInv == GraphInit => GraphIInv
<1> SUFFICES ASSUME GraphInit PROVE GraphIInv
  OBVIOUS
<1>1. /\ ids = << >> /\ out = << >> /\ edges = 0 /\ truncated = FALSE
      /\ hostInlinks = Persisted /\ rank = << >> /\ rounds = 0 /\ recorded = << >>
  BY DEF GraphInit
<1>2. Interned(ids) /\ Len(ids) = 0 /\ out \in [1 .. Len(ids) -> SUBSET (1 .. Len(ids))]
  BY <1>1 DEF Interned, Distinct
<1>3. recorded \in Seq(Record) /\ Urls(recorded) = {}
  BY <1>1 DEF Urls
<1>4. IsFiniteSet(Urls(recorded)) /\ Cardinality(Urls(recorded)) = 0
  BY <1>3, FS_EmptySet
<1>5. SumOf(Degrees(ids, out), 0) = 0
  <2>1. Numbers(Degrees(ids, out), 0)
    BY DEF Numbers
  <2> QED
    BY <2>1, SumPasses
<1>6. MaxNodes \in Nat /\ MaxEdges \in Nat
  BY GraphAssumption
<1>7. Shaped(ids, out, edges, truncated, recorded)
  BY <1>1, <1>2, <1>3, <1>4, <1>5, <1>6 DEF Shaped
<1>8. Persisted \in [DOMAIN Persisted -> Nat]
  BY GraphAssumption
<1> QED
  BY <1>1, <1>7, <1>8 DEF GraphIInv

LEMMA RecordPageIInv ==
    ASSUME GraphIInv, NEW url \in PageURL, NEW links \in Seq(PageURL), RecordPage(url, links)
    PROVE  GraphIInv'
<1>1. PICK g : g = Follow(url, links)
  OBVIOUS
<1>2. PICK src : src = NodeOf(g.nodes, url)
  OBVIOUS
<1>3. /\ rank = << >> /\ rank' = << >> /\ hostInlinks' = hostInlinks /\ rounds' = rounds
      /\ ids' = g.nodes
      /\ out' = [i \in DOMAIN g.nodes |->
                   IF i = src THEN g.targets ELSE IF i \in DOMAIN out THEN out[i] ELSE {}]
      /\ edges' = Replacing(g.edges, IF src \in DOMAIN out THEN out[src] ELSE {})
      /\ truncated' = (truncated \/ g.full)
      /\ recorded' = Append(recorded, [url |-> url, links |-> links])
  BY <1>1, <1>2 DEF RecordPage
<1>4. PICK o : o = [i \in DOMAIN g.nodes |->
                      IF i = src THEN g.targets ELSE IF i \in DOMAIN out THEN out[i] ELSE {}]
  OBVIOUS
<1>5. PICK e : e = Replacing(g.edges, IF src \in DOMAIN out THEN out[src] ELSE {})
  OBVIOUS
<1>6. PICK rec : rec = Append(recorded, [url |-> url, links |-> links])
  OBVIOUS
<1>7. Shaped(ids, out, edges, truncated, recorded) /\ truncated \in BOOLEAN
  BY DEF GraphIInv
<1>8. Shaped(g.nodes, o, e, truncated \/ g.full, rec)
  BY <1>1, <1>2, <1>4, <1>5, <1>6, <1>7, RecordedShape
<1>9. Shaped(ids', out', edges', truncated', recorded')
  BY <1>3, <1>4, <1>5, <1>6, <1>8
<1>10. truncated' \in BOOLEAN
  BY <1>3
<1>11. /\ rounds' \in Nat /\ hostInlinks' \in [DOMAIN Persisted -> Nat]
       /\ rounds' = 0 /\ hostInlinks' = Persisted
  BY <1>3 DEF GraphIInv
<1> QED
  BY <1>3, <1>9, <1>10, <1>11 DEF GraphIInv

LEMMA FinishIInv == ASSUME GraphIInv, Finish PROVE GraphIInv'
<1>1. /\ rank = << >> /\ ids # << >>
      /\ hostInlinks' = [h \in DOMAIN hostInlinks |-> hostInlinks[h] + Cardinality(Crossing(h))]
      /\ rank' = [i \in DOMAIN ids |-> Scale \div Len(ids)]
      /\ ids' = ids /\ out' = out /\ edges' = edges /\ truncated' = truncated
      /\ rounds' = rounds /\ recorded' = recorded
  BY DEF Finish
<1>2. /\ Shaped(ids, out, edges, truncated, recorded) /\ truncated \in BOOLEAN
      /\ rounds = 0 /\ hostInlinks = Persisted
  BY <1>1 DEF GraphIInv
<1>3. Interned(ids) /\ edges \in Nat
  BY <1>2 DEF Shaped
<1>4. PICK n \in Nat : n = Len(ids)
  BY <1>3 DEF Interned
<1>5. DOMAIN ids = 1 .. n /\ n # 0
  BY <1>1, <1>3, <1>4 DEF Interned
<1>6. PICK next : next = [i \in 1 .. n |-> Scale \div n]
  OBVIOUS
<1>7. /\ next \in [1 .. n -> Nat] /\ Numbers(next, n)
      /\ SumOf(next, n) <= Scale /\ SumOf(next, n) + n >= Scale
  BY <1>5, <1>6, EvenMass
<1>8. rank' = next
  BY <1>1, <1>4, <1>5, <1>6
<1>9. rank' # << >>
  <2>1. 1 \in DOMAIN next
    BY <1>5, <1>6
  <2> QED
    BY <1>8, <2>1
<1>10. MassKept'
  <2>1. SumOf(next, n) \in Nat
    BY <1>7, SumIsNat
  <2>2. (0 + 1) * (2 * n + edges) >= n
    BY <1>3
  <2>3. /\ SumOf(next, n) <= Scale
        /\ SumOf(next, n) + (0 + 1) * (2 * n + edges) >= Scale
    <3>1. Scale \in Nat
      BY GraphAssumption
    <3>2. (0 + 1) * (2 * n + edges) \in Nat
      BY <1>3
    <3> QED
      BY <1>7, <2>1, <2>2, <3>1, <3>2
  <2> QED
    BY <1>1, <1>2, <1>4, <1>8, <2>3 DEF MassKept
<1>11. \A h : Crossing(h) = CrossingOf(ids, out, h)
  BY <1>4, <1>5 DEF Crossing, CrossingOf
<1>12. hostInlinks' \in [DOMAIN Persisted -> Nat]
  <2>1. \A h : Cardinality(Crossing(h)) \in Nat
    BY <1>3, <1>11, CrossingIsFinite
  <2>2. Persisted \in [DOMAIN Persisted -> Nat]
    BY GraphAssumption
  <2>3. \A h \in DOMAIN Persisted : Persisted[h] + Cardinality(Crossing(h)) \in Nat
    BY <2>1, <2>2
  <2> QED
    BY <1>1, <1>2, <2>3
<1>13. truncated' \/ Counted'
  <2> SUFFICES ASSUME ~truncated, NEW h \in DOMAIN Persisted
               PROVE  hostInlinks'[h] = Persisted[h] + Cardinality(CrossingUrls(recorded, h))
    BY <1>1 DEF Counted
  <2>1. truncated = FALSE
    BY <1>2
  <2>2. Shaped(ids, out, edges, FALSE, recorded)
    BY <1>2, <2>1
  <2>3. Cardinality(CrossingUrls(recorded, h)) = Cardinality(CrossingOf(ids, out, h))
    BY <2>2, CrossingsAreTheLinks
  <2>4. hostInlinks'[h] = Persisted[h] + Cardinality(Crossing(h))
    BY <1>1, <1>2
  <2> QED
    BY <1>11, <2>3, <2>4
<1>14. Shaped(ids', out', edges', truncated', recorded')
  BY <1>1, <1>2
<1>15. Len(ids') # 0 /\ rank' \in [1 .. Len(ids') -> Nat]
  BY <1>1, <1>4, <1>5, <1>7, <1>8
<1>16. truncated' \in BOOLEAN /\ rounds' \in Nat
  BY <1>1, <1>2
<1> QED
  BY <1>9, <1>10, <1>12, <1>13, <1>14, <1>15, <1>16 DEF GraphIInv

LEMMA PropagateIInv == ASSUME GraphIInv, Propagate PROVE GraphIInv'
<1>1. /\ rank # << >>
      /\ rank' = [j \in DOMAIN ids |->
            ((100 - Damping) * Scale) \div (100 * Len(ids))
            + OverNodes([i \in DOMAIN ids |-> IF j \in out[i] THEN Share(i) ELSE 0])
            + Spread]
      /\ rounds' = rounds + 1
      /\ ids' = ids /\ out' = out /\ edges' = edges /\ truncated' = truncated
      /\ hostInlinks' = hostInlinks /\ recorded' = recorded
  BY DEF Propagate
<1>2. /\ Shaped(ids, out, edges, truncated, recorded) /\ truncated \in BOOLEAN
      /\ rounds \in Nat /\ hostInlinks \in [DOMAIN Persisted -> Nat]
      /\ Len(ids) # 0 /\ rank \in [1 .. Len(ids) -> Nat]
      /\ truncated \/ Counted
      /\ MassKept
  BY <1>1 DEF GraphIInv
<1>3. /\ Interned(ids) /\ out \in [1 .. Len(ids) -> SUBSET (1 .. Len(ids))] /\ edges \in Nat
      /\ edges = SumOf(Degrees(ids, out), Len(ids))
  BY <1>2 DEF Shaped
<1>4. PICK n \in Nat : n = Len(ids)
  BY <1>3 DEF Interned
<1>5. DOMAIN ids = 1 .. n /\ n # 0 /\ \A i \in 1 .. n : out[i] \subseteq 1 .. n
  BY <1>2, <1>3, <1>4 DEF Interned
<1>6. Numbers(rank, n)
  BY <1>2, <1>4 DEF Numbers
<1>7. PICK next : next = RankAfter
  OBVIOUS
<1>8. PICK e : e = SumOf(Degrees(ids, out), n)
  OBVIOUS
<1>9. e = edges
  BY <1>3, <1>4, <1>8
<1>10. /\ next \in [1 .. n -> Nat] /\ Numbers(next, n) /\ e \in Nat
       /\ 100 * SumOf(next, n) <= (100 - Damping) * Scale + Damping * SumOf(rank, n)
       /\ 100 * SumOf(next, n) + 100 * (2 * n + e)
             >= (100 - Damping) * Scale + Damping * SumOf(rank, n)
  BY <1>4, <1>5, <1>6, <1>7, <1>8, RoundKeepsMass
<1>11. PICK k \in Nat : k = rounds + 1
  BY <1>2
<1>12. PICK mass \in Nat : mass = SumOf(rank, n)
  BY <1>6, SumIsNat
<1>13. PICK m \in Nat : m = SumOf(next, n)
  BY <1>10, SumIsNat
<1>14. mass <= Scale /\ mass + k * (2 * n + e) >= Scale
  BY <1>2, <1>4, <1>9, <1>11, <1>12 DEF MassKept
<1>15. /\ 100 * m <= (100 - Damping) * Scale + Damping * mass
       /\ 100 * m + 100 * (2 * n + e) >= (100 - Damping) * Scale + Damping * mass
  BY <1>10, <1>12, <1>13
<1>16. m <= Scale /\ m + (k + 1) * (2 * n + e) >= Scale
  BY <1>10, <1>14, <1>15, MassIsKept
<1>17. rank' = next
  BY <1>1, <1>7 DEF RankAfter
<1>18. MassKept'
  <2>1. rounds' = k
    BY <1>1, <1>11
  <2> QED
    BY <1>1, <1>4, <1>9, <1>13, <1>16, <1>17, <2>1 DEF MassKept
<1>19. rank' # << >>
  <2>1. 1 \in DOMAIN next
    BY <1>5, <1>10
  <2> QED
    BY <1>17, <2>1
<1>20. truncated' \/ Counted'
  BY <1>1, <1>2 DEF Counted
<1>21. Len(ids') # 0 /\ rank' \in [1 .. Len(ids') -> Nat]
  BY <1>1, <1>4, <1>5, <1>10, <1>17
<1>22. /\ Shaped(ids', out', edges', truncated', recorded') /\ truncated' \in BOOLEAN
       /\ rounds' \in Nat /\ hostInlinks' \in [DOMAIN Persisted -> Nat]
  BY <1>1, <1>2
<1> QED
  BY <1>18, <1>19, <1>20, <1>21, <1>22 DEF GraphIInv

\* The graph is what was recorded, whatever the sites, limits and links: every
\* node, its links and the counter (record of graph.rs), and the sum of the
\* ranks is bounded from both sides (page_rank).
THEOREM SpecGraphIInv == GraphSpec => []GraphIInv
<1>1. ASSUME GraphIInv, GraphNext PROVE GraphIInv'
  <2>1. ASSUME NEW url \in PageURL, NEW n \in 0 .. MaxLinks, NEW links \in [1 .. n -> PageURL],
               RecordPage(url, links)
        PROVE  GraphIInv'
    <3>1. n \in Nat
      BY GraphAssumption
    <3>2. links \in Seq(PageURL)
      BY <3>1
    <3> QED
      BY <1>1, <2>1, <3>2, RecordPageIInv
  <2>2. CASE Finish
    BY <1>1, <2>2, FinishIInv
  <2>3. CASE Propagate
    BY <1>1, <2>3, PropagateIInv
  <2> QED
    BY <1>1, <2>1, <2>2, <2>3 DEF GraphNext
<1>2. ASSUME GraphIInv, UNCHANGED graphVars PROVE GraphIInv'
  <2>1. /\ ids' = ids /\ out' = out /\ edges' = edges /\ truncated' = truncated
        /\ hostInlinks' = hostInlinks /\ rank' = rank /\ rounds' = rounds /\ recorded' = recorded
    BY <1>2 DEF graphVars
  <2>2. Counted' = Counted /\ MassKept' = MassKept
    BY <2>1 DEF Counted, MassKept
  <2> QED
    BY <1>2, <2>1, <2>2 DEF GraphIInv
<1> QED
  BY <1>1, <1>2, GraphInitIInv, PTL DEF GraphSpec

LEMMA IInvIsWhole == GraphIInv => GraphIsWhole
<1> SUFFICES ASSUME GraphIInv PROVE GraphIsWhole
  OBVIOUS
<1>1. /\ Interned(ids) /\ edges <= MaxEdges
      /\ \A i \in 1 .. Len(ids) : TargetsOf(ids, out, i) \subseteq LinksOf(recorded, ids[i])
      /\ truncated \/ \A i \in 1 .. Len(ids) : TargetsOf(ids, out, i) = LinksOf(recorded, ids[i])
      /\ edges = SumOf(Degrees(ids, out), Len(ids))
      /\ Len(ids) <= MaxNodes + Cardinality(Urls(recorded))
  BY DEF GraphIInv, Shaped
<1>2. DOMAIN ids = 1 .. Len(ids)
  BY <1>1 DEF Interned
<1>3. \A u : LastLinks(u) = LinksOf(recorded, u)
  BY DEF LastLinks, LinksOf, Calls
<1>4. \A i \in DOMAIN ids : Targets(i) = TargetsOf(ids, out, i)
  BY DEF Targets, TargetsOf
<1>5. \A i \in DOMAIN ids :
         /\ Targets(i) \subseteq LastLinks(ids[i])
         /\ ~truncated => Targets(i) = LastLinks(ids[i])
  BY <1>1, <1>2, <1>3, <1>4
<1>6. edges = OverNodes([i \in DOMAIN ids |-> Cardinality(out[i])])
  BY <1>1 DEF OverNodes, Degrees
<1>7. Len(ids) <= MaxNodes + Cardinality({recorded[k].url : k \in DOMAIN recorded})
  BY <1>1 DEF Urls
<1>8. ASSUME rank # << >>
      PROVE  /\ ~truncated => \A h \in DOMAIN hostInlinks :
                   hostInlinks[h] = Persisted[h] + Cardinality(
                       {e \in PageURL \X PageURL :
                           e[2] \in LastLinks(e[1]) /\ SiteOf[e[2]] = h /\ SiteOf[e[1]] # h})
             /\ LET mass == OverNodes(rank)
                IN  mass <= Scale /\ mass + (rounds + 1) * (2 * Len(ids) + edges) >= Scale
  <2>1. /\ truncated \/ Counted
        /\ MassKept /\ DOMAIN hostInlinks = DOMAIN Persisted
    BY <1>8 DEF GraphIInv
  <2>2. ASSUME NEW h
        PROVE  CrossingUrls(recorded, h) =
                  {e \in PageURL \X PageURL :
                      e[2] \in LastLinks(e[1]) /\ SiteOf[e[2]] = h /\ SiteOf[e[1]] # h}
    BY <1>3 DEF CrossingUrls
  <2>3. ~truncated => \A h \in DOMAIN hostInlinks :
           hostInlinks[h] = Persisted[h] + Cardinality(CrossingUrls(recorded, h))
    BY <2>1 DEF Counted
  <2>4. ~truncated => \A h \in DOMAIN hostInlinks :
           hostInlinks[h] = Persisted[h] + Cardinality(
               {e \in PageURL \X PageURL :
                   e[2] \in LastLinks(e[1]) /\ SiteOf[e[2]] = h /\ SiteOf[e[1]] # h})
    <3> SUFFICES ASSUME ~truncated, NEW h \in DOMAIN hostInlinks
                 PROVE  hostInlinks[h] = Persisted[h] + Cardinality(
                           {e \in PageURL \X PageURL :
                               e[2] \in LastLinks(e[1]) /\ SiteOf[e[2]] = h /\ SiteOf[e[1]] # h})
      OBVIOUS
    <3>1. hostInlinks[h] = Persisted[h] + Cardinality(CrossingUrls(recorded, h))
      BY <2>3
    <3> QED
      BY <2>2, <3>1
  <2> QED
    BY <2>1, <2>4 DEF MassKept, OverNodes
<1> QED
  BY <1>1, <1>5, <1>6, <1>7, <1>8 DEF GraphIsWhole

\* The graph is what was recorded last of every page, or says that it was
\* truncated, its counts are those of the links, and no rank leaks (record,
\* finish and page_rank of graph.rs).
THEOREM SpecGraphIsWhole == GraphSpec => []GraphIsWhole
  BY SpecGraphIInv, IInvIsWhole, PTL
=============================================================================
