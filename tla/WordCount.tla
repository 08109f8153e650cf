------------------------------ MODULE WordCount ------------------------------
(***************************************************************************)
(* The word counter of warmup/wc.c: wc_init splits the text of a file into *)
(* words and counts each in a hash table with open addressing, one         *)
(* character and one probe at a time; wc_output lists the table.  The file *)
(* is not empty: test_wc.c gives up on mapping an empty one.               *)
(***************************************************************************)
EXTENDS Integers, Sequences, FiniteSets, SequencesExt

CONSTANTS Texts,      \* the contents of files
          Code,       \* Code[c]: the value of a character that is no space
          PerWord,    \* slots of the table per word (5)
          HashRange,  \* the values of an unsigned long (2^64)
          NULL

Space == {"blank", "newline", "tab"}

ASSUME WordCountAssumption ==
  /\ PerWord \in Nat \ {0} /\ HashRange \in Nat \ {0}
  /\ \A t \in Texts : /\ t \in Seq(Space \cup DOMAIN Code) /\ t # <<>>
                      /\ \A a, b \in DOMAIN t : \A n \in 1 .. Len(t) :
                           NULL \notin {SubSeq(t, a, b), [word |-> SubSeq(t, a, b), freq |-> n]}
  /\ \A c \in DOMAIN Code : Code[c] \in Int /\ c \notin Space

VARIABLES
  word_array,   \* the text
  i,            \* how much of it wc_init has read
  startidx,     \* where the current word starts
  ctr,          \* its characters so far
  consecutive,  \* whether there are any
  table,        \* wc->table: an item or NULL in each slot
  word,         \* the word update_table looks for, or NULL
  loc, search   \* the slot it looks at, and how many it has passed

wvars == <<word_array, i, startidx, ctr, consecutive, table, word, loc, search>>

isspaceBlank(c) == c \in {"blank", "newline"}   \* mutant: a tab belongs to a word
isspace(c) == c \in Space

word_count(text) == 1 + Cardinality({k \in DOMAIN text : text[k] \in {"blank", "newline"}})
size == word_count(word_array) * PerWord
Slot == 0 .. size - 1

hash_function(w) ==
  LET hash[k \in 0 .. Len(w)] ==
        IF k = 0 THEN 7 ELSE (hash[k - 1] * 31 + Code[w[k]]) % HashRange
  IN hash[Len(w)] % size

uncounted(w) == [word |-> w, freq |-> 0]        \* mutant: freq not set to 1
create(w) == [word |-> w, freq |-> 1]

WInit ==
  /\ word_array \in Texts
  /\ i = 0 /\ startidx = 0 /\ ctr = 0 /\ consecutive = FALSE
  /\ table = [l \in Slot |-> NULL]
  /\ word = NULL /\ loc = 0 /\ search = 0

-----------------------------------------------------------------------------
Probing == word # NULL
AtEnd == i = Len(word_array)
Done == AtEnd /\ ~consecutive /\ ~Probing

(* The word is copied out of the text and update_table called with its key. *)
LookUp ==
  LET w == SubSeq(word_array, startidx + 1, startidx + ctr)
  IN word' = w /\ loc' = hash_function(w) /\ search' = 0

(* One character.                                                           *)
ReadSpace ==
  /\ ~Probing /\ ~AtEnd /\ isspace(word_array[i + 1])
  /\ IF consecutive THEN LookUp ELSE UNCHANGED <<word, loc, search>>
  /\ ctr' = IF consecutive THEN 0 ELSE ctr
  /\ startidx' = i + 1
  /\ consecutive' = FALSE
  /\ i' = i + 1
  /\ UNCHANGED <<word_array, table>>

ReadLetter ==
  /\ ~Probing /\ ~AtEnd /\ ~isspace(word_array[i + 1])
  /\ ctr' = ctr + 1
  /\ consecutive' = TRUE
  /\ i' = i + 1
  /\ UNCHANGED <<word_array, startidx, table, word, loc, search>>

(* The word the text ends with.                                             *)
LastWord ==
  /\ ~Probing /\ AtEnd /\ consecutive
  /\ LookUp
  /\ consecutive' = FALSE
  /\ UNCHANGED <<word_array, i, startidx, ctr, table>>

SlotsLeftButOne == search < size - 1            \* mutant: the last slot is not looked at
SlotsLeft == search < size
StopAtEnd(l) == IF l + 1 < size THEN l + 1 ELSE l   \* mutant: no wrap round
NextSlot(l) == (l + 1) % size
Occupied == table[loc] # NULL /\ SlotsLeft

(* update_table, one turn of its loop.                                      *)
CountWord ==
  /\ Probing /\ Occupied /\ table[loc].word = word
  /\ table' = [table EXCEPT ![loc].freq = @ + 1]
  /\ word' = NULL
  /\ UNCHANGED <<word_array, i, startidx, ctr, consecutive, loc, search>>

Probe ==
  /\ Probing /\ Occupied /\ table[loc].word # word
  /\ loc' = NextSlot(loc)
  /\ search' = search + 1
  /\ UNCHANGED <<word_array, i, startidx, ctr, consecutive, table, word>>

(* A free slot, or, once all have been looked at, whatever the slot holds.  *)
InsertWord ==
  /\ Probing /\ ~Occupied
  /\ table' = [table EXCEPT ![loc] = create(word)]
  /\ word' = NULL
  /\ UNCHANGED <<word_array, i, startidx, ctr, consecutive, loc, search>>

Counted == Done /\ UNCHANGED wvars

WNext == ReadSpace \/ ReadLetter \/ LastWord \/ CountWord \/ Probe \/ InsertWord \/ Counted

WSpec == WInit /\ [][WNext]_wvars

(* wc_output: the items in the order of their slots.                        *)
wc_output ==
  LET listed[k \in 0 .. size] ==
        IF k = 0 THEN <<>>
        ELSE IF table[k - 1] = NULL THEN listed[k - 1]
        ELSE Append(listed[k - 1], table[k - 1])
  IN listed[size]

-----------------------------------------------------------------------------
(* The reference: a word is a longest run of characters that are no spaces. *)
InWord(k) == k \in DOMAIN word_array /\ ~(word_array[k] \in Space)
Words ==
  {r \in (DOMAIN word_array) \X (DOMAIN word_array) :
     /\ \A k \in r[1] .. r[2] : InWord(k)
     /\ r[1] <= r[2] /\ ~InWord(r[1] - 1) /\ ~InWord(r[2] + 1)}
Content(r) == SubSeq(word_array, r[1], r[2])
Distinct == {Content(r) : r \in Words}
Occurrences(w) == Cardinality({r \in Words : Content(r) = w})

ListsEachWordOnce ==
  /\ Len(wc_output) = Cardinality(Distinct)
  /\ {item.word : item \in Range(wc_output)} = Distinct
  /\ \A item \in Range(wc_output) : item.freq = Occurrences(item.word)

(* Every word of the text is listed once, with the number of its            *)
(* occurrences, however words collide, wrap round the end of the table or   *)
(* fill it to the last slot, as long as the different words have room: the  *)
(* slots are counted with blanks and newlines, and six words between tabs   *)
(* find five, so that the sixth takes the place of another.                 *)
Fits == Cardinality(Distinct) <= size
CountsRight == Done /\ Fits => ListsEachWordOnce

Filled == {l \in Slot : table[l] # NULL}

(* The table is a bag of words: a word found is counted where it was        *)
(* inserted, and inserting one forgets none, whatever is in the slots       *)
(* between its key and its place.                                           *)
Bag == INSTANCE WordBag WITH
  seen <- [w \in {table[l].word : l \in Filled} |->
             (CHOOSE item \in {table[l] : l \in Filled} : item.word = w).freq]

ImplementsBag == Bag!Spec
=============================================================================
