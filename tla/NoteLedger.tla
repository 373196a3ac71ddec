----------------------------- MODULE NoteLedger -----------------------------
(***************************************************************************)
(* What the write tools promise about the texts of a vault, without the    *)
(* steps by which they do it.  A place (a note's path or an archive file)  *)
(* holds a text or nothing, and an open call says which places it was      *)
(* given.  A text is written over only by an update that was given its     *)
(* place, once; it leaves its place otherwise only for the archive place   *)
(* planned for it, which is empty, and comes back only from there: a call  *)
(* that supersedes can duplicate a text but never loses one.               *)
(***************************************************************************)
CONSTANTS
    Places, Archive, Texts, Nothing,
    Writers,      \* those who call the tools
    Users,        \* the places the user edits by other means
    Nowhere,      \* the archive place of a text that is not superseded
    Idle          \* no open call

VARIABLES
    text,         \* text[p] is what place p holds
    open          \* open[w] is the open call of w

Request ==
    [op : {"create", "update"}, place : Places, text : Texts,
     dest : [Places -> Archive \cup {Nowhere}], stage : {"accepted", "written"}]

LedgerInit ==
    /\ text \in [Places -> Texts \cup {Nothing}]
    /\ open = [w \in Writers |-> Idle]

Empty(p) == text[p] = Nothing
Superseded(w) == {p \in Places : open[w].dest[p] # Nowhere}
Working(w) == open[w] # Idle /\ open[w].stage = "written"

(* A call is open from its acceptance to its end, of whatever kind.        *)
Begin(w) ==
    /\ open[w] = Idle /\ open'[w] \in Request /\ open'[w].stage = "accepted"
    /\ open' = [open EXCEPT ![w] = open'[w]]
    /\ UNCHANGED text

End(w) ==
    /\ open[w] # Idle
    /\ open' = [open EXCEPT ![w] = Idle]
    /\ UNCHANGED text

(* A create needs an empty place, an update one that holds a text.         *)
Write(w) ==
    /\ open[w] # Idle /\ open[w].stage = "accepted"
    /\ open[w].op = "create" <=> Empty(open[w].place)
    /\ text' = [text EXCEPT ![open[w].place] = open[w].text]
    /\ open' = [open EXCEPT ![w].stage = "written"]

(* A text moves to an empty place, or a move fails and leaves it in both.  *)
Transfer(p, q) ==
    /\ ~Empty(p) /\ Empty(q)
    /\ \/ text' = [text EXCEPT ![p] = Nothing, ![q] = text[p]]
       \/ text' = [text EXCEPT ![q] = text[p]]
    /\ UNCHANGED open

(* Only after the call has written, and only its superseded texts: to the  *)
(* archive, or back from there.                                            *)
Supersede(w) ==
    /\ Working(w)
    /\ \E p \in Superseded(w) :
          \/ Transfer(p, open[w].dest[p])
          \/ Transfer(open[w].dest[p], p)

(* The user saves or deletes.                                              *)
Edit(p) ==
    /\ \E t \in Texts \cup {Nothing} : text' = [text EXCEPT ![p] = t]
    /\ UNCHANGED open

LedgerNext ==
    \/ \E w \in Writers : Begin(w) \/ End(w) \/ Write(w) \/ Supersede(w)
    \/ \E p \in Users : Edit(p)

LedgerSpec == LedgerInit /\ [][LedgerNext]_<<text, open>>

=============================================================================
