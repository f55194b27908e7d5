--------------------------- MODULE ListsProperties ---------------------------
(***************************************************************************)
(* What a client that reads a list page by page has seen, while others     *)
(* save messages and create conversations.                                 *)
(***************************************************************************)
EXTENDS Lists

\* Histories and answers speak of rows that are there.
ListsTypeOK ==
    /\ back \subseteq DOMAIN rows["conversation"]
    /\ \A r \in Req :
        /\ stamp[r] \in 0..clock
        /\ Asked[r].kind = "list" =>
            LET row == DOMAIN rows[Asked[r].of]
            IN  /\ pc[r] \in {"new", "found", "paged", "done"}
                /\ found[r] \subseteq row
                /\ had[r] \in SUBSET [id : row, at : 0..clock]
                /\ \A p \in DOMAIN got[r] : got[r][p] \in [ids : SUBSET row, total : Nat]
        /\ pc[r] = "stamped" => Asked[r].conv \in DOMAIN rows["conversation"]

\* The client asked for pages within the limit and has got all of them.
Complete(r) ==
    /\ Asked[r].kind = "list" /\ pc[r] = "done"
    /\ Asked[r].size <= MaxSize
    /\ got[r] # <<>> /\ Len(got[r]) * Asked[r].size >= Last(got[r]).total

Received(r) == UNION {got[r][p].ids : p \in DOMAIN got[r]}

\* Rows that are saved while a client pages only push others to later pages. It
\* gets every row that was there at its first page, except a conversation that
\* moved to the front meanwhile, and rows whose time was read more than once: the
\* order has nothing to tell those apart, and each page may have them in another.
\* If some conversation's updated_at went back, which two saves at once do, others
\* move up and may be missed, too; and users, listed in no order, may be on two
\* pages or none.
PagesMissNothing ==
    \A r \in Req : Complete(r) =>
        \/ \A h \in had[r] : h.id \in Received(r) \/ Time(r, h.id) # h.at \/ h.at \in shared
        \/ Asked[r].of = "conversation" /\ back # {}
        \/ Asked[r].of = "account"

\* A message and its conversation's updated_at are written together: no message is
\* later than its conversation, which a list of conversations goes by, unless
\* updated_at went back.
ConversationAfterItsMessages ==
    \A m \in DOMAIN rows["message"] :
        LET c == rows["message"][m].conv
        IN  c \in back \/ rows["message"][m].at <= rows["conversation"][c].at
=============================================================================
