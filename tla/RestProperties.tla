---------------------------- MODULE RestProperties ----------------------------
(***************************************************************************)
(* What the REST requests keep together.                                   *)
(***************************************************************************)
EXTENDS Rest, StoreProperties, AccountsProperties, ListsProperties

\* Every row has an id its sequence gave, or its registration brought, and refers to
\* rows that are there; so do tokens, requests under way, answers and histories.
RestTypeOK == TypeOK /\ AccountsTypeOK /\ ListsTypeOK
=============================================================================
