--------------------------- MODULE VersionedOverlay ---------------------------
(***************************************************************************)
(* What the forked-state overlay promises its caller (spec.md sections 3,  *)
(* 4.2, 4.4 and 8), stated without any of the machinery that implements it *)
(* (lazy root minting, the persistent map, the storageCleared flag).       *)
(*                                                                         *)
(* The overlay is seen through its OPINION of every account field and      *)
(* storage slot: a value it knows locally, or Remote when a read must fall *)
(* back to the archival node at the current context height.  A tombstone  *)
(* or a cleared storage is the opinion 0, never Remote.                    *)
(*                                                                         *)
(*  - opinion: the live opinion;                                           *)
(*  - height:  the remote height that Remote opinions are read at;         *)
(*  - saved:   the opinions recorded by the open checkpoints, oldest first;*)
(*  - named:   state root token -> the opinion it names (None if unused);  *)
(*             a token, once it names an opinion, names it forever (I1).   *)
(***************************************************************************)
EXTENDS Naturals, Sequences

LOCAL SeqExt == INSTANCE SequencesExt

CONSTANTS
  Addresses,        \* account addresses
  Keys,             \* storage keys (all 32 bytes long)
  StorageValues,    \* non-zero storage values
  AccountValues,    \* nonce and balance values
  Codes,            \* non-empty contract codes
  EmptyCode,        \* the empty code "0x"
  ForkBlockNumber,  \* the remote height the overlay was forked at
  BlockNumbers,     \* the heights a block context may name
  Roots,            \* state root tokens
  Remote,           \* opinion: "ask the remote node"
  None              \* a token that names nothing yet

VARIABLES opinion, height, saved, named

overlayVars == <<opinion, height, saved, named>>

AccountOpinions ==
  [nonce: AccountValues \cup {Remote}, balance: AccountValues \cup {Remote},
   code: Codes \cup {EmptyCode, Remote},
   storage: [Keys -> StorageValues \cup {0, Remote}]]

Opinions == [Addresses -> AccountOpinions]

\* The opinion of an overlay that knows nothing locally.
AllRemote ==
  [a \in Addresses |-> [nonce |-> Remote, balance |-> Remote, code |-> Remote,
                        storage |-> [k \in Keys |-> Remote]]]

ZeroStorage == [k \in Keys |-> 0]

Init ==
  /\ opinion \in Opinions
  /\ height = ForkBlockNumber
  /\ saved = <<>>
  /\ \E t \in Roots : named = [r \in Roots |-> IF r = t THEN opinion ELSE None]

\* A write changes the opinion of one account and nothing else.
Update(a, acc) ==
  /\ opinion' = [opinion EXCEPT ![a] = acc]
  /\ UNCHANGED <<height, saved, named>>

\* A slot write is visible as written; writing zero masks the remote value.
WriteSlot(a, k, v) == Update(a, [opinion[a] EXCEPT !.storage[k] = v])

\* Clearing storage masks every remote slot of the account.
ClearSlots(a) == Update(a, [opinion[a] EXCEPT !.storage = ZeroStorage])

\* A destroyed account is empty and is never fetched from the remote again.
Destroy(a) ==
  Update(a, [nonce |-> 0, balance |-> 0, code |-> EmptyCode,
             storage |-> ZeroStorage])

\* Nonce and balance are set; the code only when it is known to be empty.
SetFields(a, n, b, emptyCode) ==
  Update(a, [opinion[a] EXCEPT !.nonce = n, !.balance = b,
                               !.code = IF emptyCode THEN EmptyCode ELSE @])

SetCode(a, c) == Update(a, [opinion[a] EXCEPT !.code = c])

\* Naming the live opinion takes a token that named nothing, or none at all.
KeepOrName ==
  \/ named' = named
  \/ \E t \in Roots : named[t] = None /\ named' = [named EXCEPT ![t] = opinion]

Name == KeepOrName /\ UNCHANGED <<opinion, height, saved>>

Begin ==
  /\ KeepOrName
  /\ saved' = Append(saved, opinion)
  /\ UNCHANGED <<opinion, height>>

\* Commit folds the innermost transaction into its parent: nothing changes
\* but the stack.
Fold ==
  /\ saved # <<>>
  /\ saved' = SeqExt!Front(saved)
  /\ UNCHANGED <<opinion, height, named>>

\* Rollback restores exactly the opinion of the innermost checkpoint.
Undo ==
  /\ saved # <<>>
  /\ opinion' = SeqExt!Last(saved)
  /\ saved' = SeqExt!Front(saved)
  /\ UNCHANGED <<height, named>>

\* Adopting a named root changes the live opinion only.
Jump(t) ==
  /\ named[t] # None
  /\ opinion' = named[t]
  /\ UNCHANGED <<height, saved, named>>

\* Rebasing below the fork height starts from an empty overlay; it never
\* happens inside a transaction and never renames a named opinion.
Rebase(t, h) ==
  /\ saved = <<>>
  /\ h < ForkBlockNumber
  /\ named[t] \in {None, AllRemote}
  /\ opinion' = AllRemote
  /\ height' = h
  /\ named' = [named EXCEPT ![t] = AllRemote]
  /\ UNCHANGED saved

\* Restoring the fork context returns to the fork height, outside any
\* transaction.
Restore(t) ==
  /\ saved = <<>>
  /\ named[t] # None
  /\ opinion' = named[t]
  /\ height' = ForkBlockNumber
  /\ UNCHANGED <<saved, named>>

Next ==
  \/ \E a \in Addresses :
       \/ \E k \in Keys, v \in StorageValues \cup {0} : WriteSlot(a, k, v)
       \/ ClearSlots(a)
       \/ Destroy(a)
       \/ \E n, b \in AccountValues, e \in BOOLEAN : SetFields(a, n, b, e)
       \/ \E c \in Codes \cup {EmptyCode} : SetCode(a, c)
  \/ Name \/ Begin \/ Fold \/ Undo
  \/ \E t \in Roots : Jump(t) \/ Restore(t)
  \/ \E t \in Roots, h \in BlockNumbers : Rebase(t, h)

Spec == Init /\ [][Next]_overlayVars

=============================================================================
