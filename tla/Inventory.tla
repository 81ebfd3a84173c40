------------------------------- MODULE Inventory -------------------------------
(***************************************************************************)
(* The filament inventory (elysian-protocol inventory.rs, spools.rs) and   *)
(* the page of the window that edits it (elysian-ui lib.rs): spools and    *)
(* the filaments they hold, kept in memory and in inventory.json, a draft  *)
(* of one spool in the fields of the page, and a list pulled from the      *)
(* cloud that arrives later.  Rows are chosen by index, changed by id, and *)
(* the draft is written back whole.                                        *)
(***************************************************************************)
EXTENDS Integers, Sequences, SequencesExt

CONSTANTS Names,      \* what a filament is told apart by: maker, series, colour
          Profiles,   \* Bambu's filament ids, which may be blank
          Skus,       \* the names of the catalog's filaments
          Remote,     \* lists of spools the cloud may answer with
          Legacy,     \* lists an old spools.json may hold
          Full,       \* grams on a new spool
          Blank,      \* the empty id
          MaxSpools, MaxUsed, MaxChanges  \* bounds on rows, grams taken off one, changes

VARIABLES inv,        \* filaments and spools in memory
          file,       \* the same, in inventory.json
          selected,   \* row chosen on the page, 0 for none
          draft,      \* the fields of the page
          pulling,    \* a pull is under way
          behind,     \* history: the file could not be written, or read
          gaps,       \* history: a row before the last was deleted
          changes     \* changes made so far, bounded by MaxChanges

store == <<inv, file, selected, draft, pulling, behind, gaps, changes>>

NoInventory == [filaments |-> <<>>, spools |-> <<>>]

\* Ids are numbered from the length of the list.
LocalId(n) == <<"s", n>>

\* Lists from outside hold whole weights and ids that no row has of its own;
\* what an old file holds fits in memory.
ASSUME ListsAssumption ==
    /\ \A list \in Remote \cup Legacy :
          /\ Len(list) \in Nat /\ list = [n \in 1 .. Len(list) |-> list[n]]
          /\ \A n \in 1 .. Len(list) :
                /\ list[n].initial \in Nat /\ list[n].net \in Nat
                /\ \A m \in 1 .. MaxSpools : list[n].id # LocalId(m)
    /\ \A list \in Legacy : Len(list) <= MaxSpools
    /\ \A m \in 1 .. MaxSpools : Blank # LocalId(m)
    /\ Full \in Nat /\ MaxSpools \in Nat

Left(s) == IF s.initial > s.used THEN s.initial - s.used ELSE 0

\* The fields for a new spool.
NewDraft == [id |-> Blank, profile |-> Blank, name |-> Blank, initial |-> Full, net |-> Full]

\* flatten: a spool as the page and the cloud see it.
Flat(i, s) ==
    [id |-> IF s.cloud = Blank THEN s.id ELSE s.cloud,
     profile |-> i.filaments[s.filament].profile,
     name |-> i.filaments[s.filament].name,
     initial |-> s.initial, net |-> Left(s)]

\* Adds a filament unless the one at a place of the list will do; what is
\* stored and where.
Stored(list, filament, at) ==
    IF at # 0 THEN [list |-> list, at |-> at]
    ELSE [list |-> Append(list, filament), at |-> Len(list) + 1]

\* Faulty variant, for the mutation checks.
RowOfOwn(i, flat) == IF flat.id = Blank THEN 0 ELSE SelectInSeq(i.spools, LAMBDA s : s.id = flat.id)

\* upsert_flat looks a spool up by its own id or the cloud's, the first match.
RowOf(i, flat) ==
    IF flat.id = Blank THEN 0
    ELSE SelectInSeq(i.spools, LAMBDA s : s.id = flat.id \/ s.cloud = flat.id)

RowUpserted(i, flat) == IF RowOf(i, flat) # 0 THEN RowOf(i, flat) ELSE Len(i.spools) + 1

Upsert(i, flat) ==
    LET known == SelectInSeq(i.filaments, LAMBDA f : \/ flat.profile # Blank /\ f.profile = flat.profile
                                                     \/ f.name = flat.name)
        stored == Stored(i.filaments, [name |-> flat.name, profile |-> flat.profile, sku |-> Blank], known)
        row == RowUpserted(i, flat)
        old == row \in DOMAIN i.spools
        initial == IF flat.initial > 0 THEN flat.initial
                   ELSE IF old THEN i.spools[row].initial ELSE Full
        spool == [id |-> IF old THEN i.spools[row].id ELSE LocalId(row), cloud |-> flat.id,
                  filament |-> stored.at, initial |-> initial,
                  used |-> IF initial > flat.net THEN initial - flat.net ELSE 0]
    IN  [filaments |-> stored.list,
         spools |-> IF old THEN [i.spools EXCEPT ![row] = spool] ELSE Append(i.spools, spool)]

\* One after the other.
Merged(i, list) ==
    LET after[n \in 0 .. Len(list)] == IF n = 0 THEN i ELSE Upsert(after[n - 1], list[n])
    IN  after[Len(list)]

\* The rows with another id.
Without(rows, id) ==
    LET rest[n \in 0 .. Len(rows)] == IF n = 0 THEN <<>>
                                      ELSE IF rows[n].id = id THEN rest[n - 1]
                                      ELSE Append(rest[n - 1], rows[n])
    IN  rest[Len(rows)]

\* The first row with the id.
FirstWith(i, id) == SelectInSeq(i.spools, LAMBDA s : s.id = id)

-----------------------------------------------------------------------------
(* The file and the page                                                   *)

\* persist_spools: a failure is a line of status.
Persist ==
    /\ \/ file' = inv' /\ behind' = FALSE
       \/ file' = file /\ behind' = TRUE
    /\ changes < MaxChanges
    /\ changes' = changes + 1

\* The fields show row n; of no row, what they showed.
Show(n) ==
    /\ selected' = n
    /\ draft' = IF n \in DOMAIN inv'.spools THEN Flat(inv', inv'.spools[n]) ELSE draft

New ==
    /\ selected' = 0
    /\ draft' = NewDraft
    /\ UNCHANGED <<inv, file, pulling, behind, gaps, changes>>

Select ==
    /\ \E n \in DOMAIN inv.spools : UNCHANGED inv /\ Show(n)
    /\ UNCHANGED <<file, pulling, behind, gaps, changes>>

\* The fields that name the filament may be typed over.
Edit ==
    /\ \/ \E n \in Names : draft' = [draft EXCEPT !.name = n]
       \/ \E p \in Profiles : draft' = [draft EXCEPT !.profile = p]
    /\ UNCHANGED <<inv, file, selected, pulling, behind, gaps, changes>>

\* add_catalog_spool: a filament for the product unless it has one, and a
\* spool of it, which is then looked up by its id.
AddCatalog ==
    /\ Len(inv.spools) < MaxSpools
    /\ \E sku \in Skus :
          LET known == SelectInSeq(inv.filaments, LAMBDA f : f.sku = sku)
              stored == Stored(inv.filaments, [name |-> sku, profile |-> Blank, sku |-> sku], known)
              id == LocalId(Len(inv.spools) + 1)
          IN  inv' = [filaments |-> stored.list,
                      spools |-> Append(inv.spools, [id |-> id, cloud |-> Blank, filament |-> stored.at,
                                                     initial |-> Full, used |-> 0])]
    /\ Show(FirstWith(inv', LocalId(Len(inv.spools) + 1)))
    /\ Persist
    /\ UNCHANGED <<pulling, gaps>>

\* save_draft_spool.
Save ==
    /\ RowUpserted(inv, draft) <= MaxSpools
    /\ inv' = Upsert(inv, draft)
    /\ Show(FirstWith(inv', inv'.spools[RowUpserted(inv, draft)].id))
    /\ Persist
    /\ UNCHANGED <<pulling, gaps>>

\* delete_selected_spool: every row with the id goes.
Delete ==
    /\ selected # 0
    /\ LET id == inv.spools[selected].id
       IN  inv' = [inv EXCEPT !.spools = Without(@, id)]
    /\ gaps' = (gaps \/ selected < Len(inv.spools))
    /\ selected' = 0
    /\ draft' = NewDraft
    /\ Persist
    /\ UNCHANGED pulling

\* The row the id of the selected one leads to.
Chosen == FirstWith(inv, inv.spools[selected].id)

SetUsed(used) ==
    /\ used \in 0..MaxUsed
    /\ inv' = [inv EXCEPT !.spools[Chosen].used = used]
    /\ Show(selected)
    /\ Persist
    /\ UNCHANGED <<pulling, gaps>>

\* apply_spool_use, apply_spool_measure: grams taken off, or left on the scale.
Use ==
    /\ selected # 0
    /\ \E grams \in 0..Full : SetUsed(inv.spools[Chosen].used + grams)

Measure ==
    /\ selected # 0
    /\ LET initial == inv.spools[Chosen].initial
       IN  \E left \in 0..Full + 1 : SetUsed(IF initial > left THEN initial - left ELSE 0)

-----------------------------------------------------------------------------
(* The cloud, and a new start                                              *)

Pull == ~pulling /\ pulling' = TRUE /\ UNCHANGED <<inv, file, selected, draft, behind, gaps, changes>>

\* Faulty variant, for the mutation checks.
PulledUnseen ==
    /\ pulling
    /\ pulling' = FALSE
    /\ \E list \in Remote :
          /\ inv' = Merged(inv, list)
          /\ Len(inv'.spools) <= MaxSpools
    /\ Persist
    /\ UNCHANGED <<selected, draft, gaps>>

\* merge_pulled_spools: in order, whatever happened since; then the page.
Pulled ==
    /\ pulling
    /\ pulling' = FALSE
    /\ \E list \in Remote :
          /\ inv' = Merged(inv, list)
          /\ Len(inv'.spools) <= MaxSpools
    /\ Show(selected)
    /\ Persist
    /\ UNCHANGED gaps

PullFailed == pulling /\ pulling' = FALSE /\ UNCHANGED <<inv, file, selected, draft, behind, gaps, changes>>

\* App::new: a file that cannot be read is an empty inventory.
Opened(i) ==
    /\ selected = IF i.spools = <<>> THEN 0 ELSE 1
    /\ draft = IF i.spools = <<>> THEN NewDraft ELSE Flat(i, i.spools[1])

Restart ==
    /\ pulling' = FALSE
    /\ \/ inv' = file /\ behind' = FALSE
       \/ inv' = NoInventory /\ behind' = TRUE
    /\ selected' = IF inv'.spools = <<>> THEN 0 ELSE 1
    /\ draft' = IF inv'.spools = <<>> THEN NewDraft ELSE Flat(inv', inv'.spools[1])
    /\ UNCHANGED <<file, gaps, changes>>

\* load_inventory: the old file is taken over the first time.
InventoryInit ==
    /\ inv \in {Merged(NoInventory, list) : list \in Legacy}
    /\ file = inv
    /\ Opened(inv)
    /\ pulling = FALSE
    /\ behind = FALSE
    /\ gaps = FALSE
    /\ changes = 0

InventoryNext ==
    \/ New \/ Select \/ Edit \/ AddCatalog \/ Save \/ Delete \/ Use \/ Measure
    \/ Pull \/ Pulled \/ PullFailed \/ Restart

InventorySpec == InventoryInit /\ [][InventoryNext]_store

-----------------------------------------------------------------------------
(* Properties *)

\* What the page holds of the selected spool and does not let the user type,
\* its id and its weights, is what the inventory holds of it, so that saving
\* the page never undoes a use, a measurement or a pull that came after the
\* page was filled, and never lands on another spool; a page with no spool
\* selected will be saved as a new one (refresh_draft_from_selected).
DraftCurrent ==
    IF selected = 0 THEN draft.id = Blank
    ELSE /\ selected \in DOMAIN inv.spools
         /\ LET shown == Flat(inv, inv.spools[selected])
            IN  draft.id = shown.id /\ draft.initial = shown.initial /\ draft.net = shown.net

\* Unless the file could not be written or read, it holds what the memory
\* holds, so that closing the program at any moment loses nothing
\* (persist_spools after every change).
FileCurrent == ~behind => file = inv

\* Memory, page and file agree on the spools after every operation, also one
\* that came between filling the page and saving it.
StoreCurrent == DraftCurrent /\ FileCurrent

\* An operation on the selected spool is about that spool alone: no other row
\* changes or goes, and saving leaves on it what was left.  Ids are numbered
\* from the length of the list, so once a row before the last was deleted two
\* rows may share an id and this fails (inventory.rs:316): gaps leaves that out.
SelectedOnly ==
    [][~gaps /\ (Save \/ Use \/ Measure \/ Delete) /\ selected # 0 =>
        LET others == DOMAIN inv.spools \ {selected}
        IN  IF Len(inv'.spools) < Len(inv.spools)
            THEN inv'.spools = RemoveAt(inv.spools, selected)
            ELSE /\ Len(inv'.spools) = Len(inv.spools)
                 /\ \A n \in others : inv'.spools[n] = inv.spools[n]
                 /\ Save => Left(inv'.spools[selected]) = Left(inv.spools[selected])]_store
=============================================================================
