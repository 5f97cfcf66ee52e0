---------------------------- MODULE ProductEdits ----------------------------
(***************************************************************************)
(* Editing the product catalogue: services/product_service.py and          *)
(* repositories/product_repository.py.                                     *)
(*                                                                         *)
(* A client edits the copy of a product it fetched and sends the version   *)
(* of that copy with the changes.  The barcode stands for all the fields a *)
(* client edits, and is the one that must be unique, over deleted rows     *)
(* too.  The stock and the reorder flag are no such fields: receipts       *)
(* change them without a new version, and nothing here writes them.        *)
(***************************************************************************)
EXTENDS Integers

CONSTANTS
  Product, Clients, Barcodes,
  LastVersion,   \* bound: versions of a product
  Nil

ASSUME BarcodeAssumption == Nil \notin Barcodes /\ Nil \notin Clients /\ Nil \notin Product

VARIABLES
  item,    \* rows: absent, live or deleted; version and barcode
  copy,    \* what a client has of a product
  holder   \* the client whose update has locked the row, or Nil

editVars == <<item, copy, holder>>

-----------------------------------------------------------------------------
Item == [row : {"absent", "live", "deleted"}, version : Nat, barcode : Barcodes \cup {Nil}]
Copy == [of : Product \cup {Nil}, version : Nat, barcode : Barcodes \cup {Nil}]
NoCopy == [of |-> Nil, version |-> 0, barcode |-> Nil]

EditTypeOK ==
  /\ item \in [Product -> Item]
  /\ copy \in [Clients -> Copy]
  /\ holder \in [Product -> Clients \cup {Nil}]

EditInit ==
  /\ item = [p \in Product |-> [row |-> "absent", version |-> 0, barcode |-> Nil]]
  /\ copy = [c \in Clients |-> NoCopy]
  /\ holder = [p \in Product |-> Nil]

\* The unique index ix_products_barcode; barcode_exists sees live rows only.
BarcodeFree(barcode) == barcode = Nil \/ \A p \in Product : item[p].barcode # barcode

\* A client does one thing after the other.
NotUpdating(c) == \A p \in Product : holder[p] # c

Answered(p) == [of |-> p, version |-> item'[p].version, barcode |-> item'[p].barcode]

\* create_product: a product is known by its SKU, unique over deleted rows too.
CreateProduct(c, p, barcode) ==
  /\ NotUpdating(c)
  /\ item[p].row = "absent"
  /\ BarcodeFree(barcode)
  /\ item' = [item EXCEPT ![p] = [row |-> "live", version |-> 1, barcode |-> barcode]]
  /\ copy' = [copy EXCEPT ![c] = Answered(p)]
  /\ UNCHANGED holder

\* get_product, list_products and barcode_lookup.
Fetch(c, p) ==
  /\ item[p].row = "live"
  /\ NotUpdating(c)
  /\ copy' = [copy EXCEPT ![c] = [of |-> p, version |-> item[p].version, barcode |-> item[p].barcode]]
  /\ UNCHANGED <<item, holder>>

\* update_product up to the check of the version, which it makes with the row
\* locked.
LockRow(c, p) ==
  /\ copy[c].of = p /\ item[p].row = "live"
  /\ NotUpdating(c)
  /\ holder[p] = Nil
  /\ item[p].version = copy[c].version
  /\ holder' = [holder EXCEPT ![p] = c]
  /\ UNCHANGED <<item, copy>>

\* The rest of it: the answer is the product as it is now.
UpdateProductMutant(c, p, barcode) ==
  /\ holder[p] = c /\ item[p].version < LastVersion
  /\ barcode = item[p].barcode \/ BarcodeFree(barcode)
  /\ item' = [item EXCEPT ![p].barcode = barcode]
  /\ copy' = [copy EXCEPT ![c] = Answered(p)]
  /\ holder' = [holder EXCEPT ![p] = Nil]
UpdateProduct(c, p, barcode) ==
  /\ holder[p] = c /\ item[p].version < LastVersion
  /\ barcode = item[p].barcode \/ BarcodeFree(barcode)
  /\ item' = [item EXCEPT ![p].barcode = barcode, ![p].version = @ + 1]
  /\ copy' = [copy EXCEPT ![c] = Answered(p)]
  /\ holder' = [holder EXCEPT ![p] = Nil]

\* The barcode is taken, or the update fails.
UpdateFails(c, p) ==
  /\ holder[p] = c
  /\ holder' = [holder EXCEPT ![p] = Nil]
  /\ UNCHANGED <<item, copy>>

\* delete_product: the write waits for the row's lock.
DeleteProduct(p) ==
  /\ item[p].row = "live" /\ holder[p] = Nil
  /\ item' = [item EXCEPT ![p].row = "deleted"]
  /\ UNCHANGED <<copy, holder>>

EditNext ==
  \E p \in Product :
    \/ DeleteProduct(p)
    \/ \E c \in Clients :
         \/ Fetch(c, p) \/ LockRow(c, p) \/ UpdateFails(c, p)
         \/ \E barcode \in Barcodes \cup {Nil} :
              CreateProduct(c, p, barcode) \/ UpdateProduct(c, p, barcode)

EditSpec == EditInit /\ [][EditNext]_editVars

-----------------------------------------------------------------------------
\* "Product was modified by another request": an update is made to exactly what
\* its client had before it, never over changes the client has not seen, and
\* never to a product that is deleted.
EditsBuildOnCopy ==
  [][\A p \in Product : item[p].row # "absent" /\ item'[p].barcode # item[p].barcode =>
       /\ item[p].row = "live"
       /\ \E c \in Clients :
            /\ holder[p] = c
            /\ copy[c] = [of |-> p, version |-> item[p].version, barcode |-> item[p].barcode]]_editVars

\* The inductive invariant: a copy of the present version is the present product,
\* and a client whose update holds the row has one.
EditIInv ==
  /\ EditTypeOK
  /\ \A c \in Clients, p \in Product :
       /\ copy[c].of = p =>
            /\ item[p].row # "absent"
            /\ copy[c].version <= item[p].version
            /\ copy[c].version = item[p].version => copy[c].barcode = item[p].barcode
       /\ holder[p] = c =>
            /\ item[p].row = "live"
            /\ copy[c].of = p /\ copy[c].version = item[p].version

=============================================================================
