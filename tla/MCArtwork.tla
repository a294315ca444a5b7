------------------------------ MODULE MCArtwork ------------------------------
(* A small instance of Artwork and of the Protocol in it.  Three admins, so *)
(* that a nomination can outlive the one who made it, and two addresses    *)
(* for a collection.  A gallery the admin may trust and a forger he may    *)
(* drop, each with a receipt for one position, the gallery with one for    *)
(* another; pictures for an admin key, for any delegated key (the          *)
(* gallery's) and for delegated keys of one mask (the forger's).           *)
EXTENDS Artwork, TLC

CONSTANTS gallery, forger, set, here

MCPrograms == {gallery, forger}
MCSets == {set}

MCImage(program, key_type, mask) ==
    [program |-> program, set |-> set, key_type |-> key_type, permissions |-> mask]

MCImageAccounts ==
    {MCImage(gallery, "admin", 0), MCImage(gallery, "delegate", 0),
     MCImage(forger, "delegate", 1)}

MCReceipt(program, seed) == [program |-> program, set |-> set, position |-> seed]

MCReceiptAccounts ==
    {MCReceipt(gallery, here), MCReceipt(gallery, Elsewhere), MCReceipt(forger, here)}

Symmetry == Permutations(Admins) \cup Permutations(Collections)
=============================================================================
