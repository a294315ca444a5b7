SPECIFICATION Spec
CONSTANTS
    gallery = gallery
    forger = forger
    set = set
    Admins = {alice, bob, carol}
    Nobody = Nobody
    Collections = {c1, c2}
    NavMints = {navSOL}
    Programs <- MCPrograms
    here = here
    Seeds = {here}
    Elsewhere = elsewhere
    ReceiptAccounts <- MCReceiptAccounts
    Sets <- MCSets
    Masks = {1}
    ImageAccounts <- MCImageAccounts
    NoArtwork = NoArtwork
    NoPicture = NoPicture
SYMMETRY Symmetry
INVARIANTS
    TypeOK
    NominationIsCurrent
    ArtworkIsBought
    ClosedReceiptFallsBack
PROPERTIES
    CollectionIsForever
    PicturesAreLicensed
