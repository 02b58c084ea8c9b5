--------------------------- MODULE MCChangeReview ---------------------------
EXTENDS ChangeReview, TLC
CONSTANTS f1, f2, blank, padded

\* A file with nothing but line ends, and a line with blanks before it.
StrippedOf == (blank :> "") @@ (padded :> "a")
RejoinedOf == (blank :> "") @@ (padded :> " a")
=============================================================================
