------------------------------- MODULE MC_ota -------------------------------
EXTENDS Ota, TLC
CONSTANTS f1, f2, c1
ImageKind == f1 :> "fota" @@ f2 :> "fota" @@ c1 :> "cota"
ImageSize == f1 :> 2 @@ f2 :> 1 @@ c1 :> 2
=============================================================================
