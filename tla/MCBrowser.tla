------------------------------ MODULE MCBrowser ------------------------------
(* Two remote nodes and this one, each with a page and a file. *)
EXTENDS Browser, TLC

CONSTANTS x, y, here, aPage, aFile

Node == {x, y, here}
OnlyPages == {aPage}
OnlyFiles == {aFile}

At(dest, path) == [dest |-> dest, path |-> path]

TypedURLs == {At(x, aPage), Malformed}
LinkURLs == {At(None, aFile), At(y, aPage), At(here, aPage)}

(* Two nodes, for the shared link and the mixed-up destination. *)
PagesOfBoth == {At(x, aPage), At(y, aPage), Malformed}
=============================================================================
