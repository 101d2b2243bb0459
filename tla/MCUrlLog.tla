------------------------------ MODULE MCUrlLog ------------------------------
(* Words and lines for checking UrlLog with TLC.                           *)
EXTENDS UrlLog

CONSTANTS u1, u2, u3

MCUrls == {u1, u2, u3}

W(url, fetched, page) == [url |-> url, fault |-> "none", fetched |-> fetched, page |-> page]
A    == W(u1, TRUE, u1)     \* a web page
B    == W(u2, TRUE, u1)     \* a page that names A's URL instead of its own
Ftp  == W(u3, FALSE, u3)
Bad  == [A EXCEPT !.fault = "bad port"]

\* Overlapping fetches of one URL, of a URL and a page that names it, and one line
\* with URLs of each kind.
MCLines == {<<A>>, <<B, Bad>>, <<Ftp>>, <<A, B>>}
=============================================================================
