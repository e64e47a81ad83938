------------------------------ MODULE MCMonitor ------------------------------
(* A site whose sitemap lists another address, or a bad one, or none. *)
EXTENDS Monitor

MCUrls == {"site", "page", "bad"}
MCBadUrls == {"bad"}
MCBodies == {<<"page">>, <<>>, <<"bad">>}

\* The form is used for the site only; its page comes from the sitemap.
MCFormUrls == {"site", "bad"}

Symmetry == Permutations(Workers)
=============================================================================
