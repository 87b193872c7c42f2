------------------------------- MODULE MCEMail -------------------------------
EXTENDS EMail
MCMails == {<<"kopf", "zeile", "lang", "zeile">>, <<"html", "zeile">>}
MCText == <<"x", "zl", "y">>
=============================================================================
