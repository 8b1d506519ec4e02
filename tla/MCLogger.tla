------------------------------ MODULE MCLogger ------------------------------
(* Model values for the run of Logger.                                     *)
EXTENDS Logger

CONSTANTS t1, t2, app, own, stdout, file, standard, other

MCThreads == {t1, t2}
MCNamed == {app}
MCOwn == {own}
MCAppenders == {stdout, file}
MCFormatters == {standard, other}
=============================================================================
