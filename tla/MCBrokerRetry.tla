--------------------------- MODULE MCBrokerRetry ---------------------------
(***************************************************************************)
(* Keys that are sent again, for TLC: one key under several signatures, or *)
(* the steps of one package.                                               *)
(***************************************************************************)
EXTENDS MCBrokerWriteLedger

CONSTANTS k4, k5

RetryKeys   == {k1, k2}
PackageKeys == {k3, k4, k5}

ResentRequests == RetryRequests \union PackageOf(k3, k4, k5)

\* A behaviour sends keys of one kind; a package's clock only has to pass the
\* first authorization.
OneKindOfKeys ==
    \/ sent \subseteq RetryKeys
    \/ sent \subseteq PackageKeys /\ clock <= 1
=============================================================================
