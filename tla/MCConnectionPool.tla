--------------------------- MODULE MCConnectionPool ---------------------------
EXTENDS ConnectionPool

\* An admin's call takes the first steps of one approved by policy, a tap those that
\* follow its check; both end with a connection in hand, as a poll does.
ThreeKinds == {"auto", "human", "revoke"}

=============================================================================
