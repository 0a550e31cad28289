---- MODULE MCFilterWatchdog ----
EXTENDS FilterWatchdog
====
