----------------------------- MODULE MCCacheAge -----------------------------
\* Instances of the ages of cached replies for TLC.
EXTENDS CacheAge

CONSTANTS k1, s1, s2
=============================================================================
