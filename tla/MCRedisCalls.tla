---------------------------- MODULE MCRedisCalls ----------------------------
\* Arrays that are empty, have one element, and fill argv beyond its 25 slots, and
\* strings of options that are empty, have two words, and fill it likewise.
EXTENDS RedisCalls

=============================================================================
