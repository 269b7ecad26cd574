-------------------------- MODULE MCSiteGenerator ---------------------------
EXTENDS SiteGenerator
=============================================================================
