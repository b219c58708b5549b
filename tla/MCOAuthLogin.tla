---------------------------- MODULE MCOAuthLogin ----------------------------
EXTENDS OAuthLogin
=============================================================================
