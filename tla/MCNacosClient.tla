---------------------------- MODULE MCNacosClient ----------------------------
EXTENDS NacosClient

CONSTANTS k1, k2
=============================================================================
